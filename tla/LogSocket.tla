------------------------------ MODULE LogSocket ------------------------------
(***************************************************************************)
(* The log collector and the log websocket of management/api/log.py.       *)
(*                                                                         *)
(* emit() schedules a send() coroutine and puts the line in a bounded      *)
(* deque; send() walks through the live list of listeners and awaits each  *)
(* of them. The coroutine of a connection awaits a token, sends the deque  *)
(* and only then joins the listeners. Its own log lines go through the     *)
(* collector like any other. A send on a websocket that is open writes at  *)
(* once and may then suspend; on a closed one it raises.                   *)
(*                                                                         *)
(* The model follows one line, which may be any of the lines logged; the   *)
(* others, without bound, are what pushes it out of the deque.             *)
(***************************************************************************)
EXTENDS Naturals, FiniteSets, SequencesExt

CONSTANTS
    Conns,      \* websocket connections, each used once
    MaxLines    \* the length of the deque (2048 in the code)

ASSUME LinesAssumption == MaxLines \in Nat \ {0}

VARIABLES
    place,      \* of the line in the deque, 1 for the newest; 0: not in it
                \* yet; MaxLines + 1: pushed out
    send,       \* its send() coroutine and the listeners that has passed
    listeners,
    sockets,
    conn,       \* the coroutines of the connections
    stop,       \* stop_all() and the sockets it has passed
    got,        \* the connections whose peer received the line
    excused     \* those that cannot expect it, see NothingLost

vars == <<place, send, listeners, sockets, conn, stop, got, excused>>
log  == <<place, send>>
rest == <<place, send, listeners, sockets, stop, got, excused>>

\* pc: where the coroutine of the connection is; timer: the coroutine
\* close_if_not_authenticated() of the connection.
Connections ==
    [pc : {"new", "recv", "ack", "history", "nack", "except", "done"},
     authenticated : BOOLEAN, closed : BOOLEAN,
     timer : {"off", "sleep", "closing"}]

Attached == stop.pc = "no"

-----------------------------------------------------------------------------
(* The collector                                                           *)

InDeque == place \in 1..MaxLines

\* deque(maxlen=MAX_LINES): another line is appended.
Pushed == IF InDeque THEN place + 1 ELSE place

Schedule == send.pc = "no" /\ send' = [pc |-> "running", at |-> 0]

\* emit() of a line that the event loop logs: the one we follow or another.
Emit ==
    \/ Attached /\ Schedule /\ place' = 1
    \/ Attached /\ place' = Pushed /\ UNCHANGED send
    \/ ~Attached /\ UNCHANGED log

Logged ==
    /\ Attached
    /\ Emit
    /\ UNCHANGED <<listeners, sockets, conn, stop, got, excused>>

\* In another thread the event loop may run between the two halves of emit().
ThreadLogged ==
    /\ Attached
    /\ Schedule
    /\ UNCHANGED <<place, listeners, sockets, conn, stop, got, excused>>

ThreadAppended ==
    /\ send.pc # "no"
    /\ place = 0
    /\ place' = 1
    /\ UNCHANGED <<send, listeners, sockets, conn, stop, got, excused>>

\* Mutant: the exception of a closed listener ends the loop.
BrittleSend ==
    /\ send.pc = "running"
    /\ send.at < Len(listeners)
    /\ IF conn[listeners[send.at + 1]].closed
       THEN send' = [pc |-> "done", at |-> 0] /\ UNCHANGED got
       ELSE /\ send' = [send EXCEPT !.at = @ + 1]
            /\ got' = got \cup {listeners[send.at + 1]}
    /\ UNCHANGED <<place, listeners, sockets, conn, stop, excused>>

\* The next listener of the loop in send(). A listener that is closed raises,
\* which is caught.
Send ==
    /\ send.pc = "running"
    /\ send.at < Len(listeners)
    /\ send' = [send EXCEPT !.at = @ + 1]
    /\ got' = got \cup {c \in {listeners[send.at + 1]} : ~conn[c].closed}
    /\ UNCHANGED <<place, listeners, sockets, conn, stop, excused>>

\* A connection that has its history and is not a listener yet misses it.
SendDone ==
    /\ send.pc = "running"
    /\ send.at >= Len(listeners)
    /\ send' = [pc |-> "done", at |-> 0]
    /\ excused' = excused \cup {c \in Conns : conn[c].pc = "history"
                                             /\ ~conn[c].authenticated}
    /\ UNCHANGED <<place, listeners, sockets, conn, stop, got>>

-----------------------------------------------------------------------------
(* A connection                                                            *)

Goto(c, l) == conn' = [conn EXCEPT ![c].pc = l]

Connect(c) ==
    /\ conn[c].pc = "new"
    /\ conn' = [conn EXCEPT ![c].pc = "recv", ![c].timer = "sleep"]
    /\ sockets' = Append(sockets, c)
    /\ Emit
    /\ UNCHANGED <<listeners, stop, got, excused>>

Open(c) == conn[c].pc = "recv" /\ ~conn[c].closed

\* is_valid_token() on a text message.
Token(c) ==
    /\ Open(c)
    /\ Goto(c, "ack")
    /\ UNCHANGED rest

\* An authenticated connection stays where it is.
NoToken(c) ==
    /\ Open(c)
    /\ ~conn[c].authenticated
    /\ Goto(c, "nack")
    /\ UNCHANGED rest

Nacked(c) ==
    /\ conn[c].pc = "nack"
    /\ ~conn[c].closed
    /\ Goto(c, "recv")
    /\ UNCHANGED rest

\* The deque is copied and written.
History(c) ==
    /\ conn[c].pc = "ack"
    /\ ~conn[c].closed
    /\ Goto(c, "history")
    /\ got' = IF InDeque THEN got \cup {c} ELSE got
    /\ excused' = IF send.pc = "done" THEN excused \cup {c} ELSE excused
    /\ UNCHANGED <<place, send, listeners, sockets, stop>>

\* Mutant: a second token appends a second listener.
JoinAgain(c) ==
    /\ conn[c].pc = "history"
    /\ conn' = [conn EXCEPT ![c].pc = "recv", ![c].authenticated = TRUE]
    /\ listeners' = Append(listeners, c)
    /\ Emit
    /\ UNCHANGED <<sockets, stop, got, excused>>

\* The history is out. A close in the meantime is noticed later. The place at
\* the end of the list may be one that send() has passed, with a listener that
\* has left.
Join(c) ==
    /\ conn[c].pc = "history"
    /\ conn' = [conn EXCEPT ![c].pc = "recv", ![c].authenticated = TRUE]
    /\ IF conn[c].authenticated THEN UNCHANGED <<listeners, excused, log>>
       ELSE /\ listeners' = Append(listeners, c)
            /\ excused' = IF Len(listeners) < send.at THEN excused \cup {c}
                          ELSE excused
            /\ Emit
    /\ UNCHANGED <<sockets, stop, got>>

\* A send on a closed websocket, or a suspended send whose peer is gone.
Raised(c) ==
    /\ conn[c].pc \in {"ack", "history", "nack"}
    /\ conn[c].closed
    /\ Goto(c, "except")
    /\ UNCHANGED rest

\* list.remove()
Left(list, c) == RemoveFirst(list, c)

\* The loop of send() is past c: it passes over the listener that moves into
\* the place it has just left.
Skipped(c) ==
    {d \in Conns : /\ send.at \in 1..Len(listeners) - 1
                   /\ d = listeners[send.at + 1]
                   /\ c \in ToSet(SubSeq(listeners, 1, send.at))}

\* The end of the loop, by a close or by the exception handler.
Disconnect(c) ==
    /\ conn[c].pc = "except" \/ (conn[c].pc = "recv" /\ conn[c].closed)
    /\ conn' = [conn EXCEPT ![c].pc = "done", ![c].closed = TRUE]
    /\ IF conn[c].authenticated
       THEN listeners' = Left(listeners, c) /\ excused' = excused \cup Skipped(c)
       ELSE UNCHANGED <<listeners, excused>>
    /\ sockets' = Left(sockets, c)
    /\ Emit
    /\ UNCHANGED <<stop, got>>

\* The peer closes or is gone.
PeerClosed(c) ==
    /\ conn[c].pc \notin {"new", "done"}
    /\ ~conn[c].closed
    /\ conn' = [conn EXCEPT ![c].closed = TRUE]
    /\ UNCHANGED rest

\* Mutant: the timer looks at nothing and lets the connection be.
IdleTimeout(c) ==
    /\ conn[c].timer = "sleep"
    /\ conn' = [conn EXCEPT ![c].timer = "off"]
    /\ UNCHANGED rest

\* close_if_not_authenticated() after its five seconds.
Timeout(c) ==
    /\ conn[c].timer = "sleep"
    /\ conn' = IF conn[c].authenticated
               THEN [conn EXCEPT ![c].timer = "off"]
               ELSE [conn EXCEPT ![c].timer = "closing", ![c].closed = TRUE]
    /\ UNCHANGED rest

Terminated(c) ==
    /\ conn[c].timer = "closing"
    /\ conn' = [conn EXCEPT ![c].timer = "off"]
    /\ Emit
    /\ UNCHANGED <<listeners, sockets, stop, got, excused>>

-----------------------------------------------------------------------------
(* Shutdown                                                                *)

StopAll ==
    /\ Attached
    /\ Emit
    /\ stop' = [pc |-> "closing", at |-> 0]
    /\ UNCHANGED <<listeners, sockets, conn, got, excused>>

\* The loop goes over the live list of sockets and awaits each close.
StopNext ==
    /\ stop.pc = "closing"
    /\ IF stop.at < Len(sockets)
       THEN /\ conn' = [conn EXCEPT ![sockets[stop.at + 1]].closed = TRUE]
            /\ stop' = [stop EXCEPT !.at = @ + 1]
       ELSE stop' = [stop EXCEPT !.pc = "done"] /\ UNCHANGED conn
    /\ UNCHANGED <<place, send, listeners, sockets, got, excused>>

-----------------------------------------------------------------------------

Init ==
    /\ place = 0
    /\ send = [pc |-> "no", at |-> 0]
    /\ listeners = <<>>
    /\ sockets = <<>>
    /\ conn = [c \in Conns |-> [pc |-> "new", authenticated |-> FALSE,
                                closed |-> FALSE, timer |-> "off"]]
    /\ stop = [pc |-> "no", at |-> 0]
    /\ got = {}
    /\ excused = {}

Collector == Logged \/ ThreadLogged \/ ThreadAppended \/ Send \/ SendDone

Connection(c) ==
    \/ Connect(c) \/ Token(c) \/ NoToken(c) \/ Nacked(c) \/ History(c)
    \/ Join(c) \/ Raised(c) \/ Disconnect(c) \/ PeerClosed(c)
    \/ Timeout(c) \/ Terminated(c)

Next == Collector \/ (\E c \in Conns : Connection(c)) \/ StopAll \/ StopNext

Spec == Init /\ [][Next]_vars

\* asyncio fires its timers and wakes a coroutine whose websocket is closed.
\* Nothing makes a peer read: a send on an open websocket may wait forever.
Fairness ==
    \A c \in Conns :
        WF_vars(Timeout(c)) /\ WF_vars(Raised(c)) /\ WF_vars(Disconnect(c))

FairSpec == Spec /\ Fairness

-----------------------------------------------------------------------------
(* Properties                                                              *)

\* The deque keeps its bound, and every part of the state has its shape.
TypeOK ==
    /\ place \in 0..MaxLines + 1
    /\ send \in [pc : {"no", "running", "done"}, at : Nat]
    /\ listeners \in Seq(Conns)
    /\ sockets \in Seq(Conns)
    /\ conn \in [Conns -> Connections]
    /\ stop \in [pc : {"no", "closing", "done"}, at : Nat]
    /\ got \subseteq Conns
    /\ excused \subseteq Conns

\* A listener is a connection whose coroutine runs and which presented a
\* token, it is listed once, and all of these are listed: log_websocket()
\* adds and removes it at the right moments on every path.  A peer that
\* presented no token has not received the line, whatever the others do.
ListenersLive ==
    /\ TypeOK
    /\ IsInjective(listeners)
    /\ ToSet(listeners) = {c \in Conns : conn[c].authenticated
                                         /\ conn[c].pc # "done"}
    /\ \A c \in got : \/ conn[c].authenticated
                     \/ conn[c].pc \in {"history", "except", "done"}

\* A listener has a line in its history or from send(), or a send() that will
\* still come to it, unless send() had finished with the line when the history
\* was copied or while it was on its way, or was past another listener when
\* that one left, which shortens the list under the loop.
NothingLost ==
    \A i \in 1..Len(listeners) :
        LET c == listeners[i] IN
        ~conn[c].closed =>
            \/ send.pc = "no"
            \/ c \in got \cup excused
            \/ send.pc = "running" /\ send.at < i

\* A connection does not stay open without a token: it is authenticated or its
\* coroutine ends, also when the peer neither sends nor reads.
StrangersLeave ==
    \A c \in Conns :
        conn[c].pc = "recv" ~> (conn[c].authenticated \/ conn[c].pc = "done")
=============================================================================

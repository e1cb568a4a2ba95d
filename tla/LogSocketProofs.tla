-------------------------- MODULE LogSocketProofs ---------------------------
(***************************************************************************)
(* Proofs about LogSocket for any number of connections and any length of  *)
(* the deque: the listeners are the connections that presented a token,    *)
(* and none of them misses a line for another reason than those named.     *)
(***************************************************************************)
EXTENDS LogSocket, SequenceTheorems, TLAPS

\* What a sequence is without its i-th member.
LEMMA RemoveAtIs ==
    ASSUME NEW S, NEW s \in Seq(S), NEW i \in 1..Len(s)
    PROVE  /\ RemoveAt(s, i) \in Seq(S)
           /\ Len(RemoveAt(s, i)) = Len(s) - 1
           /\ \A j \in 1..Len(s) - 1 :
                 RemoveAt(s, i)[j] = IF j < i THEN s[j] ELSE s[j + 1]
<1> DEFINE u == SubSeq(s, 1, i - 1)
           v == SubSeq(s, i + 1, Len(s))
<1>1. /\ u \in Seq(S) /\ Len(u) = i - 1
      /\ \A j \in 1..i - 1 : u[j] = s[j]
  BY SubSeqProperties
<1>2. /\ v \in Seq(S) /\ Len(v) = Len(s) - i
      /\ \A j \in 1..Len(s) - i : v[j] = s[i + j]
  BY SubSeqProperties
<1> HIDE DEF u, v
<1>3. /\ u \o v \in Seq(S) /\ Len(u \o v) = Len(u) + Len(v)
      /\ \A j \in 1..Len(u) + Len(v) :
            (u \o v)[j] = IF j <= Len(u) THEN u[j] ELSE v[j - Len(u)]
  BY <1>1, <1>2, ConcatProperties
<1>4. Len(s) \in Nat /\ i \in Nat /\ Len(u) + Len(v) = Len(s) - 1
  BY <1>1, <1>2, LenProperties
<1>5. ASSUME NEW j \in 1..Len(s) - 1
      PROVE  (u \o v)[j] = IF j < i THEN s[j] ELSE s[j + 1]
  <2>1. CASE j < i
    BY <1>1, <1>3, <1>4, <2>1
  <2>2. CASE ~(j < i)
    <3>1. (u \o v)[j] = v[j - (i - 1)]
      BY <1>1, <1>3, <1>4, <2>2
    <3>2. j - (i - 1) \in 1..Len(s) - i /\ i + (j - (i - 1)) = j + 1
      BY <1>4, <2>2
    <3>3. v[j - (i - 1)] = s[i + (j - (i - 1))]
      BY <1>2, <3>2
    <3> QED
      BY <2>2, <3>1, <3>2, <3>3
  <2> QED
    BY <2>1, <2>2
<1> QED
  BY <1>3, <1>4, <1>5 DEF RemoveAt, u, v

\* list.remove() of a member that is listed once.
LEMMA LeftIs ==
    ASSUME NEW S, NEW s \in Seq(S), IsInjective(s), NEW i \in 1..Len(s)
    PROVE  Left(s, s[i]) = RemoveAt(s, i)
<1> DEFINE I == {j \in 1..Len(s) : s[j] = s[i]}
<1>1. I = {i}
  BY DEF IsInjective
<1>2. Min(I) = i
  BY <1>1 DEF Min
<1>3. SelectInSeq(s, LAMBDA v : v = s[i]) = i
  BY <1>1, <1>2 DEF SelectInSeq
<1> QED
  BY <1>3 DEF Left, RemoveFirst

\* A list that holds every member of M once.
ListOK(list, M) ==
    list \in Seq(Conns) /\ IsInjective(list) /\ ToSet(list) = M

\* list.append() of a connection that is not in the list.
LEMMA Appended ==
    ASSUME NEW M, NEW list, ListOK(list, M), NEW c \in Conns, c \notin M
    PROVE  /\ ListOK(Append(list, c), M \cup {c})
           /\ Len(list) \in Nat /\ Len(Append(list, c)) = Len(list) + 1
           /\ Append(list, c)[Len(list) + 1] = c
           /\ \A i \in 1..Len(list) : Append(list, c)[i] = list[i]
<1>1. list \in Seq(Conns) /\ DOMAIN list = 1..Len(list) /\ Len(list) \in Nat
  BY LenProperties DEF ListOK
<1>2. /\ Append(list, c) \in Seq(Conns)
      /\ Len(Append(list, c)) = Len(list) + 1
      /\ \A i \in 1..Len(list) : Append(list, c)[i] = list[i]
      /\ Append(list, c)[Len(list) + 1] = c
  BY <1>1, AppendProperties
<1>3. DOMAIN Append(list, c) = 1..Len(list) + 1
  BY <1>2, LenProperties
<1>4. \A i \in 1..Len(list) : list[i] # c
  BY <1>1 DEF ListOK, ToSet
<1>5. IsInjective(Append(list, c))
  BY <1>1, <1>2, <1>3, <1>4 DEF IsInjective, ListOK
<1>6. ToSet(Append(list, c)) = M \cup {c}
  BY <1>1, <1>2, <1>3 DEF ToSet, ListOK
<1> QED
  BY <1>1, <1>2, <1>5, <1>6 DEF ListOK

\* The list left has the members of list but its i-th one, in their order.
Gap(list, left, i) ==
    \A j \in 1..Len(list) - 1 : left[j] = IF j < i THEN list[j] ELSE list[j + 1]

\* list.remove() of a connection that is in the list: the members after it move
\* down by one.
LEMMA Removed ==
    ASSUME NEW M, NEW list, ListOK(list, M), NEW c \in M
    PROVE  /\ ListOK(Left(list, c), M \ {c})
           /\ Len(list) \in Nat /\ Len(Left(list, c)) = Len(list) - 1
           /\ \E i \in 1..Len(list) : list[i] = c /\ Gap(list, Left(list, c), i)
<1>1. list \in Seq(Conns) /\ DOMAIN list = 1..Len(list) /\ Len(list) \in Nat
  BY LenProperties DEF ListOK
<1>2. PICK i \in 1..Len(list) : list[i] = c
  BY <1>1 DEF ListOK, ToSet
<1> DEFINE left == Left(list, c)
<1>3. left = RemoveAt(list, i)
  BY <1>1, <1>2, LeftIs DEF ListOK
<1>4. /\ left \in Seq(Conns) /\ Len(left) = Len(list) - 1
      /\ \A j \in 1..Len(list) - 1 :
            left[j] = IF j < i THEN list[j] ELSE list[j + 1]
  BY <1>1, <1>3, RemoveAtIs
<1> HIDE DEF left
<1>5. DOMAIN left = 1..Len(list) - 1
  BY <1>4, LenProperties
<1>6. \A j, k \in 1..Len(list) : list[j] = list[k] => j = k
  BY <1>1 DEF ListOK, IsInjective
<1>7. IsInjective(left)
  <2> SUFFICES ASSUME NEW j \in 1..Len(list) - 1, NEW k \in 1..Len(list) - 1,
                      left[j] = left[k]
               PROVE  j = k
    BY <1>5 DEF IsInjective
  <2> DEFINE J == IF j < i THEN j ELSE j + 1
             K == IF k < i THEN k ELSE k + 1
  <2>1. J \in 1..Len(list) /\ K \in 1..Len(list)
    BY <1>1
  <2>2. list[J] = list[K]
    BY <1>4
  <2>3. J = K
    <3> HIDE DEF J, K
    <3> QED
      BY <1>6, <2>1, <2>2
  <2> QED
    BY <1>1, <2>3
<1>8. ToSet(left) = M \ {c}
  <2>1. ASSUME NEW d \in ToSet(left) PROVE d \in M \ {c}
    <3>1. PICK j \in 1..Len(list) - 1 : d = left[j]
      BY <1>5 DEF ToSet
    <3>2. PICK k \in 1..Len(list) : d = list[k] /\ k # i
      BY <1>1, <1>4, <3>1
    <3>3. d # c
      BY <1>2, <1>6, <3>2
    <3> QED
      BY <1>1, <3>2, <3>3 DEF ListOK, ToSet
  <2>2. ASSUME NEW d \in M \ {c} PROVE d \in ToSet(left)
    <3>1. PICK k \in 1..Len(list) : d = list[k] /\ k # i
      BY <1>1, <1>2 DEF ListOK, ToSet
    <3>2. CASE k < i
      <4>1. k \in 1..Len(list) - 1 /\ left[k] = d
        BY <1>1, <1>4, <3>1, <3>2
      <4> QED
        BY <1>5, <4>1 DEF ToSet
    <3>3. CASE k > i
      <4>1. k - 1 \in 1..Len(list) - 1 /\ left[k - 1] = d
        <5>1. k - 1 \in 1..Len(list) - 1 /\ ~(k - 1 < i) /\ (k - 1) + 1 = k
          BY <1>1, <3>3
        <5> QED
          BY <1>4, <3>1, <5>1
      <4> QED
        BY <1>5, <4>1 DEF ToSet
    <3> QED
      BY <3>1, <3>2, <3>3
  <2> QED
    BY <2>1, <2>2
<1> QED
  BY <1>1, <1>2, <1>4, <1>7, <1>8 DEF ListOK, left, Gap

-----------------------------------------------------------------------------
(* The invariant                                                           *)

\* What is in the two lists.
Members == {c \in Conns : conn[c].authenticated /\ conn[c].pc # "done"}
Present == {c \in Conns : conn[c].pc \notin {"new", "done"}}

\* Nothing is sent to a peer without a token.
Received ==
    \A c \in got : conn[c].authenticated \/ conn[c].pc \in {"history", "except", "done"}

\* A connection that was between its history and the list when send() was done
\* with the line cannot expect it.
Late ==
    \A c \in Conns :
        send.pc = "done" /\ conn[c].pc = "history" /\ ~conn[c].authenticated
            => c \in excused

\* The inductive invariant.
IInv ==
    /\ TypeOK
    /\ ListOK(listeners, Members) /\ ListOK(sockets, Present)
    /\ Received /\ NothingLost /\ Late

\* The invariant contains the property ListenersLive.
LEMMA IInvImplies == IInv => ListenersLive
BY DEF IInv, ListOK, Members, Received, ListenersLive

LEMMA InitIInv == Init => IInv
<1> SUFFICES ASSUME Init PROVE IInv
  OBVIOUS
<1>1. \A M : M = {} => ListOK(<<>>, M)
  <2>1. <<>> \in Seq(Conns) /\ Len(<<>>) = 0 /\ DOMAIN <<>> = {}
    BY EmptySeq
  <2> QED
    BY <2>1 DEF ListOK, IsInjective, ToSet
<1>2. Members = {} /\ Present = {}
  BY DEF Init, Members, Present
<1>3. ListOK(listeners, Members) /\ ListOK(sockets, Present)
  BY <1>1, <1>2 DEF Init
<1>4. TypeOK
  BY <1>3, LinesAssumption DEF Init, TypeOK, ListOK, Connections
<1>5. Received /\ NothingLost /\ Late
  BY DEF Init, Received, NothingLost, Late
<1> QED
  BY <1>3, <1>4, <1>5 DEF IInv

\* How a step of a connection may change it without touching the lists.
Mild(f, g) ==
    /\ g.authenticated = f.authenticated
    /\ g.pc = "done" <=> f.pc = "done"
    /\ g.pc = "new" <=> f.pc = "new"
    /\ f.closed => g.closed
    /\ g.pc = "history" => f.pc = "history"
    /\ f.pc \in {"history", "except"} => g.pc \in {"history", "except"}

\* What emit() does to send().
Starts == send' = send \/ (send.pc = "no" /\ send' = [pc |-> "running", at |-> 0])

LEMMA EmitIs ==
    ASSUME TypeOK, Emit
    PROVE  /\ Starts /\ place' \in 0..MaxLines + 1
           /\ send' \in [pc : {"no", "running", "done"}, at : Nat]
<1>1. MaxLines \in Nat \ {0}
  BY LinesAssumption
<1> QED
  BY <1>1 DEF TypeOK, Emit, Schedule, Pushed, InDeque, log, Starts

\* A step that leaves the lists and the records alone keeps the invariant.
LEMMA Quiet ==
    ASSUME IInv, Starts, UNCHANGED <<listeners, sockets, got, excused>>,
           place' \in 0..MaxLines + 1,
           send' \in [pc : {"no", "running", "done"}, at : Nat],
           stop' \in [pc : {"no", "closing", "done"}, at : Nat],
           conn' \in [Conns -> Connections],
           \A c \in Conns : Mild(conn[c], conn'[c])
    PROVE  IInv'
<1>1. TypeOK'
  BY DEF IInv, TypeOK
<1>2. Members' = Members /\ Present' = Present
  BY DEF Members, Present, Mild
<1>3. ListOK(listeners, Members)' /\ ListOK(sockets, Present)'
  BY <1>2 DEF IInv, ListOK
<1>4. Received'
  BY DEF IInv, TypeOK, Received, Mild
<1>5. NothingLost'
  <2>1. \A i \in 1..Len(listeners) : listeners[i] \in Conns /\ i > 0
    BY LenProperties DEF IInv, TypeOK
  <2> QED
    BY <2>1 DEF IInv, NothingLost, Mild, Starts
<1>6. Late'
  BY DEF IInv, Late, Mild, Starts
<1> QED
  BY <1>1, <1>3, <1>4, <1>5, <1>6 DEF IInv

\* A coroutine of a connection that takes such a step.
LEMMA OneMild ==
    ASSUME IInv, NEW c \in Conns, NEW g \in Connections, Mild(conn[c], g),
           conn' = [conn EXCEPT ![c] = g]
    PROVE  /\ conn' \in [Conns -> Connections]
           /\ \A d \in Conns : Mild(conn[d], conn'[d])
<1>1. conn \in [Conns -> Connections]
  BY DEF IInv, TypeOK
<1>2. \A f : Mild(f, f)
  BY DEF Mild
<1> QED
  BY <1>1, <1>2

\* The steps of a connection that leave the lists and the records alone.
LEMMA QuietConnection ==
    ASSUME IInv, NEW c \in Conns,
           \/ Token(c) \/ NoToken(c) \/ Nacked(c) \/ Raised(c)
           \/ PeerClosed(c) \/ Timeout(c) \/ Terminated(c)
    PROVE  IInv'
<1>1. conn[c] \in Connections /\ conn \in [Conns -> Connections] /\ TypeOK
  BY DEF IInv, TypeOK
<1> DEFINE Goal == \E g \in Connections :
                      Mild(conn[c], g) /\ conn' = [conn EXCEPT ![c] = g]
<1>2. Goal
  <2>1. ASSUME NEW l \in {"ack", "nack", "recv", "except"}, Goto(c, l),
               conn[c].pc \in {"recv", "ack", "nack"}
                   \/ (conn[c].pc = "history" /\ l = "except")
        PROVE  Goal
    <3>1. /\ [conn[c] EXCEPT !.pc = l] \in Connections
          /\ Mild(conn[c], [conn[c] EXCEPT !.pc = l])
      BY <1>1, <2>1 DEF Connections, Mild
    <3> QED
      BY <2>1, <3>1 DEF Goto
  <2>2. CASE Token(c)
    BY <2>1, <2>2 DEF Token, Open
  <2>3. CASE NoToken(c)
    BY <2>1, <2>3 DEF NoToken, Open
  <2>4. CASE Nacked(c)
    BY <2>1, <2>4 DEF Nacked
  <2>5. CASE Raised(c)
    BY <2>1, <2>5 DEF Raised
  <2>6. CASE PeerClosed(c)
    <3>1. /\ [conn[c] EXCEPT !.closed = TRUE] \in Connections
          /\ Mild(conn[c], [conn[c] EXCEPT !.closed = TRUE])
      BY <1>1 DEF Connections, Mild
    <3> QED
      BY <2>6, <3>1 DEF PeerClosed
  <2>7. ASSUME conn' = [conn EXCEPT ![c].timer = "off"]
        PROVE  Goal
    <3>1. /\ [conn[c] EXCEPT !.timer = "off"] \in Connections
          /\ Mild(conn[c], [conn[c] EXCEPT !.timer = "off"])
      BY <1>1 DEF Connections, Mild
    <3> QED
      BY <2>7, <3>1
  <2>8. ASSUME conn' = [conn EXCEPT ![c].timer = "closing", ![c].closed = TRUE]
        PROVE  Goal
    <3> DEFINE g == [conn[c] EXCEPT !.timer = "closing", !.closed = TRUE]
    <3>1. g \in Connections /\ Mild(conn[c], g)
      BY <1>1 DEF Connections, Mild
    <3>2. conn' = [conn EXCEPT ![c] = g]
      BY <1>1, <2>8
    <3> QED
      BY <3>1, <3>2
  <2>9. CASE Timeout(c)
    BY <2>7, <2>8, <2>9 DEF Timeout
  <2>10. CASE Terminated(c)
    BY <2>7, <2>10 DEF Terminated
  <2> QED
    BY <2>2, <2>3, <2>4, <2>5, <2>6, <2>9, <2>10
<1>3. /\ conn' \in [Conns -> Connections]
      /\ \A d \in Conns : Mild(conn[d], conn'[d])
  BY <1>2, OneMild
<1>4. UNCHANGED <<listeners, sockets, got, excused, stop>>
  BY DEF Token, NoToken, Nacked, Raised, PeerClosed, Timeout, Terminated, rest
<1>5. /\ Starts /\ place' \in 0..MaxLines + 1
      /\ send' \in [pc : {"no", "running", "done"}, at : Nat]
  <2>1. CASE Terminated(c)
    BY <1>1, <2>1, EmitIs DEF Terminated
  <2>2. CASE ~Terminated(c)
    BY <1>1, <2>2
       DEF Token, NoToken, Nacked, Raised, PeerClosed, Timeout, rest, TypeOK,
           Starts
  <2> QED
    BY <2>1, <2>2
<1> QED
  BY <1>1, <1>3, <1>4, <1>5, Quiet DEF TypeOK

\* The steps of the collector and of the shutdown that leave them alone.
LEMMA QuietCollector ==
    ASSUME IInv,
           \/ Logged \/ ThreadLogged \/ ThreadAppended
           \/ StopAll \/ StopNext \/ UNCHANGED vars
    PROVE  IInv'
<1>1. TypeOK /\ conn \in [Conns -> Connections]
  BY DEF IInv, TypeOK
<1>2. UNCHANGED <<listeners, sockets, got, excused>>
  BY DEF Logged, ThreadLogged, ThreadAppended, StopAll, StopNext, vars
<1>3. /\ Starts /\ place' \in 0..MaxLines + 1
      /\ send' \in [pc : {"no", "running", "done"}, at : Nat]
  <2>1. CASE Logged \/ StopAll
    BY <1>1, <2>1, EmitIs DEF Logged, StopAll
  <2>2. CASE ~(Logged \/ StopAll)
    BY <1>1, <2>2, LinesAssumption
       DEF ThreadLogged, ThreadAppended, StopNext, vars, Schedule, TypeOK, Starts
  <2> QED
    BY <2>1, <2>2
<1>4. stop' \in [pc : {"no", "closing", "done"}, at : Nat]
  BY <1>1 DEF Logged, ThreadLogged, ThreadAppended, StopAll, StopNext, vars, TypeOK
<1>5. \A f : Mild(f, f)
  BY DEF Mild
<1>6. /\ conn' \in [Conns -> Connections]
      /\ \A d \in Conns : Mild(conn[d], conn'[d])
  <2>1. CASE conn' = conn
    BY <1>1, <1>5, <2>1
  <2>2. CASE StopNext /\ stop.at < Len(sockets)
    <3>1. sockets[stop.at + 1] \in Conns
      BY <1>1, <2>2, LenProperties DEF TypeOK
    <3> DEFINE c == sockets[stop.at + 1]
               g == [conn[c] EXCEPT !.closed = TRUE]
    <3>2. g \in Connections /\ Mild(conn[c], g)
      BY <1>1, <3>1 DEF Connections, Mild
    <3>3. conn' = [conn EXCEPT ![c] = g]
      BY <2>2 DEF StopNext
    <3> HIDE DEF c, g
    <3> QED
      BY <3>1, <3>2, <3>3, OneMild DEF c
  <2> QED
    BY <2>1, <2>2 DEF Logged, ThreadLogged, ThreadAppended, StopAll, StopNext, vars
<1> QED
  BY <1>2, <1>3, <1>4, <1>6, Quiet

\* The loop of send() comes to the next listener.
LEMMA SendStep == ASSUME IInv, Send PROVE IInv'
<1>1. /\ TypeOK /\ Len(listeners) \in Nat /\ send.at \in Nat
      /\ \A i \in 1..Len(listeners) : listeners[i] \in Conns
  BY LenProperties DEF IInv, TypeOK
<1>2. UNCHANGED <<place, listeners, sockets, conn, stop, excused>>
  BY DEF Send
<1>3. /\ send' = [send EXCEPT !.at = @ + 1] /\ send.pc = "running"
      /\ listeners[send.at + 1] \in ToSet(listeners)
      /\ got' = got \cup {c \in {listeners[send.at + 1]} : ~conn[c].closed}
  <2>1. send.at + 1 \in 1..Len(listeners) /\ DOMAIN listeners = 1..Len(listeners)
    BY <1>1, LenProperties DEF Send, TypeOK
  <2> QED
    BY <2>1 DEF Send, ToSet
<1>4. listeners[send.at + 1] \in Members
  BY <1>3 DEF IInv, ListOK
<1>5. TypeOK'
  BY <1>1, <1>2, <1>3, <1>4 DEF TypeOK, Members
<1>6. ListOK(listeners, Members)' /\ ListOK(sockets, Present)'
  BY <1>2 DEF IInv, ListOK, Members, Present
<1>7. Received'
  BY <1>2, <1>3, <1>4 DEF IInv, Received, Members
<1>8. NothingLost'
  BY <1>1, <1>2, <1>3 DEF IInv, NothingLost, TypeOK
<1>9. Late'
  BY <1>1, <1>2, <1>3 DEF IInv, Late, TypeOK
<1> QED
  BY <1>5, <1>6, <1>7, <1>8, <1>9 DEF IInv

\* send() has come to the end of the list.
LEMMA SendDoneStep == ASSUME IInv, SendDone PROVE IInv'
<1>1. /\ TypeOK /\ Len(listeners) \in Nat /\ send.at \in Nat
      /\ send.at >= Len(listeners) /\ send.pc = "running"
  BY LenProperties DEF IInv, TypeOK, SendDone
<1>2. UNCHANGED <<place, listeners, sockets, conn, stop, got>>
  BY DEF SendDone
<1>3. /\ send' = [pc |-> "done", at |-> 0]
      /\ excused' = excused \cup {c \in Conns : conn[c].pc = "history"
                                             /\ ~conn[c].authenticated}
  BY DEF SendDone
<1>5. TypeOK'
  BY <1>1, <1>2, <1>3 DEF TypeOK
<1>6. ListOK(listeners, Members)' /\ ListOK(sockets, Present)' /\ Received'
  BY <1>2 DEF IInv, ListOK, Members, Present, Received
<1>8. NothingLost'
  BY <1>1, <1>2, <1>3 DEF IInv, NothingLost
<1>9. Late'
  BY <1>2, <1>3 DEF Late
<1> QED
  BY <1>5, <1>6, <1>8, <1>9 DEF IInv

\* The history goes to a connection that presented a token.
LEMMA HistoryStep == ASSUME IInv, NEW c \in Conns, History(c) PROVE IInv'
<1>1. TypeOK /\ conn \in [Conns -> Connections] /\ conn[c].pc = "ack"
  BY DEF IInv, TypeOK, History
<1>2. UNCHANGED <<place, send, listeners, sockets, stop>>
  BY DEF History
<1>3. /\ got \subseteq got' /\ got' \subseteq got \cup {c}
      /\ excused \subseteq excused' /\ excused' \subseteq excused \cup {c}
      /\ send.pc = "done" => c \in excused'
  BY DEF History
<1>4. /\ conn' \in [Conns -> Connections]
      /\ conn'[c].pc = "history" /\ conn'[c].authenticated = conn[c].authenticated
      /\ conn'[c].closed = conn[c].closed
      /\ \A d \in Conns : d # c => conn'[d] = conn[d]
  <2>1. [conn[c] EXCEPT !.pc = "history"] \in Connections
    BY <1>1 DEF Connections
  <2> QED
    BY <1>1, <2>1 DEF History, Goto, Connections
<1>5. TypeOK'
  BY <1>1, <1>2, <1>3, <1>4 DEF TypeOK
<1>6. Members' = Members /\ Present' = Present
  BY <1>1, <1>4 DEF Members, Present
<1>7. ListOK(listeners, Members)' /\ ListOK(sockets, Present)'
  BY <1>2, <1>6 DEF IInv, ListOK
<1>8. Received'
  BY <1>1, <1>3, <1>4 DEF IInv, Received, TypeOK
<1>9. NothingLost'
  <2>1. \A i \in 1..Len(listeners) : listeners[i] \in Conns
    BY <1>1, LenProperties DEF TypeOK
  <2> QED
    BY <1>2, <1>3, <1>4, <2>1 DEF IInv, NothingLost
<1>10. Late'
  BY <1>2, <1>3, <1>4 DEF IInv, Late
<1> QED
  BY <1>5, <1>7, <1>8, <1>9, <1>10 DEF IInv

\* A connection is opened.
LEMMA ConnectStep == ASSUME IInv, NEW c \in Conns, Connect(c) PROVE IInv'
<1>1. TypeOK /\ conn \in [Conns -> Connections] /\ conn[c].pc = "new"
  BY DEF IInv, TypeOK, Connect
<1>2. UNCHANGED <<listeners, stop, got, excused>>
  BY DEF Connect
<1>3. /\ Starts /\ place' \in 0..MaxLines + 1
      /\ send' \in [pc : {"no", "running", "done"}, at : Nat]
  BY <1>1, EmitIs DEF Connect
<1>4. /\ conn' \in [Conns -> Connections]
      /\ conn'[c].pc = "recv" /\ conn'[c].authenticated = conn[c].authenticated
      /\ conn'[c].closed = conn[c].closed
      /\ \A d \in Conns : d # c => conn'[d] = conn[d]
  <2> DEFINE g == [conn[c] EXCEPT !.pc = "recv", !.timer = "sleep"]
  <2>1. g \in Connections /\ g.pc = "recv" /\ g.closed = conn[c].closed
        /\ g.authenticated = conn[c].authenticated
    BY <1>1 DEF Connections
  <2>2. conn' = [conn EXCEPT ![c] = g]
    BY <1>1 DEF Connect
  <2> HIDE DEF g
  <2> QED
    BY <1>1, <2>1, <2>2
<1>5. Members' = Members /\ Present' = Present \cup {c} /\ c \notin Present
  BY <1>1, <1>4 DEF Members, Present
<1>6. ListOK(listeners, Members)'
  BY <1>2, <1>5 DEF IInv, ListOK
<1>7. ListOK(sockets, Present)'
  <2>1. sockets' = Append(sockets, c) /\ ListOK(sockets, Present)
    BY DEF IInv, Connect
  <2>2. ListOK(Append(sockets, c), Present \cup {c})
    BY <1>5, <2>1, Appended
  <2> QED
    BY <1>5, <2>1, <2>2 DEF ListOK
<1>8. TypeOK'
  BY <1>1, <1>2, <1>3, <1>4, <1>7 DEF TypeOK, ListOK
<1>9. Received'
  BY <1>1, <1>2, <1>4 DEF IInv, Received, TypeOK
<1>10. NothingLost'
  <2>1. \A i \in 1..Len(listeners) : listeners[i] \in Conns /\ i > 0
    BY <1>1, LenProperties DEF TypeOK
  <2> QED
    BY <1>2, <1>3, <1>4, <2>1 DEF IInv, NothingLost, Starts
<1>11. Late'
  BY <1>2, <1>3, <1>4 DEF IInv, Late, Starts
<1> QED
  BY <1>6, <1>7, <1>8, <1>9, <1>10, <1>11 DEF IInv

\* The connection joins the listeners: send() comes to it, or it is late.
LEMMA JoinStep == ASSUME IInv, NEW c \in Conns, Join(c) PROVE IInv'
<1>1. TypeOK /\ conn \in [Conns -> Connections] /\ conn[c].pc = "history"
  BY DEF IInv, TypeOK, Join
<1>2. UNCHANGED <<sockets, stop, got>>
  BY DEF Join
<1>3. /\ Starts /\ place' \in 0..MaxLines + 1
      /\ send' \in [pc : {"no", "running", "done"}, at : Nat]
  <2>1. CASE conn[c].authenticated
    BY <1>1, <2>1 DEF Join, log, Starts, TypeOK
  <2>2. CASE ~conn[c].authenticated
    BY <1>1, <2>2, EmitIs DEF Join
  <2> QED
    BY <2>1, <2>2
<1>4. /\ conn' \in [Conns -> Connections]
      /\ conn'[c].pc = "recv" /\ conn'[c].authenticated = TRUE
      /\ conn'[c].closed = conn[c].closed
      /\ \A d \in Conns : d # c => conn'[d] = conn[d]
  <2> DEFINE g == [conn[c] EXCEPT !.pc = "recv", !.authenticated = TRUE]
  <2>1. g \in Connections /\ g.pc = "recv" /\ g.authenticated = TRUE
        /\ g.closed = conn[c].closed
    BY <1>1 DEF Connections
  <2>2. conn' = [conn EXCEPT ![c] = g]
    BY <1>1 DEF Join
  <2> HIDE DEF g
  <2> QED
    BY <1>1, <2>1, <2>2
<1>5. Present' = Present /\ Members' = Members \cup {c}
  BY <1>1, <1>4 DEF Present, Members
<1>6. ListOK(sockets, Present)'
  BY <1>2, <1>5 DEF IInv, ListOK
<1>7. Received'
  BY <1>1, <1>2, <1>4 DEF IInv, Received, TypeOK
<1>8. excused \subseteq excused' /\ excused' \subseteq Conns
  BY <1>1 DEF Join, TypeOK
<1>9. Late'
  BY <1>3, <1>4, <1>8 DEF IInv, Late, Starts
<1>10. \A i \in 1..Len(listeners) : listeners[i] \in Conns /\ i > 0
  BY <1>1, LenProperties DEF TypeOK
<1>11. CASE conn[c].authenticated
  <2>1. UNCHANGED <<listeners, excused>> /\ Members' = Members
    BY <1>1, <1>5, <1>11 DEF Join, Members
  <2>2. ListOK(listeners, Members)'
    BY <2>1 DEF IInv, ListOK
  <2>3. TypeOK'
    BY <1>1, <1>2, <1>3, <1>4, <2>1 DEF TypeOK
  <2>4. NothingLost'
    BY <1>2, <1>3, <1>4, <1>10, <2>1 DEF IInv, NothingLost, Starts
  <2> QED
    BY <1>6, <1>7, <1>9, <2>2, <2>3, <2>4 DEF IInv
<1>12. CASE ~conn[c].authenticated
  <2>1. listeners' = Append(listeners, c) /\ c \notin Members
    BY <1>12 DEF Join, Members
  <2>2. /\ ListOK(listeners', Members')
        /\ Len(listeners) \in Nat /\ Len(listeners') = Len(listeners) + 1
        /\ listeners'[Len(listeners) + 1] = c
        /\ \A i \in 1..Len(listeners) : listeners'[i] = listeners[i]
    BY <1>5, <2>1, Appended DEF IInv
  <2>3. TypeOK'
    BY <1>1, <1>2, <1>3, <1>4, <1>8, <2>2 DEF TypeOK, ListOK
  <2>4. \/ send'.pc = "no" \/ c \in excused'
        \/ send'.pc = "running" /\ send'.at < Len(listeners) + 1
    <3>1. send.pc = "done" => c \in excused'
      BY <1>1, <1>8, <1>12 DEF IInv, Late
    <3>2. Len(listeners) < send.at => c \in excused'
      BY <1>12 DEF Join
    <3> QED
      BY <1>1, <1>3, <2>2, <3>1, <3>2 DEF Starts, TypeOK
  <2>5. NothingLost'
    <3> SUFFICES ASSUME NEW i \in 1..Len(listeners'), ~conn'[listeners'[i]].closed
                 PROVE  \/ send'.pc = "no"
                        \/ listeners'[i] \in got' \cup excused'
                        \/ send'.pc = "running" /\ send'.at < i
      BY DEF NothingLost
    <3>1. CASE i = Len(listeners) + 1
      BY <2>2, <2>4, <3>1
    <3>2. CASE i # Len(listeners) + 1
      <4>1. i \in 1..Len(listeners) /\ listeners'[i] = listeners[i]
        BY <2>2, <3>2
      <4> QED
        BY <1>2, <1>3, <1>4, <1>8, <1>10, <4>1 DEF IInv, NothingLost, Starts
    <3> QED
      BY <3>1, <3>2
  <2> QED
    BY <1>6, <1>7, <1>9, <2>2, <2>3, <2>5 DEF IInv
<1> QED
  BY <1>11, <1>12

\* A connection ends: the loop of send() passes over at most the listener that
\* moves into the place it has just left.
LEMMA DisconnectStep == ASSUME IInv, NEW c \in Conns, Disconnect(c) PROVE IInv'
<1>1. TypeOK /\ conn \in [Conns -> Connections] /\ conn[c].pc \in {"except", "recv"}
  BY DEF IInv, TypeOK, Disconnect
<1>2. UNCHANGED <<stop, got>>
  BY DEF Disconnect
<1>3. /\ Starts /\ place' \in 0..MaxLines + 1
      /\ send' \in [pc : {"no", "running", "done"}, at : Nat]
  BY <1>1, EmitIs DEF Disconnect
<1>4. /\ conn' \in [Conns -> Connections]
      /\ conn'[c].pc = "done" /\ conn'[c].closed
      /\ conn'[c].authenticated = conn[c].authenticated
      /\ \A d \in Conns : d # c => conn'[d] = conn[d]
  <2> DEFINE g == [conn[c] EXCEPT !.pc = "done", !.closed = TRUE]
  <2>1. g \in Connections /\ g.pc = "done" /\ g.closed = TRUE
        /\ g.authenticated = conn[c].authenticated
    BY <1>1 DEF Connections
  <2>2. conn' = [conn EXCEPT ![c] = g]
    BY <1>1 DEF Disconnect
  <2> HIDE DEF g
  <2> QED
    BY <1>1, <2>1, <2>2
<1>5. Present' = Present \ {c} /\ c \in Present /\ Members' = Members \ {c}
  BY <1>1, <1>4 DEF Present, Members
<1>6. ListOK(sockets, Present)'
  <2>1. sockets' = Left(sockets, c) /\ ListOK(sockets, Present)
    BY DEF IInv, Disconnect
  <2>2. ListOK(Left(sockets, c), Present \ {c})
    BY <1>5, <2>1, Removed
  <2> QED
    BY <1>5, <2>1, <2>2 DEF ListOK
<1>7. Received'
  BY <1>1, <1>2, <1>4 DEF IInv, Received, TypeOK
<1>8. excused \subseteq excused' /\ excused' \subseteq Conns
  BY <1>1 DEF Disconnect, TypeOK, Skipped
<1>9. Late'
  BY <1>3, <1>4, <1>8 DEF IInv, Late, Starts
<1>10. \A i \in 1..Len(listeners) : listeners[i] \in Conns /\ i > 0
  BY <1>1, LenProperties DEF TypeOK
<1>11. CASE ~conn[c].authenticated
  <2>1. UNCHANGED <<listeners, excused>> /\ Members' = Members
    BY <1>5, <1>11 DEF Disconnect, Members
  <2>2. ListOK(listeners, Members)'
    BY <2>1 DEF IInv, ListOK
  <2>3. TypeOK'
    BY <1>1, <1>2, <1>3, <1>4, <1>6, <2>1 DEF TypeOK, ListOK
  <2>4. NothingLost'
    BY <1>2, <1>3, <1>4, <1>10, <2>1 DEF IInv, NothingLost, Starts
  <2> QED
    BY <1>6, <1>7, <1>9, <2>2, <2>3, <2>4 DEF IInv
<1>12. CASE conn[c].authenticated
  <2>1. /\ listeners' = Left(listeners, c) /\ c \in Members
        /\ excused' = excused \cup Skipped(c) /\ ListOK(listeners, Members)
    BY <1>1, <1>12 DEF IInv, Disconnect, Members
  <2>2. /\ ListOK(listeners', Members')
        /\ Len(listeners) \in Nat /\ Len(listeners') = Len(listeners) - 1
    BY <1>5, <2>1, Removed
  <2>3. PICK i \in 1..Len(listeners) :
           /\ listeners[i] = c
           /\ \A j \in 1..Len(listeners) - 1 :
                 listeners'[j] = IF j < i THEN listeners[j] ELSE listeners[j + 1]
    <3>1. \E i \in 1..Len(listeners) :
             listeners[i] = c /\ Gap(listeners, listeners', i)
      BY <2>1, Removed
    <3> QED
      BY <3>1 DEF Gap
  <2>4. TypeOK'
    BY <1>1, <1>2, <1>3, <1>4, <1>6, <1>8, <2>2 DEF TypeOK, ListOK
  <2>5. ASSUME NEW j \in 1..Len(listeners) - 1, send.at = j, i <= j
        PROVE  listeners[j + 1] \in excused'
    <3>1. c \in ToSet(SubSeq(listeners, 1, j))
      <4>1. /\ Len(SubSeq(listeners, 1, j)) = j
            /\ SubSeq(listeners, 1, j) \in Seq(Conns)
            /\ SubSeq(listeners, 1, j)[i] = listeners[i]
        BY <1>1, <2>2, <2>5, SubSeqProperties DEF TypeOK
      <4>2. i \in DOMAIN SubSeq(listeners, 1, j)
        BY <2>2, <2>5, <4>1, LenProperties
      <4> QED
        BY <2>3, <4>1, <4>2 DEF ToSet
    <3>2. listeners[j + 1] \in Conns
      BY <1>10, <2>2
    <3> QED
      BY <2>1, <2>5, <3>1, <3>2 DEF Skipped
  <2>6. NothingLost'
    <3> SUFFICES ASSUME NEW j \in 1..Len(listeners) - 1, ~conn'[listeners'[j]].closed
                 PROVE  \/ send'.pc = "no"
                        \/ listeners'[j] \in got' \cup excused'
                        \/ send'.pc = "running" /\ send'.at < j
      BY <2>2 DEF NothingLost
    <3>1. CASE send' # send
      BY <1>3, <2>2, <3>1 DEF Starts
    <3>2. CASE send' = send
      <4>1. CASE j < i
        BY <1>2, <1>4, <1>8, <1>10, <2>2, <2>3, <3>2, <4>1 DEF IInv, NothingLost
      <4>2. CASE i <= j
        <5>1. listeners'[j] = listeners[j + 1] /\ j + 1 \in 1..Len(listeners)
          BY <2>2, <2>3, <4>2
        <5>2. ~conn[listeners[j + 1]].closed
          BY <1>4, <1>10, <5>1
        <5>3. \/ send.pc = "no" \/ listeners[j + 1] \in got \cup excused
              \/ send.pc = "running" /\ send.at < j + 1
          BY <5>1, <5>2 DEF IInv, NothingLost
        <5>4. CASE send.at = j
          BY <2>5, <4>2, <5>1, <5>4
        <5>5. CASE send.at # j
          BY <1>1, <1>2, <1>8, <3>2, <5>1, <5>3, <5>5 DEF TypeOK
        <5> QED
          BY <5>4, <5>5
      <4> QED
        BY <2>2, <4>1, <4>2
    <3> QED
      BY <1>3, <3>1, <3>2 DEF Starts
  <2> QED
    BY <1>6, <1>7, <1>9, <2>2, <2>4, <2>6 DEF IInv
<1> QED
  BY <1>11, <1>12

\* Every step keeps the invariant.
LEMMA StepIInv == IInv /\ [Next]_vars => IInv'
<1> SUFFICES ASSUME IInv, [Next]_vars PROVE IInv'
  OBVIOUS
<1>1. CASE Collector
  BY <1>1, QuietCollector, SendStep, SendDoneStep DEF Collector
<1>2. ASSUME NEW c \in Conns, Connection(c) PROVE IInv'
  BY <1>2, QuietConnection, ConnectStep, HistoryStep, JoinStep, DisconnectStep
     DEF Connection
<1>3. CASE StopAll \/ StopNext \/ UNCHANGED vars
  BY <1>3, QuietCollector
<1> QED
  BY <1>1, <1>2, <1>3 DEF Next

-----------------------------------------------------------------------------
(* The theorems                                                            *)

\* For any number of connections: the listeners of the collector are exactly
\* the connections that presented a token to log_websocket() and have not
\* ended, each listed once, and no peer without a token received a line.
THEOREM Live == Spec => []ListenersLive
BY InitIInv, StepIInv, IInvImplies, PTL DEF Spec

\* For any number of connections: an open listener has a line, or the loop of
\* send() still comes to it, or it joined too late or moved under the loop when
\* another listener left.
THEOREM Lossless == Spec => []NothingLost
<1>1. IInv => NothingLost
  BY DEF IInv
<1> QED
  BY <1>1, InitIInv, StepIInv, PTL DEF Spec
=============================================================================

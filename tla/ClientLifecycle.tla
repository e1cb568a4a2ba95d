--------------------------- MODULE ClientLifecycle ---------------------------
(***************************************************************************)
(* One Client object of maubot/client.py: start() with its retries,        *)
(* stop(), the sync loop, clear_cache(), update_access_details() and the   *)
(* requests of management/api/client.py that call them.                    *)
(*                                                                         *)
(* As in PluginInstance, a task is a coroutine of the event loop: at a Hot *)
(* label it runs without suspending, at the other labels it awaits the     *)
(* homeserver, the database, a plugin or a timer and any task may run.     *)
(* The fields of a PUT request are chosen where the handler reads them.    *)
(***************************************************************************)
EXTENDS Naturals, FiniteSets

CONSTANTS
    Tasks,      \* coroutines that may be in progress at the same time
    Servers,    \* homeserver URLs
    Tokens,     \* access tokens
    Crypto,     \* the client has a device id and encryption is available
    MaxTry,     \* the try after which start() gives up (8 in the code)
    MaxSwaps,   \* bound on changes of the access details
    MaxCalls,   \* bound on the calls from outside
    Overlap,    \* FALSE: a call begins only when no other one is running
    Null        \* Python's None

ASSUME BoundsAssumption ==
    MaxTry \in Nat /\ MaxSwaps \in Nat /\ MaxCalls \in Nat
ASSUME FlagsAssumption == Crypto \in BOOLEAN /\ Overlap \in BOOLEAN
ASSUME NullAssumption == Null \notin Servers \cup Tokens

VARIABLES
    col,        \* the columns, as attributes of the object
    row,        \* the row of the client table, Null once deleted
    deleted,    \* Client.delete() removed the object from the cache
    started,
    gen,        \* which MaubotMatrixClient object self.client is
    syncing,    \* the MaubotMatrixClient objects whose sync loop runs
    verified,   \* objects for which whoami named this user and device
    stalled,    \* an exception came between stop_sync() and start_sync()
    calls,      \* calls so far
    frame       \* the coroutines in progress

vars == <<col, row, deleted, started, gen, syncing, verified, stalled, calls,
          frame>>
data == <<col, row, deleted, started, gen, syncing, verified, stalled, calls>>

Clients == 1..MaxSwaps + 1

Columns == [homeserver : Servers \cup {Null}, access_token : Tokens \cup {Null},
            enabled : BOOLEAN, sync : BOOLEAN, filter_id : BOOLEAN]

Details == [homeserver : Servers \cup {Null}, access_token : Tokens \cup {Null}]

Hot   == {"begin", "startsync", "resync", "stop", "ustarted", "uflags", "drop"}
Await == {"sleep", "versions", "whoami", "filter", "profile", "crypto",
          "remote", "startplugins", "stopplugins", "cryptoclose",
          "uaccess", "ucrypto", "uprofile", "save", "rowdelete"}

NoFrame == [pc |-> "idle", ret |-> "idle", next |-> "idle", try |-> 0,
            obj |-> 0, arg |-> Null, snap |-> Null]

Frames == [pc : Hot \cup Await \cup {"idle"},
           ret : {"idle", "uflags", "drop"},
           next : {"idle", "profile", "resync"},
           try : 0..MaxTry,
           obj : 0..MaxSwaps + 1,
           arg : Details \cup {Null},
           snap : Columns \cup {Null}]

\* A start() that sleeps before its next try is no call in progress.
Quiet == \A t \in Tasks : frame[t].pc \in {"idle", "sleep"}

AllIdle == \A t \in Tasks : frame[t].pc = "idle"

-----------------------------------------------------------------------------
(* The event loop                                                          *)

Runs(t, l) ==
    /\ frame[t].pc = l
    /\ \A s \in Tasks \ {t} : frame[s].pc \notin Hot

Call(t) ==
    /\ Runs(t, "idle")
    /\ Overlap \/ (Quiet /\ ~deleted)
    /\ calls < MaxCalls
    /\ calls' = calls + 1

Begin(t, l, r) ==
    frame' = [frame EXCEPT ![t] = [NoFrame EXCEPT !.pc = l, !.ret = r]]

Goto(t, l) == frame' = [frame EXCEPT ![t].pc = l]

Finish(t) == frame' = [frame EXCEPT ![t] = NoFrame]

\* Where the coroutine goes when start() or stop() returns.
Returned(f) == IF f.ret = "idle" THEN NoFrame ELSE [NoFrame EXCEPT !.pc = f.ret]

Return(t) == frame' = [frame EXCEPT ![t] = Returned(frame[t])]

\* Client.update(): the values are read now, the UPDATE runs later; l is the
\* label after it, "idle" to return.
Save(t, c, l) ==
    /\ col' = c
    /\ frame' = [frame EXCEPT ![t].pc = "save", ![t].next = l, ![t].snap = c]

\* The NOT NULL columns that an update can leave empty.
Storable(c) == c.homeserver # Null /\ c.access_token # Null

Saved(t) ==
    /\ Runs(t, "save")
    /\ Storable(frame[t].snap)
    /\ row' = IF row = Null THEN Null ELSE frame[t].snap
    /\ frame' = [frame EXCEPT ![t] =
           IF frame[t].next = "idle" THEN Returned(frame[t])
           ELSE [frame[t] EXCEPT !.pc = frame[t].next, !.next = "idle",
                                 !.snap = Null]]
    /\ UNCHANGED <<col, deleted, started, gen, syncing, verified, stalled,
                   calls>>

\* A NOT NULL column refuses the UPDATE: the exception ends a request, and
\* start() catches it and returns.
SaveRefused(t) ==
    /\ Runs(t, "save")
    /\ ~Storable(frame[t].snap)
    /\ stalled' = (stalled \/ frame[t].next = "resync")
    /\ IF frame[t].next = "resync" THEN Finish(t) ELSE Return(t)
    /\ UNCHANGED <<col, row, deleted, started, gen, syncing, verified, calls>>

-----------------------------------------------------------------------------
(* The sync loop of the current client                                     *)

\* client.start(filter_id) replaces the loop of the same client, if any.
StartSync == syncing' = IF col.sync THEN syncing \cup {gen} ELSE syncing

StopSync == syncing \ {gen}

-----------------------------------------------------------------------------
(* start()                                                                 *)

CallStart(t) ==
    /\ Call(t)
    /\ Begin(t, "begin", "idle")
    /\ UNCHANGED <<col, row, deleted, started, gen, syncing, verified, stalled>>

\* The sleep before a retry ends.
Wake(t) ==
    /\ Runs(t, "sleep")
    /\ Overlap \/ Quiet
    /\ Goto(t, "begin")
    /\ UNCHANGED data

StartIgnored(t) ==
    /\ Runs(t, "begin")
    /\ started \/ ~col.enabled
    /\ Return(t)
    /\ UNCHANGED data

Start(t) ==
    /\ Runs(t, "begin")
    /\ ~started /\ col.enabled
    /\ Goto(t, "versions")
    /\ UNCHANGED data

\* versions() answered; whoami() goes to the client of this moment.
VersionsAnswered(t) ==
    /\ Runs(t, "versions")
    /\ frame' = [frame EXCEPT ![t].pc = "whoami", ![t].obj = gen]
    /\ UNCHANGED data

\* The right user and device: on to the filter, if there is none yet.
WhoamiOk(t) ==
    /\ Runs(t, "whoami")
    /\ verified' = verified \cup {frame[t].obj}
    /\ Goto(t, IF col.filter_id THEN "profile" ELSE "filter")
    /\ UNCHANGED <<col, row, deleted, started, gen, syncing, stalled, calls>>

\* An invalid token, another user or another device: disable for good.
WhoamiRefused(t) ==
    /\ Runs(t, "versions") \/ Runs(t, "whoami")
    /\ Save(t, [col EXCEPT !.enabled = FALSE], "idle")
    /\ UNCHANGED <<row, deleted, started, gen, syncing, verified, stalled,
                   calls>>

\* Mutant: the retry does not count.
RetryForever(t) ==
    /\ Runs(t, "versions") \/ Runs(t, "whoami")
    /\ \E s \in Tasks \ {t} :
          /\ frame[s].pc = "idle"
          /\ frame' = [frame EXCEPT
                 ![t] = Returned(frame[t]),
                 ![s] = [NoFrame EXCEPT !.pc = "sleep", !.try = frame[t].try]]
    /\ UNCHANGED data

\* Mutant: one more try than the code allows.
RetryOnceMore(t) ==
    /\ Runs(t, "versions") \/ Runs(t, "whoami")
    /\ frame[t].try <= MaxTry
    /\ \E s \in Tasks \ {t} :
          /\ frame[s].pc = "idle"
          /\ frame' = [frame EXCEPT
                 ![t] = Returned(frame[t]),
                 ![s] = [NoFrame EXCEPT !.pc = "sleep",
                                        !.try = frame[t].try + 1]]
    /\ UNCHANGED data

\* The homeserver failed: a background task sleeps and tries again, while
\* this start() returns.  (A free task is this model's bound on retries that
\* sleep at the same time.)
Retry(t) ==
    /\ Runs(t, "versions") \/ Runs(t, "whoami")
    /\ frame[t].try < MaxTry
    /\ \E s \in Tasks \ {t} :
          /\ frame[s].pc = "idle"
          /\ frame' = [frame EXCEPT
                 ![t] = Returned(frame[t]),
                 ![s] = [NoFrame EXCEPT !.pc = "sleep",
                                        !.try = frame[t].try + 1]]
    /\ UNCHANGED data

\* The homeserver failed on the last try.
GiveUp(t) ==
    /\ Runs(t, "versions") \/ Runs(t, "whoami")
    /\ frame[t].try >= MaxTry
    /\ Save(t, [col EXCEPT !.enabled = FALSE], "idle")
    /\ UNCHANGED <<row, deleted, started, gen, syncing, verified, stalled,
                   calls>>

FilterCreated(t) ==
    /\ Runs(t, "filter")
    /\ Save(t, [col EXCEPT !.filter_id = TRUE], "profile")
    /\ UNCHANGED <<row, deleted, started, gen, syncing, verified, stalled,
                   calls>>

\* set_displayname() and set_avatar_url() are done.
ProfileSet(t) ==
    /\ Runs(t, "profile")
    /\ Goto(t, IF Crypto THEN "crypto" ELSE "startsync")
    /\ UNCHANGED data

CryptoStarted(t) ==
    /\ Runs(t, "crypto")
    /\ Goto(t, "startsync")
    /\ UNCHANGED data

\* Anything past whoami that raises is caught and logged by start(): the
\* client stays enabled and stopped, and nothing is retried.
StartRaises(t) ==
    /\ Runs(t, "filter") \/ Runs(t, "profile") \/ Runs(t, "crypto")
    /\ Return(t)
    /\ UNCHANGED data

StartsSync(t) ==
    /\ Runs(t, "startsync")
    /\ StartSync
    /\ Goto(t, "remote")
    /\ UNCHANGED <<col, row, deleted, started, gen, verified, stalled, calls>>

\* _update_remote_profile() never raises.
Started(t) ==
    /\ Runs(t, "remote")
    /\ started' = TRUE
    /\ Goto(t, "startplugins")
    /\ UNCHANGED <<col, row, deleted, gen, syncing, verified, stalled, calls>>

PluginsStarted(t) ==
    /\ Runs(t, "startplugins")
    /\ Return(t)
    /\ UNCHANGED data

-----------------------------------------------------------------------------
(* stop(), clear_cache() and DELETE /client/{id}                           *)

CallStop(t) ==
    /\ Call(t)
    /\ Begin(t, "stop", "idle")
    /\ UNCHANGED <<col, row, deleted, started, gen, syncing, verified, stalled>>

Stop(t) ==
    /\ Runs(t, "stop")
    /\ IF started THEN Goto(t, "stopplugins") ELSE Return(t)
    /\ started' = FALSE
    /\ UNCHANGED <<col, row, deleted, gen, syncing, verified, stalled, calls>>

PluginsStopped(t) ==
    /\ Runs(t, "stopplugins")
    /\ syncing' = StopSync
    /\ IF Crypto THEN Goto(t, "cryptoclose") ELSE Return(t)
    /\ UNCHANGED <<col, row, deleted, started, gen, verified, stalled, calls>>

CryptoClosed(t) ==
    /\ Runs(t, "cryptoclose")
    /\ Return(t)
    /\ UNCHANGED data

\* clear_cache() stops the loop, forgets the filter and the sync token,
\* saves, and starts the loop again, whether or not the client is started.
ClearCache(t) ==
    /\ Call(t)
    /\ syncing' = StopSync
    /\ Save(t, [col EXCEPT !.filter_id = FALSE], "resync")
    /\ UNCHANGED <<row, deleted, started, gen, verified, stalled>>

Resync(t) ==
    /\ Runs(t, "resync")
    /\ StartSync
    /\ Finish(t)
    /\ UNCHANGED <<col, row, deleted, started, gen, verified, stalled, calls>>

\* A client without references is stopped if it is started, and deleted.
DeleteClient(t) ==
    /\ Call(t)
    /\ IF started THEN Begin(t, "stop", "drop") ELSE Begin(t, "drop", "idle")
    /\ UNCHANGED <<col, row, deleted, started, gen, syncing, verified, stalled>>

Drop(t) ==
    /\ Runs(t, "drop")
    /\ deleted' = TRUE
    /\ Goto(t, "rowdelete")
    /\ UNCHANGED <<col, row, started, gen, syncing, verified, stalled, calls>>

RowDeleted(t) ==
    /\ Runs(t, "rowdelete")
    /\ row' = Null
    /\ Finish(t)
    /\ UNCHANGED <<col, deleted, started, gen, syncing, verified, stalled,
                   calls>>

-----------------------------------------------------------------------------
(* PUT /client/{id}: _update_client()                                      *)

\* update_access_details(d): nothing to do, or ask the homeserver first.
UpdateClient(t) ==
    /\ Call(t)
    /\ \/ Begin(t, "uprofile", "idle")
       \/ Begin(t, "ustarted", "idle")
       \/ \E d \in Details :
             /\ d # [homeserver |-> Null, access_token |-> Null]
             /\ \/ d.homeserver # col.homeserver
                \/ d.access_token # col.access_token
             /\ frame' = [frame EXCEPT ![t] =
                    [NoFrame EXCEPT !.pc = "uaccess", !.arg = d]]
    /\ UNCHANGED <<col, row, deleted, started, gen, syncing, verified, stalled>>

\* Mutant: the loop of the old client is left running.
SwapClientRunning(t) ==
    /\ gen' = gen + 1
    /\ col' = [col EXCEPT !.homeserver = frame[t].arg.homeserver,
                          !.access_token = frame[t].arg.access_token]
    /\ IF ~Crypto /\ col.sync THEN syncing' = syncing \cup {gen'}
       ELSE UNCHANGED syncing

\* The old loop stops, the new client takes over, and its loop starts unless
\* encryption has to be started first.  Both columns are assigned, the one
\* the request did not give too.
SwapClient(t) ==
    /\ gen' = gen + 1
    /\ col' = [col EXCEPT !.homeserver = frame[t].arg.homeserver,
                          !.access_token = frame[t].arg.access_token]
    /\ syncing' = IF ~Crypto /\ col.sync THEN StopSync \cup {gen'} ELSE StopSync

\* Mutant: the new client is used before whoami() answered.
AccessUnchecked(t) ==
    /\ Runs(t, "uaccess")
    /\ gen <= MaxSwaps
    /\ SwapClient(t)
    /\ frame' = [frame EXCEPT ![t].pc = IF Crypto THEN "ucrypto" ELSE "uprofile",
                              ![t].arg = Null]
    /\ UNCHANGED <<row, deleted, started, verified, stalled, calls>>

\* whoami() of the new client names this user and device.
AccessOk(t) ==
    /\ Runs(t, "uaccess")
    /\ gen <= MaxSwaps
    /\ SwapClient(t)
    /\ verified' = verified \cup {gen'}
    /\ frame' = [frame EXCEPT ![t].pc = IF Crypto THEN "ucrypto" ELSE "uprofile",
                              ![t].arg = Null]
    /\ UNCHANGED <<row, deleted, started, stalled, calls>>

\* whoami() fails or names someone else: an error response, nothing changed.
AccessRefused(t) ==
    /\ Runs(t, "uaccess")
    /\ Finish(t)
    /\ UNCHANGED data

\* Mutant: the loop of the new client is not started.
AccessCryptoSilent(t) ==
    /\ Runs(t, "ucrypto")
    /\ Goto(t, "uprofile")
    /\ UNCHANGED data

AccessCrypto(t) ==
    /\ Runs(t, "ucrypto")
    /\ StartSync
    /\ Goto(t, "uprofile")
    /\ UNCHANGED <<col, row, deleted, started, gen, verified, stalled, calls>>

\* _start_crypto() raises out of the request: the new client does not sync
\* and nothing is saved.
AccessCryptoRaises(t) ==
    /\ Runs(t, "ucrypto")
    /\ stalled' = TRUE
    /\ Finish(t)
    /\ UNCHANGED <<col, row, deleted, started, gen, syncing, verified, calls>>

\* update_avatar_url() and update_displayname().
ProfileUpdated(t) ==
    /\ Runs(t, "uprofile")
    /\ Goto(t, "ustarted")
    /\ UNCHANGED data

ProfileRaises(t) ==
    /\ Runs(t, "uprofile")
    /\ Finish(t)
    /\ UNCHANGED data

\* update_started(b) comes before update_enabled().
UpdateStarted(t, b) ==
    /\ Runs(t, "ustarted")
    /\ Begin(t, CASE b = started -> "uflags"
                  [] b # started /\ b -> "begin"
                  [] OTHER -> "stop",
                IF b = started THEN "idle" ELSE "uflags")
    /\ UNCHANGED data

\* update_enabled(e), update_sync(s) and the one save of the request.
UpdateFlags(t, e, s) ==
    /\ Runs(t, "uflags")
    /\ syncing' = CASE s = col.sync \/ ~started -> syncing
                    [] s # col.sync /\ started /\ s -> syncing \cup {gen}
                    [] OTHER -> StopSync
    /\ Save(t, [col EXCEPT !.enabled = e, !.sync = s], "idle")
    /\ UNCHANGED <<row, deleted, started, gen, verified, stalled, calls>>

-----------------------------------------------------------------------------
\* A client that was just read from its row: postinit().
Init ==
    /\ col \in {c \in Columns : Storable(c)}
    /\ row = col
    /\ deleted = FALSE /\ started = FALSE /\ stalled = FALSE
    /\ gen = 1
    /\ syncing = {} /\ verified = {}
    /\ calls = 0
    /\ frame = [t \in Tasks |-> NoFrame]

Calls(t) ==
    \/ CallStart(t) \/ CallStop(t) \/ ClearCache(t) \/ DeleteClient(t)
    \/ UpdateClient(t)

Steps(t) ==
    \/ Saved(t) \/ SaveRefused(t)
    \/ Wake(t) \/ StartIgnored(t) \/ Start(t) \/ VersionsAnswered(t)
    \/ WhoamiOk(t) \/ WhoamiRefused(t) \/ Retry(t) \/ GiveUp(t)
    \/ FilterCreated(t) \/ ProfileSet(t) \/ CryptoStarted(t) \/ StartRaises(t)
    \/ StartsSync(t) \/ Started(t) \/ PluginsStarted(t)
    \/ Stop(t) \/ PluginsStopped(t) \/ CryptoClosed(t) \/ Resync(t)
    \/ Drop(t) \/ RowDeleted(t)
    \/ AccessOk(t) \/ AccessRefused(t) \/ AccessCrypto(t)
    \/ AccessCryptoRaises(t) \/ ProfileUpdated(t) \/ ProfileRaises(t)
    \/ \E b \in BOOLEAN : UpdateStarted(t, b)
    \/ \E e, s \in BOOLEAN : UpdateFlags(t, e, s)

Next == \E t \in Tasks : Calls(t) \/ Steps(t)

Spec == Init /\ [][Next]_vars

\* Requests to the homeserver time out, database calls return, timers fire
\* and plugin hooks return: a coroutine in progress takes its next step.
FairSpec == Spec /\ \A t \in Tasks : WF_vars(Steps(t))

-----------------------------------------------------------------------------
(* Properties                                                              *)

\* The attributes of the client have the types the code gives them, and no
\* start() is beyond the last try.
TypeOK ==
    /\ col \in Columns
    /\ row \in Columns \cup {Null}
    /\ deleted \in BOOLEAN /\ started \in BOOLEAN /\ stalled \in BOOLEAN
    /\ gen \in Clients
    /\ syncing \in SUBSET Clients /\ verified \in SUBSET Clients
    /\ calls \in 0..MaxCalls
    /\ frame \in [Tasks -> Frames]

\* However calls overlap, a started client has an identity the homeserver
\* confirmed: whoami named this user for the very client object in use, also
\* if update_access_details() swapped the client while start() was waiting.
StartedVerified == started => gen \in verified

\* At most one sync loop runs, and it is the one of the client in use.
OneSyncLoop == syncing \subseteq {gen}

\* Between calls a started client whose sync flag is on syncs, with the
\* client in use, unless an exception cut a restart of the loop short.
SyncsWhenAsked ==
    Quiet /\ started /\ ~stalled /\ col.sync => gen \in syncing

\* Every start(), with its chain of retries, comes to an end.
Settles == <>[]AllIdle
=============================================================================

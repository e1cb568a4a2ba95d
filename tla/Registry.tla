------------------------------ MODULE Registry ------------------------------
(***************************************************************************)
(* The client and instance tables, the caches in front of them, and what   *)
(* creates, finds, renames and deletes an entry: Client.get() and          *)
(* PluginInstance.get() with their locks, the requests of                  *)
(* management/api/client.py and instance.py, and the start and stop of the *)
(* whole process (__main__.py).                                            *)
(*                                                                         *)
(* Both classes are kept the same way, so one table and one cache are      *)
(* indexed by Users \cup Ids.  A row holds the user it refers to: its own  *)
(* id for a client, primary_user for an instance.  Python objects are      *)
(* numbered, because an id may come to have two of them.                   *)
(*                                                                         *)
(* Frames and Hot labels are those of PluginInstance: a task at a Hot      *)
(* label has not given up the event loop, at any other one it awaits.      *)
(***************************************************************************)
EXTENDS Naturals, Sequences, SequencesExt, FiniteSets

CONSTANTS
    Tasks,      \* requests that may be in progress at the same time
    Users,      \* Matrix user ids
    Ids,        \* instance ids
    MaxObjects, \* bound on the objects made by one process
    MaxCalls,   \* bound on the requests of one process
    Null

Keys == Users \cup Ids

\* At boot every instance row has an object, and a task that loads it.
ASSUME TasksAssumption ==
    /\ Users \cap Ids = {} /\ Null \notin Users \cup Ids
    /\ IsFiniteSet(Tasks) /\ IsFiniteSet(Ids) /\ IsFiniteSet(Users)
    /\ Cardinality(Ids) <= Cardinality(Tasks)
    /\ Cardinality(Ids) <= MaxObjects
    /\ {MaxObjects, MaxCalls} \subseteq Nat

VARIABLES
    phase,  \* of the process
    row,    \* the tables: the user a row refers to, Null for no row
    cache,  \* Client.cache and PluginInstance.cache: an object, 0 for none
    objs,   \* the Client and PluginInstance objects
    frame,  \* the requests in progress
    calls,  \* requests so far in this process
    spoiled \* keys something happened to after which the cache may be wrong

vars == <<phase, row, cache, objs, frame, calls, spoiled>>

\* An object; refs (of a client) pairs each member with the hash it was added
\* under.  dropped and old, the ids it had before, are history.
Object(k, u) ==
    [key |-> k, user |-> u, started |-> FALSE, client |-> 0, refs |-> {},
     dropped |-> FALSE, old |-> {}]

Serials == 1..MaxObjects

Objects ==
    [key : Keys, user : Users, started : BOOLEAN, client : 0..MaxObjects,
     refs : SUBSET [key : Ids, obj : Serials], dropped : BOOLEAN, old : SUBSET Keys]

Hot == {"shown", "new?", "put?", "made", "del?", "iput?", "iuser", "iload",
        "iswitch", "idel?", "rename?"}
Await == {"lock", "read", "got", "insert", "inserted", "whoami", "start", "stop",
          "delete", "iupdate", "istop", "isave", "rename", "idstop"}

NoFrame == [pc |-> "idle", key |-> Null, make |-> FALSE, ret |-> "shown",
            val |-> Null, got |-> 0, obj |-> 0, id |-> Null, user |-> Null, new |-> Null]

Frames == [pc : Hot \cup Await \cup {"idle"}, key : Keys \cup {Null}, make : BOOLEAN,
           ret : Hot, val : Users \cup {Null}, got : 0..MaxObjects,
           obj : 0..MaxObjects, id : Ids \cup {Null}, user : Users \cup {Null},
           new : Ids \cup {Null}]

Runs(t, l) ==
    /\ frame[t].pc = l
    /\ \A s \in Tasks \ {t} : frame[s].pc \notin Hot

Quiet == \A t \in Tasks : frame[t].pc = "idle"

Goto(t, f) == frame' = [frame EXCEPT ![t] = f]

Finish(t) == Goto(t, NoFrame)

Process == <<phase, calls>>

-----------------------------------------------------------------------------
(* get()                                                                   *)

\* The frame f goes on to get(k) and from there to the label ret.
Get(f, k, make, ret) ==
    [f EXCEPT !.pc = "lock", !.key = k, !.make = make, !.ret = ret]

\* Mutant: get() is not serialised.
UnlockedFree(k) == TRUE

\* async_getter_lock: nobody is inside get() for this key.
LockFree(k) ==
    \A s \in Tasks : frame[s].key = k =>
        frame[s].pc \notin {"read", "got", "insert", "inserted"}

\* get() returns the object o, 0 for None.
Return(f, o) ==
    [f EXCEPT !.pc = f.ret, !.got = o, !.key = Null, !.make = FALSE, !.val = Null, !.ret = "shown"]

\* postinit() and the return to the caller: the object is cached under its id.
Publish(t, k, u) ==
    /\ Len(objs) < MaxObjects
    /\ objs' = Append(objs, Object(k, u))
    /\ cache' = [cache EXCEPT ![k] = Len(objs) + 1]
    /\ Goto(t, Return(frame[t], Len(objs) + 1))

\* The lock is taken and the cache is looked at.
GetCached(t) ==
    /\ Runs(t, "lock")
    /\ LockFree(frame[t].key)
    /\ LET o == cache[frame[t].key] IN
       Goto(t, IF o # 0 THEN Return(frame[t], o)
               ELSE [frame[t] EXCEPT !.pc = "read"])
    /\ UNCHANGED <<Process, row, cache, objs, spoiled>>

\* The SELECT runs; its answer is on the way.
GetRead(t) ==
    /\ Runs(t, "read")
    /\ Goto(t, [frame[t] EXCEPT !.pc = "got", !.val = row[frame[t].key]])
    /\ UNCHANGED <<Process, row, cache, objs, spoiled>>

\* The answer: an object for the row, or the INSERT, or None.
GetRow(t) ==
    /\ Runs(t, "got")
    /\ LET f == frame[t] IN
       \/ /\ f.val # Null
          /\ Publish(t, f.key, f.val)
          \* The row may be gone, or going, by now.
          /\ spoiled' = IF row[f.key] = Null THEN spoiled \cup {f.key} ELSE spoiled
       \/ /\ f.val = Null
          /\ Goto(t, IF f.make THEN [f EXCEPT !.pc = "insert"]
                     ELSE Return(f, 0))
          /\ UNCHANGED <<cache, objs, spoiled>>
    /\ UNCHANGED <<Process, row>>

\* The INSERT; it raises if the key exists or the referenced client does not.
GetInsert(t) ==
    /\ Runs(t, "insert")
    /\ LET k == frame[t].key
           u == IF k \in Users THEN k ELSE frame[t].user IN
       \/ /\ row[k] = Null /\ (k \in Users \/ row[u] # Null)
          /\ row' = [row EXCEPT ![k] = u]
          /\ Goto(t, [frame[t] EXCEPT !.pc = "inserted", !.val = u])
       \/ /\ row[k] # Null \/ (k \in Ids /\ row[u] = Null)
          /\ Finish(t)
          /\ UNCHANGED row
    /\ UNCHANGED <<Process, cache, objs, spoiled>>

GetInserted(t) ==
    /\ Runs(t, "inserted")
    /\ Publish(t, frame[t].key, frame[t].val)
    /\ spoiled' = IF row[frame[t].key] = Null THEN spoiled \cup {frame[t].key} ELSE spoiled
    /\ UNCHANGED <<Process, row>>

GetSteps(t) ==
    GetCached(t) \/ GetRead(t) \/ GetRow(t) \/ GetInsert(t) \/ GetInserted(t)

-----------------------------------------------------------------------------
(* Requests begin                                                          *)

Begin(t, f) ==
    /\ phase = "up" /\ calls < MaxCalls
    /\ Runs(t, "idle")
    /\ calls' = calls + 1
    /\ Goto(t, f)
    /\ UNCHANGED <<phase, row, cache, objs, spoiled>>

\* GET, and the other requests that only look the object up.
Show(t, k) == Begin(t, Get(NoFrame, k, FALSE, "shown"))

\* POST /client/new: the user is whoever the access token belongs to.
CreateClient(t, u) == Begin(t, [NoFrame EXCEPT !.pc = "whoami", !.user = u])

\* PUT /client/{id}
PutClient(t, u) == Begin(t, Get([NoFrame EXCEPT !.user = u], u, FALSE, "put?"))

\* DELETE /client/{id}
DeleteClient(t, u) == Begin(t, Get(NoFrame, u, FALSE, "del?"))

\* PUT /instance/{id} with the primary user u and the new id n, if given.
PutInstance(t, i, u, n) ==
    Begin(t, Get([NoFrame EXCEPT !.id = i, !.user = u, !.new = n], i, FALSE, "iput?"))

\* DELETE /instance/{id}
DeleteInstance(t, i) == Begin(t, Get(NoFrame, i, FALSE, "idel?"))

Shown(t) ==
    /\ Runs(t, "shown")
    /\ Finish(t)
    /\ UNCHANGED <<Process, row, cache, objs, spoiled>>

-----------------------------------------------------------------------------
(* Clients                                                                 *)

\* whoami() answers, or fails; then get(), that of PUT with the details.
WhoAmI(t) ==
    /\ Runs(t, "whoami")
    /\ \/ Goto(t, Get(frame[t], frame[t].user, frame[t].make,
                      IF frame[t].make THEN "made" ELSE "new?"))
       \/ Finish(t)
    /\ UNCHANGED <<Process, row, cache, objs, spoiled>>

\* Does the client exist?  POST refuses one that does, PUT updates it.
CreateOrNot(t) ==
    /\ Runs(t, "new?") \/ Runs(t, "put?")
    /\ LET f == frame[t] IN
       Goto(t, IF f.got # 0 THEN NoFrame
               ELSE IF f.pc = "new?" THEN Get(f, f.user, TRUE, "made")
               ELSE [f EXCEPT !.pc = "whoami", !.make = TRUE])
    /\ UNCHANGED <<Process, row, cache, objs, spoiled>>

\* The attributes of the request are set; update() and start() are awaited, with
\* load() between them for an instance.
Made(t) ==
    /\ Runs(t, "made")
    /\ LET o == frame[t].got IN
       Goto(t, [frame[t] EXCEPT !.obj = o, !.got = 0,
                                !.pc = IF objs[o].key \in Users THEN "start" ELSE "iupdate"])
    /\ UNCHANGED <<Process, row, cache, objs, spoiled>>

\* The client or the instance came up, or it did not.
Started(t) ==
    /\ Runs(t, "start")
    /\ \E b \in BOOLEAN :
         objs' = [objs EXCEPT ![frame[t].obj].started = @ \/ b]
    /\ Goto(t, IF frame[t].new # Null THEN [frame[t] EXCEPT !.pc = "rename?"] ELSE NoFrame)
    /\ UNCHANGED <<Process, row, cache, spoiled>>

\* Mutant: delete() leaves the object in the cache.
DropKept(t, o) ==
    /\ objs' = [objs EXCEPT ![o].started = FALSE, ![o].dropped = TRUE]
    /\ Goto(t, [frame[t] EXCEPT !.pc = "delete", !.obj = o, !.got = 0])
    /\ UNCHANGED cache

\* Client.delete() up to its DELETE: only the cache entry is gone.
Drop(t, o) ==
    /\ objs' = [objs EXCEPT ![o].started = FALSE, ![o].dropped = TRUE]
    /\ cache' = [cache EXCEPT ![objs[o].key] = 0]
    /\ Goto(t, [frame[t] EXCEPT !.pc = "delete", !.obj = o, !.got = 0])

\* delete_client() refuses a client with references, and stops a started one.
DeleteOrNot(t) ==
    /\ Runs(t, "del?")
    /\ LET o == frame[t].got IN
       \/ /\ o = 0 \/ (o # 0 /\ objs[o].refs # {})
          /\ Finish(t)
          /\ UNCHANGED <<cache, objs>>
       \/ /\ o # 0 /\ objs[o].refs = {}
          /\ IF objs[o].started
             THEN /\ Goto(t, [frame[t] EXCEPT !.pc = "stop", !.obj = o])
                  /\ UNCHANGED <<cache, objs>>
             ELSE Drop(t, o)
    /\ UNCHANGED <<Process, row, spoiled>>

\* stop() returned; the references are not looked at again.
DeleteStopped(t) ==
    /\ Runs(t, "stop")
    /\ Drop(t, frame[t].obj)
    /\ UNCHANGED <<Process, row, spoiled>>

\* The DELETE, which the foreign key may refuse.  The key is spoiled if the row
\* stays, if the id has been cached again, or if another object's row went.
DeleteRow(t) ==
    /\ Runs(t, "delete")
    /\ LET k == objs[frame[t].obj].key
           used == \E i \in Ids : row[i] = k IN
       /\ row' = IF used THEN row ELSE [row EXCEPT ![k] = Null]
       /\ spoiled' = IF used \/ cache[k] \notin {0, frame[t].obj} THEN spoiled \cup {k} ELSE spoiled
    /\ Finish(t)
    /\ UNCHANGED <<Process, cache, objs>>

-----------------------------------------------------------------------------
(* Instances                                                               *)

\* The members of a Python set that equal the object o of os: the same hash and,
\* as dataclasses compare, the same columns.
Equal(os, refs, o) ==
    {m \in refs : /\ m.key = os[o].key
                  /\ m.obj = o \/ <<os[m.obj].key, os[m.obj].user>> = <<os[o].key, os[o].user>>}

\* references.add(o) and references.remove(o) on the client c, 0 for none.
Ref(os, c, o) ==
    IF c = 0 \/ Equal(os, os[c].refs, o) # {} THEN os
    ELSE [os EXCEPT ![c].refs = @ \cup {[key |-> os[o].key, obj |-> o]}]

Unref(os, c, o) ==
    IF c = 0 THEN os ELSE [os EXCEPT ![c].refs = @ \ Equal(os, @, o)]

\* remove() raises KeyError.
Lost(os, c, o) == c # 0 /\ Equal(os, os[c].refs, o) = {}

\* update_instance(): create, or update; a new primary user is looked up first.
PutOrNot(t) ==
    /\ Runs(t, "iput?")
    /\ LET f == [frame[t] EXCEPT !.obj = frame[t].got]
           o == f.got IN
       Goto(t, IF o = 0
               THEN IF f.user = Null THEN NoFrame
                    ELSE Get([f EXCEPT !.new = Null], f.user, FALSE, "iuser")
               ELSE IF f.user \notin {Null, objs[o].user}
                    THEN Get(f, f.user, FALSE, "iswitch")
                    ELSE [f EXCEPT !.pc = "rename?"])
    /\ UNCHANGED <<Process, row, cache, objs, spoiled>>

\* _create_instance(): the client exists; the type may not.
CreateInstance(t) ==
    /\ Runs(t, "iuser")
    /\ \/ frame[t].got # 0 /\ Goto(t, Get(frame[t], frame[t].id, TRUE, "made"))
       \/ Finish(t)
    /\ UNCHANGED <<Process, row, cache, objs, spoiled>>

\* What UPDATE ... WHERE id does to the tables, if the foreign key allows it.
Saved(o) ==
    IF row[objs[o].key] = Null THEN row ELSE [row EXCEPT ![objs[o].key] = objs[o].user]

Refused(o) == row[objs[o].key] # Null /\ row[objs[o].user] = Null

\* update() returned; load() asks for the client unless it has one.
SaveCreated(t) ==
    /\ Runs(t, "iupdate")
    /\ LET o == frame[t].obj IN
       \/ /\ Refused(o)
          /\ Finish(t)
          /\ UNCHANGED <<row, objs>>
       \/ /\ ~Refused(o)
          /\ row' = Saved(o)
          /\ IF objs[o].client = 0
             THEN /\ Goto(t, Get(frame[t], objs[o].user, FALSE, "iload"))
                  /\ UNCHANGED objs
             ELSE /\ objs' = Ref(objs, objs[o].client, o)
                  /\ Goto(t, [frame[t] EXCEPT !.pc = "start"])
    /\ UNCHANGED <<Process, cache, spoiled>>

\* The end of load(): both reference sets get the instance.
Load(t) ==
    /\ Runs(t, "iload")
    /\ LET o == frame[t].obj
           c == frame[t].got IN
       IF c = 0
       THEN Finish(t) /\ UNCHANGED objs
       ELSE /\ objs' = Ref([objs EXCEPT ![o].client = c], c, o)
            /\ Goto(t, IF phase = "loading" THEN NoFrame
                       ELSE [frame[t] EXCEPT !.pc = "start"])
    /\ UNCHANGED <<Process, row, cache, spoiled>>

\* update_primary_user(): the client was found, stop() is awaited.
SwitchOrNot(t) ==
    /\ Runs(t, "iswitch")
    /\ Goto(t, IF frame[t].got = 0 THEN NoFrame ELSE [frame[t] EXCEPT !.pc = "istop"])
    /\ UNCHANGED <<Process, row, cache, objs, spoiled>>

\* Mutant: the new client does not hear of the instance.
SwitchUnheard(t) ==
    /\ Runs(t, "istop")
    /\ LET o == frame[t].obj
           c == frame[t].got
           now == [objs EXCEPT ![o].started = FALSE, ![o].user = objs[c].key] IN
       /\ objs' = [Unref(now, objs[o].client, o) EXCEPT ![o].client = c]
       /\ Goto(t, [frame[t] EXCEPT !.pc = "isave"])
    /\ UNCHANGED <<Process, row, cache, spoiled>>

\* stop() returned: the instance moves from one client's references to another's.
Switch(t) ==
    /\ Runs(t, "istop")
    /\ LET o == frame[t].obj
           c == frame[t].got
           b == objs[o].client
           now == [objs EXCEPT ![o].started = FALSE, ![o].user = objs[c].key] IN
       IF Lost(now, b, o)
       THEN objs' = now /\ Finish(t)
       ELSE /\ objs' = Ref([Unref(now, b, o) EXCEPT ![o].client = c], c, o)
            /\ Goto(t, [frame[t] EXCEPT !.pc = "isave"])
    /\ UNCHANGED <<Process, row, cache, spoiled>>

\* update() of update_primary_user(), then start().
SaveSwitched(t) ==
    /\ Runs(t, "isave")
    /\ LET o == frame[t].obj IN
       \/ Refused(o) /\ Finish(t) /\ UNCHANGED row
       \/ /\ ~Refused(o)
          /\ row' = Saved(o)
          /\ Goto(t, [frame[t] EXCEPT !.pc = "start"])
    /\ UNCHANGED <<Process, cache, objs, spoiled>>

\* update_id(): nothing to do for the same id.
RenameOrNot(t) ==
    /\ Runs(t, "rename?")
    /\ Goto(t, IF frame[t].new \in {Null, objs[frame[t].obj].key} THEN NoFrame
               ELSE [frame[t] EXCEPT !.pc = "rename"])
    /\ UNCHANGED <<Process, row, cache, objs, spoiled>>

\* The UPDATE, refused if the new id has a row.  The object takes the new id;
\* the cache and the reference sets keep it under the old one.
Rename(t) ==
    /\ Runs(t, "rename")
    /\ LET o == frame[t].obj
           k == objs[o].key
           n == frame[t].new IN
       \/ row[k] # Null /\ row[n] # Null /\ UNCHANGED <<row, objs, spoiled>>
       \/ /\ row[k] = Null \/ row[n] = Null
          /\ row' = IF row[k] = Null THEN row ELSE [row EXCEPT ![k] = Null, ![n] = row[k]]
          /\ objs' = [objs EXCEPT ![o].key = n, ![o].old = @ \cup {k}]
          /\ spoiled' = spoiled \cup {k, n}
    /\ Finish(t)
    /\ UNCHANGED <<Process, cache>>

\* PluginInstance.delete() up to its DELETE; remove() may raise.
DropInstance(t, o) ==
    LET c == objs[o].client
        now == [objs EXCEPT ![o].started = FALSE] IN
    IF Lost(now, c, o)
    THEN objs' = now /\ Finish(t) /\ UNCHANGED cache
    ELSE /\ objs' = [Unref(now, c, o) EXCEPT ![o].dropped = TRUE]
         /\ cache' = [cache EXCEPT ![objs[o].key] = 0]
         /\ Goto(t, [frame[t] EXCEPT !.pc = "delete", !.obj = o, !.got = 0])

\* delete_instance(): a started instance is stopped first.
DeleteInstanceOrNot(t) ==
    /\ Runs(t, "idel?")
    /\ LET o == frame[t].got IN
       \/ /\ o = 0
          /\ Finish(t)
          /\ UNCHANGED <<cache, objs>>
       \/ /\ o # 0 /\ objs[o].started
          /\ Goto(t, [frame[t] EXCEPT !.pc = "idstop", !.obj = o])
          /\ UNCHANGED <<cache, objs>>
       \/ /\ o # 0 /\ ~objs[o].started
          /\ DropInstance(t, o)
    /\ UNCHANGED <<Process, row, spoiled>>

DeleteInstanceStopped(t) ==
    /\ Runs(t, "idstop")
    /\ DropInstance(t, frame[t].obj)
    /\ UNCHANGED <<Process, row, spoiled>>

-----------------------------------------------------------------------------
(* The process                                                             *)

Nothing == [k \in Keys |-> 0]

Rows(K) == {k \in K : row[k] # Null}

\* The objects all() makes for the rows of K that are not cached, after os.
Postinit(os, K) ==
    LET new == SetToSeq(K) IN os \o [n \in 1..Len(new) |-> Object(new[n], row[new[n]])]

CachedAs(os, c) ==
    [k \in Keys |-> IF c[k] # 0 \/ ~\E n \in DOMAIN os : os[n].key = k THEN c[k]
                    ELSE CHOOSE n \in DOMAIN os : os[n].key = k]

\* start(): the databases, then PluginInstance.all() and a load() for each
\* instance at the same time.  The loader of those outside L is missing.
Boot ==
    /\ phase = "down"
    /\ phase' = "loading"
    /\ objs' = Postinit(<<>>, Rows(Ids))
    /\ cache' = CachedAs(objs', Nothing)
    /\ \E L \in SUBSET Rows(Ids), T \in [Rows(Ids) -> Tasks] :
         /\ \A i, j \in Rows(Ids) : i # j => T[i] # T[j]
         /\ frame' = [t \in Tasks |->
                IF \E i \in L : T[i] = t
                THEN LET o == cache'[CHOOSE i \in L : T[i] = t] IN
                     Get([NoFrame EXCEPT !.obj = o], objs'[o].user, FALSE, "iload")
                ELSE NoFrame]
    /\ UNCHANGED <<row, calls, spoiled>>

\* Client.all() and start() for each; those in S come up, with the instances
\* that have them.  The second round of load() changes nothing.
BootClients ==
    /\ phase = "loading" /\ Quiet
    /\ Len(objs) + Cardinality({u \in Rows(Users) : cache[u] = 0}) <= MaxObjects
    /\ LET all == Postinit(objs, {u \in Rows(Users) : cache[u] = 0}) IN
       /\ cache' = CachedAs(all, cache)
       /\ \E S \in SUBSET {cache'[u] : u \in Rows(Users)} :
            objs' = [o \in DOMAIN all |-> [all[o] EXCEPT !.started = o \in S \/ all[o].client \in S]]
    /\ phase' = "up"
    /\ UNCHANGED <<row, frame, calls, spoiled>>

\* stop(): the clients of the cache are stopped, with their instances.
Shutdown ==
    /\ phase = "up" /\ \A t \in Tasks : frame[t].pc \notin Hot
    /\ phase' = "closing"
    /\ LET S == {cache[u] : u \in Users} \ {0} IN
       objs' = [o \in DOMAIN objs |->
                  [objs[o] EXCEPT !.started = @ /\ o \notin S /\ objs[o].client \notin S]]
    /\ UNCHANGED <<row, cache, frame, calls, spoiled>>

\* The end of stop() once the server stopped or its 5 seconds are over, or the
\* end of the process without stop().  Only the tables are left.
Exit ==
    /\ phase # "down" /\ \A t \in Tasks : frame[t].pc \notin Hot
    /\ phase' = "down"
    /\ objs' = <<>> /\ cache' = Nothing /\ calls' = 0 /\ spoiled' = {}
    /\ frame' = [t \in Tasks |-> NoFrame]
    /\ UNCHANGED row

-----------------------------------------------------------------------------
Init ==
    /\ phase = "down"
    /\ \E R \in SUBSET Users : \E u \in [Ids -> R \cup {Null}] :
         row = [k \in Keys |-> IF k \in Ids THEN u[k] ELSE IF k \in R THEN k ELSE Null]
    /\ cache = Nothing /\ objs = <<>> /\ calls = 0 /\ spoiled = {}
    /\ frame = [t \in Tasks |-> NoFrame]

Requests(t) ==
    \/ \E k \in Keys : Show(t, k)
    \/ \E u \in Users : CreateClient(t, u) \/ PutClient(t, u) \/ DeleteClient(t, u)
    \/ \E i \in Ids : DeleteInstance(t, i)
    \/ \E i \in Ids, u \in Users \cup {Null}, n \in Ids \cup {Null} : PutInstance(t, i, u, n)

Steps(t) ==
    \/ GetSteps(t) \/ Shown(t) \/ Started(t)
    \/ WhoAmI(t) \/ CreateOrNot(t) \/ Made(t)
    \/ DeleteOrNot(t) \/ DeleteStopped(t) \/ DeleteRow(t)
    \/ PutOrNot(t) \/ CreateInstance(t) \/ SaveCreated(t) \/ Load(t)
    \/ SwitchOrNot(t) \/ Switch(t) \/ SaveSwitched(t) \/ RenameOrNot(t) \/ Rename(t)
    \/ DeleteInstanceOrNot(t) \/ DeleteInstanceStopped(t)

Next ==
    \/ \E t \in Tasks : Requests(t) \/ Steps(t)
    \/ Boot \/ BootClients \/ Shutdown \/ Exit

Spec == Init /\ [][Next]_vars

-----------------------------------------------------------------------------
(* Properties                                                              *)

\* Tables, caches, objects and requests have the types the code gives them: an
\* object is only ever made from a row, so its user is never Null.
TypeOK ==
    /\ phase \in {"down", "loading", "up", "closing"}
    /\ row \in [Keys -> Users \cup {Null}]
    /\ cache \in [Keys -> 0..MaxObjects]
    /\ Len(objs) <= MaxObjects /\ \A o \in DOMAIN objs : objs[o] \in Objects
    /\ frame \in [Tasks -> Frames]
    /\ calls \in 0..MaxCalls
    /\ spoiled \subseteq Keys

\* delete() was called on an object with this id, or an object was renamed from
\* or to it.
Disturbed(k) ==
    \E o \in DOMAIN objs :
        /\ k \in {objs[o].key} \cup objs[o].old
        /\ objs[o].dropped \/ objs[o].old # {}

\* A row has one object in the process, however get(), all() and the requests
\* interleave: a second one is only made after delete() or a rename.  Otherwise
\* two clients would sync for one user, or one instance would run twice.  And
\* the client that syncs is the one in the cache, where stop() finds it, unless
\* delete() was called on it, or so late on an earlier object of the same user
\* that it took the new one out.
OneObjectPerKey ==
    /\ TypeOK
    /\ \A o, p \in DOMAIN objs :
          o < p /\ objs[o].key = objs[p].key => Disturbed(objs[o].key)
    /\ \A o \in DOMAIN objs :
          objs[o].key \in Users /\ objs[o].started =>
              cache[objs[o].key] = o \/ Disturbed(objs[o].key)

\* An instance that has a client is in that client's references, which is what
\* makes DELETE /client refuse; only a rename, or a second object for the row,
\* takes it out.
InUse ==
    \A o \in DOMAIN objs :
        objs[o].client # 0 /\ ~objs[o].dropped =>
            \/ [key |-> objs[o].key, obj |-> o] \in objs[objs[o].client].refs
            \/ \E p \in DOMAIN objs : objs[p].old # {}
            \/ \E p \in DOMAIN objs \ {o} : objs[p].key = objs[o].key

\* When no request is in progress the cache holds exactly the rows, except for
\* keys that were renamed, whose DELETE the foreign key refused, or that were
\* read again while they were being deleted.
CacheIsTables ==
    phase = "up" /\ Quiet =>
        \A k \in Keys \ spoiled : (cache[k] # 0) = (row[k] # Null)
=============================================================================

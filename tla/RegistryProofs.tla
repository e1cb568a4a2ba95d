--------------------------- MODULE RegistryProofs ---------------------------
(***************************************************************************)
(* Proofs about Registry for every set of tasks, users and instance ids    *)
(* and every bound: typing, that a row has one object in the process, that *)
(* an instance is among the references of its client, and that the cache   *)
(* and the tables agree when no request is in progress.                    *)
(***************************************************************************)
EXTENDS Registry, FunctionTheorems, FiniteSetTheorems, TLAPS

-----------------------------------------------------------------------------
(* The inductive invariant                                                 *)

\* The object o of os is a client, or an instance.
Cli(os, o) == o \in DOMAIN os /\ os[o].key \in Users
Inst(os, o) == o \in DOMAIN os /\ os[o].key \in Ids

\* The objects: an instance refers to a client, a client to objects.
ObjsOK(os) ==
    /\ os \in Seq(Objects)
    /\ Len(os) <= MaxObjects
    /\ \A o \in DOMAIN os :
         /\ os[o].client # 0 => Cli(os, os[o].client)
         /\ \A m \in os[o].refs : m.obj \in DOMAIN os

\* A cache holds objects of its own class.
CacheOK(c, os) ==
    /\ c \in [Keys -> 0..MaxObjects]
    /\ \A k \in Keys : c[k] # 0 =>
          /\ c[k] \in DOMAIN os
          /\ os[c[k]].key \in Users <=> k \in Users

\* Inside get(), with the lock and before it.
Held == {"read", "got", "insert", "inserted"}
Asks == Held \cup {"lock"}

\* What a frame carries that goes on at the label l.
Carries(f, l, os) ==
    /\ l \in {"new?", "put?", "made", "iuser", "whoami"} => f.user \in Users /\ f.new = Null
    /\ l \in {"iput?", "iuser"} => f.id \in Ids
    /\ l \in {"iload", "iswitch", "iupdate", "istop", "isave", "rename?", "rename",
              "idstop"} => Inst(os, f.obj)
    /\ l = "rename" => f.new \in Ids
    /\ l \in {"start", "delete", "stop"} => f.obj \in DOMAIN os
    /\ l = "start" => f.new = Null \/ Inst(os, f.obj)
    /\ l = "istop" => Cli(os, f.got)

\* What get() was called with, by where it returns to.
Asking(f) ==
    /\ f.key \in Keys
    /\ f.ret = "made" <=> f.make
    /\ f.ret \in {"new?", "put?", "del?", "iuser", "iload", "iswitch"} => f.key \in Users
    /\ f.ret \in {"iput?", "idel?"} => f.key \in Ids
    /\ f.pc = "insert" => f.make
    /\ f.pc = "inserted" => f.val \in Users

\* What get() returned.
Found(f, os) ==
    /\ f.pc \in {"del?", "iload", "iswitch"} => f.got = 0 \/ Cli(os, f.got)
    /\ f.pc \in {"iput?", "idel?"} => f.got = 0 \/ Inst(os, f.got)
    /\ f.pc = "made" => f.got # 0

FrameOK(f, os) ==
    /\ f \in Frames
    /\ f.got <= Len(os) /\ f.obj <= Len(os)
    /\ f.pc \in Asks => Asking(f) /\ Carries(f, f.ret, os)
    /\ f.pc \notin Asks => Carries(f, f.pc, os) /\ Found(f, os)

FramesOK(os) ==
    /\ frame \in [Tasks -> Frames]
    /\ \A t \in Tasks : FrameOK(frame[t], os)

StateOK ==
    /\ phase \in {"down", "loading", "up", "closing"}
    /\ row \in [Keys -> Users \cup {Null}]
    /\ calls \in 0..MaxCalls
    /\ spoiled \subseteq Keys

\* Types, and which objects are clients.
TInv == StateOK /\ ObjsOK(objs) /\ CacheOK(cache, objs) /\ FramesOK(objs)

\* start() only loads: nothing is deleted, renamed or inserted.
LoadInv ==
    phase = "loading" =>
        /\ \A o \in DOMAIN objs : ~objs[o].dropped /\ objs[o].old = {}
        /\ \A t \in Tasks :
              /\ frame[t].pc \in {"idle", "lock", "read", "got", "iload"}
              /\ frame[t].pc \in Asks => frame[t].ret = "iload"

\* One coroutine at a time is inside get() for a key, and the key is not cached.
LockInv ==
    \A t \in Tasks : frame[t].pc \in Held =>
        /\ cache[frame[t].key] = 0
        /\ \A s \in Tasks \ {t} : frame[s].pc \in Held => frame[s].key # frame[t].key

\* An object with this id was deleted, or renamed from or to it.
Marked(os, k) ==
    \E o \in DOMAIN os : /\ k \in {os[o].key} \cup os[o].old
                         /\ os[o].dropped \/ os[o].old # {}

\* The objects of an id that was neither deleted nor renamed are in the cache,
\* so there is at most one.
OwnInv ==
    \A o \in DOMAIN objs : Marked(objs, objs[o].key) \/ cache[objs[o].key] = o

\* A coroutine before its DELETE of k, and one after its INSERT.
Dropping(t, k) == frame[t].pc = "delete" /\ objs[frame[t].obj].key = k
Inserted(t, k) == frame[t].pc = "inserted" /\ frame[t].key = k

\* An object that waits for its DELETE is not cached.
DropInv ==
    \A t \in Tasks : frame[t].pc = "delete" =>
        \/ objs[frame[t].obj].key \in spoiled
        \/ cache[objs[frame[t].obj].key] # frame[t].obj

\* What is cached has a row.
CachedInv == \A k \in Keys \ spoiled : cache[k] # 0 => row[k] # Null

\* What has a row is cached, or it is being deleted or was just inserted.
\* Clients are only read once the instances are loaded.
Known(k) == phase \in {"up", "closing"} \/ (phase = "loading" /\ k \in Ids)

RowInv ==
    \A k \in Keys \ spoiled :
        row[k] # Null /\ Known(k) =>
            cache[k] # 0 \/ \E t \in Tasks : Dropping(t, k) \/ Inserted(t, k)

IInv == TInv /\ LoadInv /\ LockInv /\ OwnInv /\ DropInv /\ CachedInv /\ RowInv /\ InUse

\* The three properties follow.
LEMMA IInvImplies == IInv => OneObjectPerKey /\ InUse /\ CacheIsTables
<1> SUFFICES ASSUME IInv PROVE OneObjectPerKey /\ InUse /\ CacheIsTables
  OBVIOUS
<1>1. TypeOK
  <2>1. DOMAIN objs = 1..Len(objs) /\ \A o \in DOMAIN objs : objs[o] \in Objects
    BY DEF IInv, TInv, ObjsOK
  <2> QED
    BY <2>1 DEF IInv, TInv, StateOK, ObjsOK, CacheOK, FramesOK, TypeOK
<1>2. DOMAIN objs \subseteq Nat
  BY DEF IInv, TInv, ObjsOK
<1>3. OneObjectPerKey
  BY <1>1, <1>2 DEF IInv, OwnInv, OneObjectPerKey, Marked, Disturbed
<1>4. ASSUME phase = "up", Quiet, NEW k \in Keys \ spoiled
      PROVE  (cache[k] # 0) = (row[k] # Null)
  <2>1. ~\E t \in Tasks : Dropping(t, k) \/ Inserted(t, k)
    BY <1>4 DEF Quiet, Dropping, Inserted
  <2>2. cache[k] # 0 <=> row[k] # Null
    BY <1>4, <2>1 DEF IInv, CachedInv, RowInv, Known
  <2> QED
    BY <2>2
<1> QED
  BY <1>3, <1>4 DEF IInv, CacheIsTables

-----------------------------------------------------------------------------
(* Objects                                                                 *)

\* The objects of os are still there, and clients are still clients.
Older(os, ns) ==
    /\ Len(os) <= Len(ns)
    /\ \A o \in DOMAIN os : ns[o].key \in Users <=> os[o].key \in Users

\* The same objects with the same ids.
Keeps(os, ns) ==
    /\ ns \in Seq(Objects) /\ Len(ns) = Len(os)
    /\ \A o \in DOMAIN os : ns[o].key = os[o].key /\ ns[o].old = os[o].old

\* ... and nothing was deleted.
Steady(os, ns) ==
    /\ Keeps(os, ns)
    /\ \A o \in DOMAIN os : ns[o].dropped = os[o].dropped

\* The clients and the references are the same.
SameRefs(os, ns) ==
    \A o \in DOMAIN os : ns[o].client = os[o].client /\ ns[o].refs = os[o].refs

\* Objects are numbered from 1.
LEMMA Numbered ==
    ASSUME NEW os \in Seq(Objects)
    PROVE  /\ Len(os) \in Nat /\ DOMAIN os = 1..Len(os)
           /\ \A o \in DOMAIN os : o \in Nat /\ o # 0 /\ os[o] \in Objects
OBVIOUS

\* The fields of an object have their types.
LEMMA ObjectTyped ==
    ASSUME NEW r \in Objects
    PROVE  /\ r.key \in Keys /\ r.user \in Users /\ r.started \in BOOLEAN
           /\ r.client \in 0..MaxObjects /\ r.dropped \in BOOLEAN
           /\ r.refs \subseteq [key : Ids, obj : Serials] /\ r.old \subseteq Keys
BY DEF Objects

\* The bounds are numbers.
LEMMA Bounds == MaxObjects \in Nat /\ MaxCalls \in Nat
BY TasksAssumption

\* The number of an object is a serial.
LEMMA Serial ==
    ASSUME NEW os, ObjsOK(os)
    PROVE  DOMAIN os \subseteq Serials
<1>1. os \in Seq(Objects) /\ Len(os) \in Nat /\ Len(os) <= MaxObjects /\ MaxObjects \in Nat
  BY TasksAssumption DEF ObjsOK
<1> QED
  BY <1>1 DEF Serials

\* One object is replaced.
LEMMA Replace ==
    ASSUME NEW os \in Seq(Objects), NEW o \in DOMAIN os, NEW r \in Objects
    PROVE  LET ns == [os EXCEPT ![o] = r] IN
           /\ ns \in Seq(Objects) /\ Len(ns) = Len(os) /\ DOMAIN ns = DOMAIN os
           /\ ns[o] = r
           /\ \A p \in DOMAIN os : p # o => ns[p] = os[p]
OBVIOUS

\* Users and Ids are apart.
LEMMA Apart ==
    ASSUME NEW k \in Keys
    PROVE  k \in Users <=> k \notin Ids
BY TasksAssumption DEF Keys

\* Keeping the ids keeps the classes.
LEMMA KeepsOlder ==
    ASSUME NEW os, NEW ns, ObjsOK(os), Keeps(os, ns)
    PROVE  Older(os, ns) /\ DOMAIN ns = DOMAIN os
BY DEF ObjsOK, Keeps, Older

\* Clients stay clients and instances stay instances.
LEMMA OlderKinds ==
    ASSUME NEW os, NEW ns, ObjsOK(os), ns \in Seq(Objects), Older(os, ns), NEW o
    PROVE  /\ Cli(os, o) => Cli(ns, o)
           /\ Inst(os, o) => Inst(ns, o)
           /\ o \in DOMAIN os => o \in DOMAIN ns
<1>1. o \in DOMAIN os => o \in DOMAIN ns
  BY DEF ObjsOK, Older
<1>2. o \in DOMAIN ns => ns[o].key \in Keys
  BY Numbered, ObjectTyped
<1>3. o \in DOMAIN os => os[o].key \in Keys
  BY Numbered, ObjectTyped DEF ObjsOK
<1> QED
  BY <1>1, <1>2, <1>3, Apart DEF Cli, Inst, Older

\* References and clients survive when they are the same.
LEMMA KeepsObjs ==
    ASSUME NEW os, NEW ns, ObjsOK(os), Keeps(os, ns), SameRefs(os, ns)
    PROVE  ObjsOK(ns)
<1>1. Older(os, ns) /\ DOMAIN ns = DOMAIN os
  BY KeepsOlder
<1>2. ASSUME NEW o \in DOMAIN os, os[o].client # 0 PROVE Cli(ns, os[o].client)
  BY <1>1, <1>2, OlderKinds DEF ObjsOK, Keeps
<1> QED
  BY <1>1, <1>2 DEF ObjsOK, Keeps, SameRefs

\* Clients and references may be changed to others.
LEMMA ChangedObjs ==
    ASSUME NEW os, NEW ns, ObjsOK(os), Keeps(os, ns),
           \A p \in DOMAIN os : /\ ns[p].client # 0 => Cli(os, ns[p].client)
                                /\ \A m \in ns[p].refs : m.obj \in DOMAIN os
    PROVE  ObjsOK(ns)
<1>1. Older(os, ns) /\ DOMAIN ns = DOMAIN os
  BY KeepsOlder
<1>2. ASSUME NEW p \in DOMAIN os, ns[p].client # 0 PROVE Cli(ns, ns[p].client)
  BY <1>1, <1>2, OlderKinds DEF Keeps
<1> QED
  BY <1>1, <1>2 DEF ObjsOK, Keeps

\* Steps follow each other.
LEMMA SteadyTransitive ==
    ASSUME NEW os, NEW ms, NEW ns, ObjsOK(os), Steady(os, ms), Steady(ms, ns)
    PROVE  Steady(os, ns)
BY DEF ObjsOK, Steady, Keeps

\* Another object has the same id.
Twin(os, o) == \E p \in DOMAIN os \ {o} : os[p].key = os[o].key

\* The object o is among the references of c, up to an object with the same id.
Holds(os, c, o) == [key |-> os[o].key, obj |-> o] \in os[c].refs \/ Twin(os, o)

\* references.add(): the set grows by the instance, or has an equal one.
LEMMA RefIs ==
    ASSUME NEW os, ObjsOK(os), NEW o, Inst(os, o), NEW c, c = 0 \/ Cli(os, c)
    PROVE  LET ns == Ref(os, c, o) IN
           /\ Steady(os, ns)
           /\ \A p \in DOMAIN os :
                 /\ ns[p].client = os[p].client
                 /\ os[p].refs \subseteq ns[p].refs
                 /\ \A m \in ns[p].refs : m \in os[p].refs \/ m.obj = o
           /\ c # 0 => Holds(ns, c, o)
<1> DEFINE ns == Ref(os, c, o)
<1>0. os \in Seq(Objects) /\ o \in DOMAIN os /\ os[o].key \in Ids
  BY DEF ObjsOK, Inst
<1>1. CASE c = 0 \/ Equal(os, os[c].refs, o) # {}
  <2>1. ns = os
    BY <1>1 DEF Ref
  <2>2. ASSUME c # 0 PROVE Holds(os, c, o)
    <3>1. PICK m \in Equal(os, os[c].refs, o) : TRUE
      BY <1>1, <2>2
    <3>2. /\ m \in os[c].refs /\ m.key = os[o].key
          /\ m.obj = o \/ os[m.obj].key = os[o].key
      BY <3>1 DEF Equal
    <3>3. c \in DOMAIN os
      BY <2>2 DEF Cli
    <3>4. m.obj \in DOMAIN os /\ m \in [key : Ids, obj : Serials]
      BY <3>2, <3>3, <1>0, Numbered, ObjectTyped DEF ObjsOK
    <3>5. CASE m.obj = o
      BY <3>2, <3>4, <3>5 DEF Holds
    <3>6. CASE m.obj # o
      BY <3>2, <3>4, <3>6 DEF Holds, Twin
    <3> QED
      BY <3>5, <3>6
  <2> QED
    BY <2>1, <2>2, <1>0 DEF Steady, Keeps
<1>2. CASE c # 0 /\ Equal(os, os[c].refs, o) = {}
  <2> DEFINE x == [key |-> os[o].key, obj |-> o]
             r == [os[c] EXCEPT !.refs = @ \cup {x}]
  <2>1. c \in DOMAIN os /\ os[c] \in Objects
    BY <1>2, <1>0 DEF Cli
  <2>2. x \in [key : Ids, obj : Serials]
    BY <1>0, Serial
  <2>3. /\ r \in Objects /\ r.refs = os[c].refs \cup {x}
        /\ r.key = os[c].key /\ r.old = os[c].old /\ r.dropped = os[c].dropped
        /\ r.client = os[c].client
    BY <2>1, <2>2 DEF Objects
  <2>4. ns = [os EXCEPT ![c] = r]
    BY <1>2, <1>0, <2>1 DEF Ref
  <2> HIDE DEF ns, r
  <2>5. /\ ns \in Seq(Objects) /\ Len(ns) = Len(os) /\ DOMAIN ns = DOMAIN os
        /\ ns[c] = r
        /\ \A p \in DOMAIN os : p # c => ns[p] = os[p]
    BY <1>0, <2>1, <2>3, <2>4, Replace
  <2>6. Steady(os, ns)
    BY <2>3, <2>5 DEF Steady, Keeps
  <2>7. x.obj = o
    OBVIOUS
  <2>8. [key |-> ns[o].key, obj |-> o] = x
    BY <1>0, <2>6 DEF Steady, Keeps
  <2> HIDE DEF x
  <2>9. Holds(ns, c, o)
    BY <2>3, <2>5, <2>8 DEF Holds
  <2>10. \A p \in DOMAIN os :
                 /\ ns[p].client = os[p].client
                 /\ os[p].refs \subseteq ns[p].refs
                 /\ \A m \in ns[p].refs : m \in os[p].refs \/ m.obj = o
    BY <2>3, <2>5, <2>7
  <2> QED
    BY <2>6, <2>9, <2>10 DEF ns
<1> QED
  BY <1>1, <1>2

\* references.remove(): what goes was added under the id of the instance.
LEMMA UnrefIs ==
    ASSUME NEW os, ObjsOK(os), NEW o, NEW c, c = 0 \/ Cli(os, c)
    PROVE  LET ns == Unref(os, c, o) IN
           /\ Steady(os, ns)
           /\ \A p \in DOMAIN os :
                 /\ ns[p].client = os[p].client
                 /\ ns[p].refs \subseteq os[p].refs
                 /\ \A m \in os[p].refs : m \in ns[p].refs \/ m.key = os[o].key
<1> DEFINE ns == Unref(os, c, o)
<1>0. os \in Seq(Objects)
  BY DEF ObjsOK
<1>1. CASE c = 0
  BY <1>0, <1>1 DEF Unref, Steady, Keeps
<1>2. CASE c # 0
  <2> DEFINE E == Equal(os, os[c].refs, o)
             r == [os[c] EXCEPT !.refs = @ \ E]
  <2>1. c \in DOMAIN os /\ os[c] \in Objects
    BY <1>2, <1>0 DEF Cli
  <2>2. \A m \in E : m.key = os[o].key
    BY DEF Equal
  <2>3. /\ r \in Objects /\ r.refs = os[c].refs \ E
        /\ r.key = os[c].key /\ r.old = os[c].old /\ r.dropped = os[c].dropped
        /\ r.client = os[c].client
    <3> HIDE DEF E
    <3> QED
      BY <2>1 DEF Objects
  <2>4. ns = [os EXCEPT ![c] = r]
    BY <1>2, <1>0, <2>1 DEF Unref
  <2> HIDE DEF ns, r, E
  <2>5. /\ ns \in Seq(Objects) /\ Len(ns) = Len(os) /\ DOMAIN ns = DOMAIN os
        /\ ns[c] = r
        /\ \A p \in DOMAIN os : p # c => ns[p] = os[p]
    BY <1>0, <2>1, <2>3, <2>4, Replace
  <2>6. Steady(os, ns)
    BY <2>3, <2>5 DEF Steady, Keeps
  <2>7. \A p \in DOMAIN os :
                 /\ ns[p].client = os[p].client
                 /\ ns[p].refs \subseteq os[p].refs
                 /\ \A m \in os[p].refs : m \in ns[p].refs \/ m.key = os[o].key
    BY <2>2, <2>3, <2>5
  <2> QED
    BY <2>6, <2>7 DEF ns
<1> QED
  BY <1>1, <1>2

-----------------------------------------------------------------------------
(* Frames                                                                  *)

\* The fields of a frame have their types.
LEMMA FrameTyped ==
    ASSUME NEW f \in Frames
    PROVE  /\ f.pc \in Hot \cup Await \cup {"idle"} /\ f.key \in Keys \cup {Null}
           /\ f.make \in BOOLEAN /\ f.ret \in Hot /\ f.val \in Users \cup {Null}
           /\ f.got \in 0..MaxObjects /\ f.obj \in 0..MaxObjects
           /\ f.id \in Ids \cup {Null} /\ f.user \in Users \cup {Null}
           /\ f.new \in Ids \cup {Null}
BY DEF Frames

\* The frame of an idle task is good.
LEMMA NoFrameOK ==
    ASSUME NEW os, os \in Seq(Objects)
    PROVE  FrameOK(NoFrame, os)
<1>1. NoFrame \in Frames
  BY TasksAssumption DEF NoFrame, Frames, Hot
<1>2. NoFrame.got <= Len(os) /\ NoFrame.obj <= Len(os)
  BY DEF NoFrame
<1> QED
  BY <1>1, <1>2 DEF FrameOK, NoFrame, Asks, Held, Carries, Found

\* What a frame carries stays true of older objects.
LEMMA CarriesKept ==
    ASSUME NEW os, NEW ns, ObjsOK(os), ns \in Seq(Objects), Older(os, ns),
           NEW f, NEW l, Carries(f, l, os)
    PROVE  Carries(f, l, ns)
BY OlderKinds DEF Carries

\* A good frame stays good.
LEMMA FrameKept ==
    ASSUME NEW os, NEW ns, ObjsOK(os), ns \in Seq(Objects), Older(os, ns),
           NEW f, FrameOK(f, os)
    PROVE  FrameOK(f, ns)
<1>1. Found(f, os) => Found(f, ns)
  BY OlderKinds DEF Found
<1>2. f \in Frames /\ f.got \in Nat /\ f.obj \in Nat
  BY FrameTyped, TasksAssumption DEF FrameOK
<1>3. f.got <= Len(ns) /\ f.obj <= Len(ns)
  <2>1. Len(os) \in Nat /\ Len(ns) \in Nat /\ Len(os) <= Len(ns)
    BY DEF ObjsOK, Older
  <2> QED
    BY <1>2, <2>1 DEF FrameOK
<1> QED
  BY <1>1, <1>2, <1>3, CarriesKept DEF FrameOK

\* A cache stays good.
LEMMA CacheKept ==
    ASSUME NEW os, NEW ns, ObjsOK(os), ns \in Seq(Objects), Older(os, ns),
           NEW c, CacheOK(c, os)
    PROVE  CacheOK(c, ns)
<1>1. \A o \in DOMAIN os : o \in DOMAIN ns
  BY OlderKinds
<1> QED
  BY <1>1 DEF CacheOK, Older

\* A coroutine goes on with a good frame.
LEMMA Went ==
    ASSUME TInv, StateOK', ObjsOK(objs'), Older(objs, objs'), CacheOK(cache', objs'),
           NEW t \in Tasks, NEW f, FrameOK(f, objs'), Goto(t, f)
    PROVE  TInv'
<1>1. /\ frame' \in [Tasks -> Frames]
      /\ \A s \in Tasks : frame'[s] = IF s = t THEN f ELSE frame[s]
  BY DEF TInv, FramesOK, Goto, FrameOK
<1>2. \A s \in Tasks : FrameOK(frame[s], objs')
  BY FrameKept DEF TInv, FramesOK, ObjsOK
<1>3. \A s \in Tasks : FrameOK(frame'[s], objs')
  BY <1>1, <1>2, Zenon
<1> QED
  BY <1>1, <1>3 DEF TInv, FramesOK

\* The frame that calls get().
LEMMA GetTyped ==
    ASSUME NEW f \in Frames, NEW k \in Keys, NEW make \in BOOLEAN, NEW ret \in Hot
    PROVE  LET g == Get(f, k, make, ret) IN
           /\ g \in Frames /\ g.pc = "lock" /\ g.key = k /\ g.make = make /\ g.ret = ret
           /\ g.got = f.got /\ g.obj = f.obj /\ g.id = f.id /\ g.user = f.user
           /\ g.new = f.new
<1> DEFINE g == Get(f, k, make, ret)
<1>1. g.pc = "lock" /\ g.key = k /\ g.ret = ret
  BY DEF Get, Frames
<1>2. g.make = make
  BY Zenon DEF Get, Frames
<1>3. /\ g.got = f.got /\ g.obj = f.obj /\ g.id = f.id /\ g.user = f.user
      /\ g.new = f.new
  BY DEF Get, Frames
<1>4. g \in Frames
  <2>1. CASE make = TRUE
    BY <2>1, ZenonT(60) DEF Get, Frames, Await
  <2>2. CASE make = FALSE
    BY <2>2, ZenonT(60) DEF Get, Frames, Await
  <2> QED
    BY <2>1, <2>2
<1> HIDE DEF g
<1>5. /\ g \in Frames /\ g.pc = "lock" /\ g.key = k /\ g.make = make /\ g.ret = ret
      /\ g.got = f.got /\ g.obj = f.obj /\ g.id = f.id /\ g.user = f.user
      /\ g.new = f.new
  BY <1>1, <1>2, <1>3, <1>4
<1> QED
  BY <1>5 DEF g

\* get() is called.
LEMMA GetOK ==
    ASSUME NEW os, NEW f \in Frames, f.got <= Len(os), f.obj <= Len(os),
           NEW k \in Keys, NEW make \in BOOLEAN, NEW ret \in Hot,
           ret = "made" <=> make,
           ret \in {"new?", "put?", "del?", "iuser", "iload", "iswitch"} => k \in Users,
           ret \in {"iput?", "idel?"} => k \in Ids,
           Carries(f, ret, os)
    PROVE  FrameOK(Get(f, k, make, ret), os)
<1> DEFINE g == Get(f, k, make, ret)
<1>1. /\ g \in Frames /\ g.pc = "lock" /\ g.key = k /\ g.make = make /\ g.ret = ret
      /\ g.got = f.got /\ g.obj = f.obj /\ g.id = f.id /\ g.user = f.user /\ g.new = f.new
  BY GetTyped
<1> HIDE DEF g
<1>2. Asking(g)
  BY <1>1 DEF Asking
<1>3. Carries(g, g.ret, os)
  BY <1>1 DEF Carries
<1> QED
  BY <1>1, <1>2, <1>3 DEF FrameOK, Asks, g

\* get() returns.
LEMMA ReturnOK ==
    ASSUME NEW os, ObjsOK(os), NEW f, FrameOK(f, os), f.pc \in Asks,
           NEW o, o = 0 \/ o \in DOMAIN os,
           o # 0 => (os[o].key \in Users <=> f.key \in Users),
           f.make => o # 0
    PROVE  FrameOK(Return(f, o), os)
<1> DEFINE g == Return(f, o)
<1>0. f \in Frames /\ Asking(f) /\ Carries(f, f.ret, os)
  BY DEF FrameOK
<1>1. o \in 0..MaxObjects /\ o <= Len(os)
  <2>1. Len(os) \in Nat /\ DOMAIN os = 1..Len(os) /\ Len(os) <= MaxObjects /\ MaxObjects \in Nat
    BY TasksAssumption DEF ObjsOK
  <2> QED
    BY <2>1
<1>2. f.ret \in Hot /\ f.ret \notin Asks
  BY <1>0, FrameTyped DEF Hot, Asks, Held
<1>3. /\ g \in Frames /\ g.pc = f.ret /\ g.got = o
      /\ g.obj = f.obj /\ g.id = f.id /\ g.user = f.user /\ g.new = f.new
  <2>1. g \in Frames
    BY <1>0, <1>1 DEF Return, Frames, Hot
  <2>2. g.pc = f.ret /\ g.got = o
    BY <1>0 DEF Return, Frames
  <2>3. g.obj = f.obj /\ g.id = f.id /\ g.user = f.user /\ g.new = f.new
    BY <1>0 DEF Return, Frames
  <2> QED
    BY <2>1, <2>2, <2>3
<1>4. o # 0 => os[o].key \in Keys
  BY Numbered, ObjectTyped DEF ObjsOK
<1> HIDE DEF g
<1>5. Found(g, os)
  <2>1. f.key \in Keys /\ (o # 0 => (f.key \in Users => Cli(os, o)) /\ (f.key \in Ids => Inst(os, o)))
    BY <1>0, <1>4, Apart DEF Asking, Cli, Inst
  <2> QED
    BY <1>0, <1>3, <2>1 DEF Found, Asking
<1>6. Carries(g, g.pc, os)
  BY <1>0, <1>2, <1>3 DEF Carries, Hot
<1>7. g.obj <= Len(os)
  BY <1>3 DEF FrameOK
<1> QED
  BY <1>1, <1>2, <1>3, <1>5, <1>6, <1>7 DEF FrameOK, g

\* The frame of a task and the objects in its reach.
LEMMA Framed ==
    ASSUME TInv, NEW t \in Tasks
    PROVE  /\ FrameOK(frame[t], objs) /\ frame[t] \in Frames
           /\ frame[t].got = 0 \/ frame[t].got \in DOMAIN objs
           /\ frame[t].obj = 0 \/ frame[t].obj \in DOMAIN objs
<1>1. FrameOK(frame[t], objs) /\ frame[t] \in Frames
  BY DEF TInv, FramesOK, FrameOK
<1>2. frame[t].got \in Nat /\ frame[t].obj \in Nat
  BY <1>1, FrameTyped, TasksAssumption
<1> QED
  BY <1>1, <1>2, Numbered DEF FrameOK, TInv, ObjsOK

-----------------------------------------------------------------------------
(* Steps that neither make nor drop an object nor write a row             *)

\* The labels of start().
Starting == {"idle", "lock", "read", "got", "iload"}

\* Such a step of t, which goes on with the frame f.
Calm(t, f) ==
    /\ Goto(t, f) /\ FrameOK(f, objs')
    /\ ObjsOK(objs') /\ Steady(objs, objs')
    /\ UNCHANGED <<phase, cache, spoiled>> /\ StateOK'
    /\ \A k \in Keys : row'[k] = Null <=> row[k] = Null
    /\ frame[t].pc \notin {"inserted", "delete"}
    /\ f.pc \notin {"inserted", "delete"}
    /\ f.pc \in Held =>
         \/ frame[t].pc \in Held /\ f.key = frame[t].key
         \/ LockFree(f.key) /\ cache[f.key] = 0
    /\ phase = "loading" => f.pc \in Starting /\ (f.pc \in Asks => f.ret = "iload")

\* The objects, the tables and the caches are left alone.
Only(t, f) ==
    /\ Goto(t, f) /\ FrameOK(f, objs)
    /\ UNCHANGED <<Process, row, cache, objs, spoiled>>

\* Nothing changes.
LEMMA SteadySame ==
    ASSUME ObjsOK(objs), UNCHANGED objs
    PROVE  Steady(objs, objs') /\ ObjsOK(objs') /\ SameRefs(objs, objs')
BY DEF ObjsOK, Steady, Keeps, SameRefs, Cli

\* Only the frame changes.
LEMMA OnlyCalm ==
    ASSUME TInv, NEW t \in Tasks, NEW f, Only(t, f),
           frame[t].pc \notin {"inserted", "delete"}, f.pc \notin {"inserted", "delete"},
           f.pc \in Held =>
             \/ frame[t].pc \in Held /\ f.key = frame[t].key
             \/ LockFree(f.key) /\ cache[f.key] = 0,
           phase = "loading" => f.pc \in Starting /\ (f.pc \in Asks => f.ret = "iload")
    PROVE  Calm(t, f)
<1>1. StateOK'
  BY DEF TInv, StateOK, Only, Process
<1>2. FrameOK(f, objs')
  BY DEF Only
<1> QED
  BY <1>1, <1>2, SteadySame DEF Calm, Only, TInv, Process

\* The steps that are not those of start().
LEMMA OnlyLater ==
    ASSUME TInv, LoadInv, NEW t \in Tasks, NEW f, Only(t, f),
           frame[t].pc \notin Starting, frame[t].pc \notin {"inserted", "delete"},
           f.pc \notin Held, f.pc # "delete"
    PROVE  Calm(t, f)
<1>1. phase # "loading"
  BY DEF LoadInv, Starting
<1>2. f.pc # "inserted"
  BY DEF Held
<1> QED
  BY <1>1, <1>2, OnlyCalm

\* The request is answered.
LEMMA FinishOnly ==
    ASSUME TInv, NEW t \in Tasks, Finish(t),
           UNCHANGED <<Process, row, cache, objs, spoiled>>
    PROVE  Only(t, NoFrame) /\ NoFrame.pc = "idle"
BY NoFrameOK DEF Finish, Only, TInv, ObjsOK, NoFrame

\* get() finds the object in the cache, or the lock is taken.
LEMMA GetCachedCalm ==
    ASSUME TInv, LoadInv, NEW t \in Tasks, GetCached(t)
    PROVE  \E f : Calm(t, f)
<1> DEFINE g == frame[t]
           o == cache[g.key]
<1>1. /\ FrameOK(g, objs) /\ g \in Frames /\ g.pc = "lock" /\ Asking(g)
      /\ Carries(g, g.ret, objs)
  BY Framed DEF GetCached, Runs, FrameOK, Asks
<1>2. g.key \in Keys /\ (o # 0 => o \in DOMAIN objs /\ (objs[o].key \in Users <=> g.key \in Users))
  BY <1>1 DEF Asking, TInv, CacheOK
<1>3. phase = "loading" => g.ret = "iload"
  BY <1>1 DEF LoadInv, Asks
<1>4. CASE o # 0
  <2>1. FrameOK(Return(g, o), objs)
    BY <1>1, <1>2, <1>4, ReturnOK DEF TInv, Asks
  <2>2. Return(g, o).pc = g.ret /\ g.ret \in Hot
    BY <1>1, FrameTyped DEF Return, Frames
  <2>3. Only(t, Return(g, o))
    BY <1>4, <2>1 DEF GetCached, Only
  <2> QED
    BY <1>1, <1>3, <2>2, <2>3, OnlyCalm DEF Hot, Held, Starting, Asks
<1>5. CASE o = 0
  <2> DEFINE f == [g EXCEPT !.pc = "read"]
  <2>1. /\ f \in Frames /\ f.pc = "read" /\ f.key = g.key /\ f.ret = g.ret /\ f.make = g.make
        /\ f.got = g.got /\ f.obj = g.obj /\ f.id = g.id /\ f.user = g.user /\ f.new = g.new
    BY <1>1 DEF Frames, Await
  <2>2. Goto(t, f) /\ LockFree(g.key)
    BY <1>5 DEF GetCached
  <2> HIDE DEF f
  <2>3. FrameOK(f, objs)
    BY <1>1, <2>1 DEF FrameOK, Asking, Asks, Held, Carries
  <2>4. Only(t, f)
    BY <2>2, <2>3 DEF Only, GetCached
  <2> QED
    BY <1>1, <1>3, <1>5, <2>1, <2>2, <2>4, OnlyCalm DEF Starting
<1> QED
  BY <1>4, <1>5

\* The SELECT runs.
LEMMA GetReadCalm ==
    ASSUME TInv, LoadInv, NEW t \in Tasks, GetRead(t)
    PROVE  \E f : Calm(t, f)
<1> DEFINE g == frame[t]
           f == [g EXCEPT !.pc = "got", !.val = row[g.key]]
<1>1. /\ FrameOK(g, objs) /\ g \in Frames /\ g.pc = "read" /\ Asking(g)
      /\ Carries(g, g.ret, objs)
  BY Framed DEF GetRead, Runs, FrameOK, Asks, Held
<1>2. row[g.key] \in Users \cup {Null}
  BY <1>1 DEF Asking, TInv, StateOK
<1>3. /\ f \in Frames /\ f.pc = "got" /\ f.key = g.key /\ f.ret = g.ret /\ f.make = g.make
      /\ f.got = g.got /\ f.obj = g.obj /\ f.id = g.id /\ f.user = g.user /\ f.new = g.new
  BY <1>1, <1>2 DEF Frames, Await
<1>4. Goto(t, f)
  BY DEF GetRead
<1> HIDE DEF f
<1>5. FrameOK(f, objs)
  BY <1>1, <1>3 DEF FrameOK, Asking, Asks, Held, Carries
<1>6. Only(t, f)
  BY <1>4, <1>5 DEF Only, GetRead
<1>7. phase = "loading" => g.ret = "iload"
  BY <1>1 DEF LoadInv, Asks, Held
<1> QED
  BY <1>1, <1>3, <1>6, <1>7, OnlyCalm DEF Starting, Held

\* There is no row: get() returns None, or goes on to the INSERT.
LEMMA GetNoneCalm ==
    ASSUME TInv, LoadInv, NEW t \in Tasks, GetRow(t), frame[t].val = Null
    PROVE  \E f : Calm(t, f)
<1> DEFINE g == frame[t]
<1>1. /\ FrameOK(g, objs) /\ g \in Frames /\ g.pc = "got" /\ Asking(g)
      /\ Carries(g, g.ret, objs)
  BY Framed DEF GetRow, Runs, FrameOK, Asks, Held
<1>2. phase = "loading" => g.ret = "iload"
  BY <1>1 DEF LoadInv, Asks, Held
<1>3. CASE ~g.make
  <2>1. FrameOK(Return(g, 0), objs)
    BY <1>1, <1>3, ReturnOK DEF TInv, Asks, Held
  <2>2. Return(g, 0).pc = g.ret /\ g.ret \in Hot
    BY <1>1, FrameTyped DEF Return, Frames
  <2>3. Only(t, Return(g, 0))
    BY <1>3, <2>1 DEF GetRow, Only, Process
  <2> QED
    BY <1>1, <1>2, <2>2, <2>3, OnlyCalm DEF Hot, Held, Starting, Asks
<1>4. CASE g.make
  <2> DEFINE f == [g EXCEPT !.pc = "insert"]
  <2>1. /\ f \in Frames /\ f.pc = "insert" /\ f.key = g.key /\ f.ret = g.ret /\ f.make = g.make
        /\ f.got = g.got /\ f.obj = g.obj /\ f.id = g.id /\ f.user = g.user /\ f.new = g.new
    BY <1>1 DEF Frames, Await
  <2>2. Goto(t, f)
    BY <1>4 DEF GetRow
  <2> HIDE DEF f
  <2>3. FrameOK(f, objs)
    BY <1>1, <1>4, <2>1 DEF FrameOK, Asking, Asks, Held, Carries
  <2>4. Only(t, f)
    BY <2>2, <2>3 DEF Only, GetRow, Process
  <2>5. phase # "loading"
    BY <1>1, <1>2, <1>4 DEF Asking
  <2> QED
    BY <1>1, <2>1, <2>4, <2>5, OnlyCalm DEF Held
<1> QED
  BY <1>3, <1>4

\* The INSERT raises.
LEMMA GetRefusedCalm ==
    ASSUME TInv, LoadInv, NEW t \in Tasks, GetInsert(t), Finish(t), UNCHANGED row
    PROVE  \E f : Calm(t, f)
<1>1. frame[t].pc = "insert" /\ Only(t, NoFrame) /\ NoFrame.pc = "idle"
  BY FinishOnly DEF GetInsert, Runs
<1> QED
  BY <1>1, OnlyLater DEF Starting, Held

\* A request begins.
LEMMA BeginCalm ==
    ASSUME TInv, NEW t \in Tasks, NEW f, FrameOK(f, objs), f.pc \in {"lock", "whoami"},
           Begin(t, f)
    PROVE  Calm(t, f)
<1>1. StateOK'
  BY TasksAssumption DEF TInv, StateOK, Begin
<1>2. /\ Goto(t, f) /\ FrameOK(f, objs') /\ phase # "loading" /\ frame[t].pc = "idle"
      /\ UNCHANGED <<phase, row, cache, objs, spoiled>>
  BY DEF Begin, Runs
<1> QED
  BY <1>1, <1>2, SteadySame DEF Calm, TInv, Held

\* The requests.
LEMMA RequestsCalm ==
    ASSUME TInv, NEW t \in Tasks, Requests(t)
    PROVE  \E f : Calm(t, f)
<1>0. /\ FrameOK(NoFrame, objs) /\ NoFrame \in Frames
      /\ NoFrame.got <= Len(objs) /\ NoFrame.obj <= Len(objs)
  BY NoFrameOK DEF TInv, ObjsOK, FrameOK
<1>1. ASSUME NEW k \in Keys, Show(t, k) PROVE \E f : Calm(t, f)
  <2>1. FrameOK(Get(NoFrame, k, FALSE, "shown"), objs)
    BY <1>0, GetOK DEF Hot, Carries
  <2>2. Get(NoFrame, k, FALSE, "shown").pc = "lock"
    BY DEF Get, NoFrame
  <2> QED
    BY <1>1, <2>1, <2>2, BeginCalm DEF Show
<1>2. ASSUME NEW u \in Users, CreateClient(t, u) PROVE \E f : Calm(t, f)
  <2> DEFINE f == [NoFrame EXCEPT !.pc = "whoami", !.user = u]
  <2>1. f \in Frames /\ f.pc = "whoami" /\ f.user = u /\ f.got = 0 /\ f.obj = 0 /\ f.new = Null
    BY <1>0 DEF NoFrame, Frames, Await
  <2>2. FrameOK(f, objs)
    <3> HIDE DEF f
    <3>1. f.got <= Len(objs) /\ f.obj <= Len(objs)
      BY <2>1 DEF TInv, ObjsOK
    <3> QED
      BY <2>1, <3>1 DEF FrameOK, Asks, Held, Carries, Found
  <2> QED
    BY <1>2, <2>1, <2>2, BeginCalm DEF CreateClient
<1>3. ASSUME NEW u \in Users, PutClient(t, u) PROVE \E f : Calm(t, f)
  <2> DEFINE g == [NoFrame EXCEPT !.user = u]
  <2>1. g \in Frames /\ g.user = u /\ g.got = NoFrame.got /\ g.obj = NoFrame.obj /\ g.new = Null
    BY <1>0 DEF NoFrame, Frames
  <2>2. FrameOK(Get(g, u, FALSE, "put?"), objs) /\ Get(g, u, FALSE, "put?").pc = "lock"
    <3> HIDE DEF g
    <3>1. Carries(g, "put?", objs)
      BY <2>1 DEF Carries
    <3>2. u \in Keys /\ "put?" \in Hot /\ g.got <= Len(objs) /\ g.obj <= Len(objs)
      BY <1>0, <2>1 DEF Keys, Hot
    <3>3. Get(g, u, FALSE, "put?").pc = "lock"
      BY <2>1 DEF Get, Frames
    <3> QED
      BY <2>1, <3>1, <3>2, <3>3, GetOK
  <2> QED
    BY <1>3, <2>2, BeginCalm DEF PutClient
<1>4. ASSUME NEW u \in Users, DeleteClient(t, u) PROVE \E f : Calm(t, f)
  <2>1. FrameOK(Get(NoFrame, u, FALSE, "del?"), objs)
    BY <1>0, GetOK DEF Hot, Carries, Keys
  <2>2. Get(NoFrame, u, FALSE, "del?").pc = "lock"
    BY DEF Get, NoFrame
  <2> QED
    BY <1>4, <2>1, <2>2, BeginCalm DEF DeleteClient
<1>5. ASSUME NEW i \in Ids, DeleteInstance(t, i) PROVE \E f : Calm(t, f)
  <2>1. FrameOK(Get(NoFrame, i, FALSE, "idel?"), objs)
    BY <1>0, GetOK DEF Hot, Carries, Keys
  <2>2. Get(NoFrame, i, FALSE, "idel?").pc = "lock"
    BY DEF Get, NoFrame
  <2> QED
    BY <1>5, <2>1, <2>2, BeginCalm DEF DeleteInstance
<1>6. ASSUME NEW i \in Ids, NEW u \in Users \cup {Null}, NEW n \in Ids \cup {Null},
             PutInstance(t, i, u, n)
      PROVE  \E f : Calm(t, f)
  <2> DEFINE g == [NoFrame EXCEPT !.id = i, !.user = u, !.new = n]
  <2>1. g \in Frames /\ g.id = i /\ g.got = NoFrame.got /\ g.obj = NoFrame.obj
    BY <1>0 DEF NoFrame, Frames
  <2>2. FrameOK(Get(g, i, FALSE, "iput?"), objs) /\ Get(g, i, FALSE, "iput?").pc = "lock"
    <3> HIDE DEF g
    <3>1. Carries(g, "iput?", objs)
      BY <2>1 DEF Carries
    <3>2. i \in Keys /\ "iput?" \in Hot /\ g.got <= Len(objs) /\ g.obj <= Len(objs)
      BY <1>0, <2>1 DEF Keys, Hot
    <3>3. Get(g, i, FALSE, "iput?").pc = "lock"
      BY <2>1 DEF Get, Frames
    <3> QED
      BY <2>1, <3>1, <3>2, <3>3, GetOK
  <2> QED
    BY <1>6, <2>2, BeginCalm DEF PutInstance
<1> QED
  BY <1>1, <1>2, <1>3, <1>4, <1>5, <1>6 DEF Requests

\* A frame whose label changes.
LEMMA LabelTyped ==
    ASSUME NEW f \in Frames, NEW l \in Hot \cup Await
    PROVE  LET g == [f EXCEPT !.pc = l] IN
           /\ g \in Frames /\ g.pc = l
           /\ g.got = f.got /\ g.obj = f.obj /\ g.id = f.id /\ g.user = f.user
           /\ g.new = f.new
BY DEF Frames

\* It goes on at the label l, which is not inside get().
LEMMA LabelOK ==
    ASSUME NEW os, NEW f, FrameOK(f, os), NEW l \in (Hot \cup Await) \ Asks,
           Carries(f, l, os), Found([f EXCEPT !.pc = l], os)
    PROVE  FrameOK([f EXCEPT !.pc = l], os)
<1> DEFINE g == [f EXCEPT !.pc = l]
<1>1. /\ g \in Frames /\ g.pc = l
      /\ g.got = f.got /\ g.obj = f.obj /\ g.id = f.id /\ g.user = f.user
      /\ g.new = f.new
  BY LabelTyped DEF FrameOK
<1> HIDE DEF g
<1>2. Carries(g, l, os)
  BY <1>1 DEF Carries
<1> QED
  BY <1>1, <1>2 DEF FrameOK, g

\* A step that is not one of start() and only answers the request.
LEMMA FinishCalm ==
    ASSUME TInv, LoadInv, NEW t \in Tasks, Finish(t),
           UNCHANGED <<Process, row, cache, objs, spoiled>>,
           frame[t].pc \notin Starting, frame[t].pc \notin {"inserted", "delete"}
    PROVE  \E f : Calm(t, f)
<1>1. Only(t, NoFrame) /\ NoFrame.pc = "idle"
  BY FinishOnly
<1> QED
  BY <1>1, OnlyLater DEF Held

\* get() is called for a request.
LEMMA GetCalm ==
    ASSUME TInv, LoadInv, NEW t \in Tasks,
           frame[t].pc \notin Starting, frame[t].pc \notin {"inserted", "delete"},
           UNCHANGED <<Process, row, cache, objs, spoiled>>,
           NEW f \in Frames, f.got <= Len(objs), f.obj <= Len(objs),
           NEW k \in Keys, NEW make \in BOOLEAN, NEW ret \in Hot,
           ret = "made" <=> make,
           ret \in {"new?", "put?", "del?", "iuser", "iload", "iswitch"} => k \in Users,
           ret \in {"iput?", "idel?"} => k \in Ids,
           Carries(f, ret, objs), Goto(t, Get(f, k, make, ret))
    PROVE  \E g : Calm(t, g)
<1>1. FrameOK(Get(f, k, make, ret), objs)
  BY GetOK
<1>2. Get(f, k, make, ret).pc = "lock"
  BY GetTyped
<1>3. Only(t, Get(f, k, make, ret))
  BY <1>1 DEF Only
<1> QED
  BY <1>2, <1>3, OnlyLater DEF Held

\* The request goes on at another label.
LEMMA LabelCalm ==
    ASSUME TInv, LoadInv, NEW t \in Tasks,
           frame[t].pc \notin Starting, frame[t].pc \notin {"inserted", "delete"},
           UNCHANGED <<Process, row, cache, objs, spoiled>>,
           NEW f, FrameOK(f, objs), NEW l \in (Hot \cup Await) \ (Asks \cup {"delete"}),
           Carries(f, l, objs), Found([f EXCEPT !.pc = l], objs),
           Goto(t, [f EXCEPT !.pc = l])
    PROVE  \E g : Calm(t, g)
<1>1. FrameOK([f EXCEPT !.pc = l], objs)
  BY LabelOK
<1>2. [f EXCEPT !.pc = l].pc = l
  BY LabelTyped DEF FrameOK
<1>3. Only(t, [f EXCEPT !.pc = l])
  BY <1>1 DEF Only
<1> QED
  BY <1>2, <1>3, OnlyLater DEF Asks

\* whoami() answered, or did not.
LEMMA WhoAmICalm ==
    ASSUME TInv, LoadInv, NEW t \in Tasks, WhoAmI(t)
    PROVE  \E f : Calm(t, f)
<1> DEFINE f == frame[t]
           ret == IF f.make THEN "made" ELSE "new?"
<1>1. FrameOK(f, objs) /\ f \in Frames /\ f.pc = "whoami"
  BY Framed DEF WhoAmI, Runs
<1>2. f.user \in Users /\ f.new = Null /\ f.got <= Len(objs) /\ f.obj <= Len(objs)
  BY <1>1 DEF FrameOK, Carries, Asks, Held
<1>3. f.make \in BOOLEAN /\ f.user \in Keys
  BY <1>1, <1>2, FrameTyped DEF Keys
<1>4. ret \in {"made", "new?"} /\ (ret = "made" <=> f.make)
  OBVIOUS
<1>5. UNCHANGED <<Process, row, cache, objs, spoiled>>
  BY DEF WhoAmI
<1>6. CASE Goto(t, Get(f, f.user, f.make, ret))
  <2> HIDE DEF ret
  <2>1. Carries(f, ret, objs) /\ ret \in Hot
    BY <1>2, <1>4 DEF Carries, Hot
  <2> QED
    BY <1>1, <1>2, <1>3, <1>4, <1>5, <1>6, <2>1, GetCalm DEF Starting
<1>7. CASE Finish(t)
  BY <1>1, <1>5, <1>7, FinishCalm DEF Starting
<1> QED
  BY <1>6, <1>7 DEF WhoAmI

\* POST and PUT look at what get() returned.
LEMMA CreateOrNotCalm ==
    ASSUME TInv, LoadInv, NEW t \in Tasks, CreateOrNot(t)
    PROVE  \E f : Calm(t, f)
<1> DEFINE f == frame[t]
<1>1. FrameOK(f, objs) /\ f \in Frames /\ f.pc \in {"new?", "put?"}
  BY Framed DEF CreateOrNot, Runs
<1>2. f.user \in Users /\ f.new = Null /\ f.got <= Len(objs) /\ f.obj <= Len(objs)
  BY <1>1 DEF FrameOK, Carries, Asks, Held
<1>3. UNCHANGED <<Process, row, cache, objs, spoiled>>
  BY DEF CreateOrNot
<1>4. CASE f.got # 0
  <2>1. Finish(t)
    BY <1>4 DEF CreateOrNot, Finish
  <2> QED
    BY <1>1, <1>3, <2>1, FinishCalm DEF Starting
<1>5. CASE f.got = 0 /\ f.pc = "new?"
  <2>1. Goto(t, Get(f, f.user, TRUE, "made"))
    BY <1>5 DEF CreateOrNot
  <2>2. Carries(f, "made", objs) /\ "made" \in Hot /\ f.user \in Keys
    BY <1>2 DEF Carries, Hot, Keys
  <2> QED
    BY <1>1, <1>2, <1>3, <2>1, <2>2, GetCalm DEF Starting
<1>6. CASE f.got = 0 /\ f.pc = "put?"
  <2> DEFINE g == [f EXCEPT !.pc = "whoami", !.make = TRUE]
  <2>1. Goto(t, g)
    BY <1>6 DEF CreateOrNot
  <2>2. /\ g \in Frames /\ g.pc = "whoami" /\ g.user = f.user /\ g.new = f.new
        /\ g.got = f.got /\ g.obj = f.obj
    BY <1>1 DEF Frames, Await
  <2> HIDE DEF g
  <2>3. FrameOK(g, objs)
    BY <1>2, <2>2 DEF FrameOK, Carries, Found, Asks, Held
  <2>4. Only(t, g)
    BY <1>3, <2>1, <2>3 DEF Only
  <2> QED
    BY <1>1, <2>2, <2>4, OnlyLater DEF Starting, Held
<1> QED
  BY <1>1, <1>4, <1>5, <1>6

\* The object of POST or PUT is there.
LEMMA MadeCalm ==
    ASSUME TInv, LoadInv, NEW t \in Tasks, Made(t)
    PROVE  \E f : Calm(t, f)
<1> DEFINE f == frame[t]
           l == IF objs[f.got].key \in Users THEN "start" ELSE "iupdate"
           g == [f EXCEPT !.obj = f.got, !.got = 0, !.pc = l]
<1>1. FrameOK(f, objs) /\ f \in Frames /\ f.pc = "made"
  BY Framed DEF Made, Runs
<1>2. f.new = Null /\ f.got \in DOMAIN objs
  BY <1>1, Framed DEF FrameOK, Carries, Found, Asks, Held
<1>3. Goto(t, g) /\ UNCHANGED <<Process, row, cache, objs, spoiled>>
  BY DEF Made
<1>4. l \in {"start", "iupdate"} /\ (l = "iupdate" => Inst(objs, f.got))
  <2>1. objs[f.got].key \in Keys
    BY <1>2, Numbered, ObjectTyped DEF TInv, ObjsOK
  <2> QED
    BY <1>2, <2>1 DEF Inst, Keys
<1>5. f.got \in 0..MaxObjects /\ 0 \in 0..MaxObjects
  BY <1>1, FrameTyped, TasksAssumption
<1> HIDE DEF l
<1>6. /\ g \in Frames /\ g.pc = l /\ g.new = f.new /\ g.got = 0 /\ g.obj = f.got
  BY <1>1, <1>4, <1>5 DEF Frames, Await
<1>7. g.got <= Len(objs) /\ g.obj <= Len(objs)
  BY <1>1, <1>6 DEF FrameOK, TInv, ObjsOK
<1> HIDE DEF g
<1>8. FrameOK(g, objs)
  BY <1>2, <1>4, <1>6, <1>7 DEF FrameOK, Carries, Found, Asks, Held
<1>9. Only(t, g)
  BY <1>3, <1>8 DEF Only
<1> QED
  BY <1>1, <1>4, <1>6, <1>9, OnlyLater DEF Starting, Held

\* PUT /instance looks at what get() returned.
LEMMA PutOrNotCalm ==
    ASSUME TInv, LoadInv, NEW t \in Tasks, PutOrNot(t)
    PROVE  \E f : Calm(t, f)
<1> DEFINE e == frame[t]
           f == [e EXCEPT !.obj = e.got]
<1>1. FrameOK(e, objs) /\ e \in Frames /\ e.pc = "iput?"
  BY Framed DEF PutOrNot, Runs
<1>2. e.id \in Ids /\ (e.got = 0 \/ Inst(objs, e.got)) /\ e.got <= Len(objs)
  BY <1>1 DEF FrameOK, Carries, Found, Asks, Held
<1>3. UNCHANGED <<Process, row, cache, objs, spoiled>>
  BY DEF PutOrNot
<1>4. e.got \in 0..MaxObjects /\ e.user \in Users \cup {Null}
  BY <1>1, FrameTyped
<1>5. /\ f \in Frames /\ f.pc = "iput?" /\ f.user = e.user /\ f.new = e.new /\ f.id = e.id
      /\ f.got = e.got /\ f.obj = e.got
  BY <1>1, <1>4 DEF Frames
<1>6. Goto(t, IF f.got = 0
               THEN IF f.user = Null THEN NoFrame
                    ELSE Get([f EXCEPT !.new = Null], f.user, FALSE, "iuser")
               ELSE IF f.user \notin {Null, objs[f.got].user}
                    THEN Get(f, f.user, FALSE, "iswitch")
                    ELSE [f EXCEPT !.pc = "rename?"])
  BY DEF PutOrNot
<1> HIDE DEF f
<1>7. CASE f.got = 0 /\ f.user = Null
  <2>1. Finish(t)
    BY <1>6, <1>7 DEF Finish
  <2> QED
    BY <1>1, <1>3, <2>1, FinishCalm DEF Starting
<1>8. CASE f.got = 0 /\ f.user # Null
  <2> DEFINE g == [f EXCEPT !.new = Null]
  <2>1. /\ g \in Frames /\ g.user = f.user /\ g.new = Null /\ g.id = f.id
        /\ g.got = f.got /\ g.obj = f.obj
    BY <1>5 DEF Frames
  <2>2. Goto(t, Get(g, f.user, FALSE, "iuser")) /\ f.user \in Users
    BY <1>4, <1>5, <1>6, <1>8
  <2> HIDE DEF g
  <2>3. Carries(g, "iuser", objs) /\ "iuser" \in Hot /\ f.user \in Keys
    BY <1>2, <1>5, <2>1, <2>2 DEF Carries, Hot, Keys
  <2> QED
    BY <1>1, <1>2, <1>3, <1>5, <2>1, <2>2, <2>3, GetCalm DEF Starting
<1>9. CASE f.got # 0 /\ f.user \notin {Null, objs[f.got].user}
  <2>1. Goto(t, Get(f, f.user, FALSE, "iswitch")) /\ f.user \in Users
    BY <1>4, <1>5, <1>6, <1>9
  <2>2. Carries(f, "iswitch", objs) /\ "iswitch" \in Hot /\ f.user \in Keys
    BY <1>2, <1>5, <1>9, <2>1 DEF Carries, Hot, Keys
  <2> QED
    BY <1>1, <1>2, <1>3, <1>5, <2>1, <2>2, GetCalm DEF Starting
<1>10. CASE f.got # 0 /\ f.user \in {Null, objs[f.got].user}
  <2> DEFINE g == [f EXCEPT !.pc = "rename?"]
  <2>1. Goto(t, g)
    BY <1>6, <1>10
  <2>2. g \in Frames /\ g.pc = "rename?" /\ g.got = f.got /\ g.obj = f.obj
    BY <1>5 DEF Frames, Hot
  <2> HIDE DEF g
  <2>3. FrameOK(g, objs)
    BY <1>2, <1>5, <1>10, <2>2 DEF FrameOK, Carries, Found, Asks, Held
  <2>4. Only(t, g)
    BY <1>3, <2>1, <2>3 DEF Only
  <2> QED
    BY <1>1, <2>2, <2>4, OnlyLater DEF Starting, Held
<1> QED
  BY <1>7, <1>8, <1>9, <1>10

\* _create_instance() goes on, or does not.
LEMMA CreateInstanceCalm ==
    ASSUME TInv, LoadInv, NEW t \in Tasks, CreateInstance(t)
    PROVE  \E f : Calm(t, f)
<1> DEFINE f == frame[t]
<1>1. FrameOK(f, objs) /\ f \in Frames /\ f.pc = "iuser"
  BY Framed DEF CreateInstance, Runs
<1>2. /\ f.user \in Users /\ f.new = Null /\ f.id \in Ids
      /\ f.got <= Len(objs) /\ f.obj <= Len(objs)
  BY <1>1 DEF FrameOK, Carries, Asks, Held
<1>3. UNCHANGED <<Process, row, cache, objs, spoiled>>
  BY DEF CreateInstance
<1>4. CASE Goto(t, Get(f, f.id, TRUE, "made"))
  <2>1. Carries(f, "made", objs) /\ "made" \in Hot /\ f.id \in Keys
    BY <1>2 DEF Carries, Hot, Keys
  <2> QED
    BY <1>1, <1>2, <1>3, <1>4, <2>1, GetCalm DEF Starting
<1>5. CASE Finish(t)
  BY <1>1, <1>3, <1>5, FinishCalm DEF Starting
<1> QED
  BY <1>4, <1>5 DEF CreateInstance

\* update_primary_user() looks at what get() returned.
LEMMA SwitchOrNotCalm ==
    ASSUME TInv, LoadInv, NEW t \in Tasks, SwitchOrNot(t)
    PROVE  \E f : Calm(t, f)
<1> DEFINE f == frame[t]
<1>1. FrameOK(f, objs) /\ f \in Frames /\ f.pc = "iswitch"
  BY Framed DEF SwitchOrNot, Runs
<1>2. Inst(objs, f.obj) /\ (f.got = 0 \/ Cli(objs, f.got))
  BY <1>1 DEF FrameOK, Carries, Found, Asks, Held
<1>3. UNCHANGED <<Process, row, cache, objs, spoiled>>
  BY DEF SwitchOrNot
<1>4. CASE f.got = 0
  <2>1. Finish(t)
    BY <1>4 DEF SwitchOrNot, Finish
  <2> QED
    BY <1>1, <1>3, <2>1, FinishCalm DEF Starting
<1>5. CASE f.got # 0
  <2>1. Goto(t, [f EXCEPT !.pc = "istop"])
    BY <1>5 DEF SwitchOrNot
  <2>2. Carries(f, "istop", objs) /\ "istop" \in (Hot \cup Await) \ (Asks \cup {"delete"})
    BY <1>2, <1>5 DEF Carries, Hot, Await, Asks, Held
  <2>3. Found([f EXCEPT !.pc = "istop"], objs)
    BY <1>1 DEF Found, Frames
  <2> QED
    BY <1>1, <1>3, <2>1, <2>2, <2>3, LabelCalm DEF Starting
<1> QED
  BY <1>4, <1>5

\* update_id() has something to do, or not.
LEMMA RenameOrNotCalm ==
    ASSUME TInv, LoadInv, NEW t \in Tasks, RenameOrNot(t)
    PROVE  \E f : Calm(t, f)
<1> DEFINE f == frame[t]
<1>1. FrameOK(f, objs) /\ f \in Frames /\ f.pc = "rename?"
  BY Framed DEF RenameOrNot, Runs
<1>2. Inst(objs, f.obj) /\ f.new \in Ids \cup {Null}
  BY <1>1, FrameTyped DEF FrameOK, Carries, Asks, Held
<1>3. UNCHANGED <<Process, row, cache, objs, spoiled>>
  BY DEF RenameOrNot
<1>4. CASE f.new \in {Null, objs[f.obj].key}
  <2>1. Finish(t)
    BY <1>4 DEF RenameOrNot, Finish
  <2> QED
    BY <1>1, <1>3, <2>1, FinishCalm DEF Starting
<1>5. CASE f.new \notin {Null, objs[f.obj].key}
  <2>1. Goto(t, [f EXCEPT !.pc = "rename"])
    BY <1>5 DEF RenameOrNot
  <2>2. Carries(f, "rename", objs) /\ "rename" \in (Hot \cup Await) \ (Asks \cup {"delete"})
    BY <1>2, <1>5 DEF Carries, Hot, Await, Asks, Held
  <2>3. Found([f EXCEPT !.pc = "rename"], objs)
    BY <1>1 DEF Found, Frames
  <2> QED
    BY <1>1, <1>3, <2>1, <2>2, <2>3, LabelCalm DEF Starting
<1> QED
  BY <1>4, <1>5

\* stop() is awaited before a deletion.
LEMMA StopCalm ==
    ASSUME TInv, LoadInv, NEW t \in Tasks, NEW l \in {"stop", "idstop"},
           frame[t].pc = IF l = "stop" THEN "del?" ELSE "idel?",
           UNCHANGED <<Process, row, cache, objs, spoiled>>, frame[t].got # 0,
           Goto(t, [frame[t] EXCEPT !.pc = l, !.obj = frame[t].got])
    PROVE  \E f : Calm(t, f)
<1> DEFINE f == frame[t]
           g == [f EXCEPT !.pc = l, !.obj = f.got]
<1>1. FrameOK(f, objs) /\ f \in Frames /\ f.pc \in {"del?", "idel?"}
  BY Framed
<1>2. f.got \in DOMAIN objs /\ (l = "idstop" => Inst(objs, f.got)) /\ f.got <= Len(objs)
  BY <1>1 DEF FrameOK, Found, Asks, Held, Cli, Inst
<1>3. /\ g \in Frames /\ g.pc = l /\ g.got = f.got /\ g.obj = f.got
  BY <1>1, FrameTyped DEF Frames, Await
<1> HIDE DEF g
<1>4. FrameOK(g, objs)
  BY <1>2, <1>3 DEF FrameOK, Carries, Found, Asks, Held
<1>5. Only(t, g)
  BY <1>4 DEF Only, g
<1> QED
  BY <1>1, <1>3, <1>5, OnlyLater DEF Starting, Held

-----------------------------------------------------------------------------
(* References                                                              *)

\* Some object was renamed.
Renamed(os) == \E p \in DOMAIN os : os[p].old # {}

\* InUse, of any sequence of objects.
Used(os, o) ==
    os[o].client # 0 /\ ~os[o].dropped => Holds(os, os[o].client, o) \/ Renamed(os)

AllUsed(os) == \A o \in DOMAIN os : Used(os, o)

\* InUse is about the objects alone.
LEMMA InUseIs == /\ InUse <=> AllUsed(objs)
                 /\ InUse' <=> AllUsed(objs')
BY DEF InUse, AllUsed, Used, Holds, Twin, Renamed

\* Twins and renamed objects stay.
LEMMA KeepsTwins ==
    ASSUME NEW os, NEW ns, ObjsOK(os), Keeps(os, ns)
    PROVE  /\ Renamed(os) => Renamed(ns)
           /\ \A o \in DOMAIN os : Twin(os, o) => Twin(ns, o)
<1>1. DOMAIN ns = DOMAIN os
  BY KeepsOlder
<1> QED
  BY <1>1 DEF Keeps, Renamed, Twin

\* The clients are the same and the references only grow.
LEMMA SameUsed ==
    ASSUME NEW os, NEW ns, ObjsOK(os), Keeps(os, ns), AllUsed(os),
           \A p \in DOMAIN os : /\ os[p].dropped => ns[p].dropped
                                /\ ns[p].client = os[p].client
                                /\ os[p].refs \subseteq ns[p].refs
    PROVE  AllUsed(ns)
<1>1. DOMAIN ns = DOMAIN os
  BY KeepsOlder
<1>2. ASSUME NEW o \in DOMAIN os, ns[o].client # 0, ~ns[o].dropped
      PROVE  Holds(ns, ns[o].client, o) \/ Renamed(ns)
  <2>1. Holds(os, os[o].client, o) \/ Renamed(os)
    BY <1>2 DEF AllUsed, Used
  <2>2. os[o].client \in DOMAIN os
    BY <1>2 DEF ObjsOK, Cli
  <2> QED
    BY <1>2, <2>1, <2>2, KeepsTwins DEF Holds, Keeps
<1> QED
  BY <1>1, <1>2 DEF AllUsed, Used

\* One instance gets another client, and what is removed was added under its id.
LEMMA ChangeUsed ==
    ASSUME NEW os, NEW ns, ObjsOK(os), Keeps(os, ns), AllUsed(os), NEW o \in DOMAIN os,
           \A p \in DOMAIN os :
              /\ os[p].dropped => ns[p].dropped
              /\ p # o => ns[p].client = os[p].client
              /\ \A m \in os[p].refs : m \in ns[p].refs \/ m.key = os[o].key,
           ns[o].client # 0 /\ ~ns[o].dropped => Holds(ns, ns[o].client, o)
    PROVE  AllUsed(ns)
<1>1. DOMAIN ns = DOMAIN os
  BY KeepsOlder
<1>2. ASSUME NEW p \in DOMAIN os, p # o, ns[p].client # 0, ~ns[p].dropped
      PROVE  Holds(ns, ns[p].client, p) \/ Renamed(ns)
  <2> DEFINE x == [key |-> os[p].key, obj |-> p]
  <2>1. Holds(os, os[p].client, p) \/ Renamed(os)
    BY <1>2 DEF AllUsed, Used
  <2>2. os[p].client \in DOMAIN os
    BY <1>2 DEF ObjsOK, Cli
  <2>3. x.key = os[p].key /\ [key |-> ns[p].key, obj |-> p] = x
    BY DEF Keeps
  <2>4. ASSUME x \in os[os[p].client].refs, x \notin ns[os[p].client].refs
        PROVE  Twin(os, p)
    BY <1>2, <2>2, <2>3, <2>4 DEF Twin
  <2> HIDE DEF x
  <2>5. Twin(os, p) => Holds(ns, ns[p].client, p)
    BY KeepsTwins DEF Holds
  <2>6. x \in ns[os[p].client].refs => Holds(ns, ns[p].client, p)
    BY <1>2, <2>3 DEF Holds
  <2> QED
    BY <2>1, <2>4, <2>5, <2>6, KeepsTwins DEF Holds, x
<1> QED
  BY <1>1, <1>2 DEF AllUsed, Used

\* The instance o has the client c.
WithClient(os, o, c) == [os EXCEPT ![o].client = c]

\* Setting the client of an instance changes nothing else.
LEMMA SetClient ==
    ASSUME NEW os, ObjsOK(os), NEW o, Inst(os, o), NEW c, Cli(os, c)
    PROVE  LET ns == WithClient(os, o, c) IN
           /\ ObjsOK(ns) /\ Steady(os, ns) /\ Inst(ns, o) /\ Cli(ns, c)
           /\ ns[o].client = c
           /\ \A p \in DOMAIN os : /\ ns[p].refs = os[p].refs
                                   /\ p # o => ns[p].client = os[p].client
<1> DEFINE ns == WithClient(os, o, c)
           r == [os[o] EXCEPT !.client = c]
<1>1. os \in Seq(Objects) /\ o \in DOMAIN os /\ os[o] \in Objects /\ c \in DOMAIN os
  BY DEF ObjsOK, Inst, Cli
<1>2. c \in 0..MaxObjects
  <2>1. c \in Serials
    BY <1>1, Serial
  <2> QED
    BY <2>1, Bounds DEF Serials
<1>3. /\ r \in Objects /\ r.client = c /\ r.refs = os[o].refs
      /\ r.key = os[o].key /\ r.old = os[o].old /\ r.dropped = os[o].dropped
  BY <1>1, <1>2 DEF Objects
<1>4. ns = [os EXCEPT ![o] = r]
  BY <1>1 DEF WithClient
<1> HIDE DEF ns, r
<1>5. /\ ns \in Seq(Objects) /\ Len(ns) = Len(os) /\ DOMAIN ns = DOMAIN os
      /\ ns[o] = r
      /\ \A p \in DOMAIN os : p # o => ns[p] = os[p]
  BY <1>1, <1>3, <1>4, Replace
<1>6. Steady(os, ns) /\ Keeps(os, ns)
  BY <1>3, <1>5 DEF Steady, Keeps
<1>7. ObjsOK(ns)
  BY <1>3, <1>5, <1>6, ChangedObjs DEF ObjsOK
<1>8. Inst(ns, o) /\ Cli(ns, c)
  BY <1>5, <1>6, KeepsOlder, OlderKinds
<1> QED
  BY <1>3, <1>5, <1>6, <1>7, <1>8 DEF ns

\* The instance o, which has the client c, is added to its references.
LEMMA RefUsed ==
    ASSUME NEW os, ObjsOK(os), NEW o, Inst(os, o), NEW c, Cli(os, c)
    PROVE  LET ns == Ref(WithClient(os, o, c), c, o) IN
           /\ ObjsOK(ns) /\ Steady(os, ns)
           /\ ns[o].client = c /\ Holds(ns, c, o)
           /\ \A p \in DOMAIN os : /\ os[p].refs \subseteq ns[p].refs
                                   /\ p # o => ns[p].client = os[p].client
<1> DEFINE ms == WithClient(os, o, c)
           ns == Ref(ms, c, o)
<1>1. /\ ObjsOK(ms) /\ Steady(os, ms) /\ Inst(ms, o) /\ Cli(ms, c) /\ ms[o].client = c
      /\ \A p \in DOMAIN os : /\ ms[p].refs = os[p].refs
                              /\ p # o => ms[p].client = os[p].client
  BY SetClient
<1>2. DOMAIN ms = DOMAIN os /\ o \in DOMAIN os
  BY <1>1, KeepsOlder DEF Steady, Inst
<1> HIDE DEF ms
<1>3. c # 0
  BY Numbered DEF Cli, ObjsOK
<1>4. /\ Steady(ms, ns) /\ Holds(ns, c, o)
      /\ \A p \in DOMAIN ms :
                 /\ ns[p].client = ms[p].client
                 /\ ms[p].refs \subseteq ns[p].refs
                 /\ \A m \in ns[p].refs : m \in ms[p].refs \/ m.obj = o
  BY <1>1, <1>3, RefIs
<1> HIDE DEF ns
<1>5. ObjsOK(ns)
  BY <1>1, <1>2, <1>4, ChangedObjs DEF ObjsOK, Steady
<1>6. Steady(os, ns)
  BY <1>1, <1>4, SteadyTransitive
<1> QED
  BY <1>1, <1>2, <1>4, <1>5, <1>6 DEF ns, ms

-----------------------------------------------------------------------------
(* Steps that change objects, rows of the same keys, and references        *)

\* A step that is not one of get().
LEMMA ObjsCalm ==
    ASSUME TInv, NEW t \in Tasks, NEW f, Goto(t, f), FrameOK(f, objs),
           ObjsOK(objs'), Steady(objs, objs'), UNCHANGED <<Process, cache, spoiled>>,
           row' \in [Keys -> Users \cup {Null}],
           \A k \in Keys : row'[k] = Null <=> row[k] = Null,
           frame[t].pc \notin {"inserted", "delete"}, f.pc \notin Held \cup {"delete"},
           phase = "loading" => f.pc \in Starting /\ (f.pc \in Asks => f.ret = "iload")
    PROVE  Calm(t, f)
<1>1. StateOK'
  BY DEF TInv, StateOK, Process
<1>2. FrameOK(f, objs')
  BY FrameKept, KeepsOlder DEF TInv, ObjsOK, Steady
<1> QED
  BY <1>1, <1>2 DEF Calm, Process, Held

\* The tables are left alone.
LEMMA RowSame ==
    ASSUME TInv, UNCHANGED row
    PROVE  /\ row' \in [Keys -> Users \cup {Null}]
           /\ \A k \in Keys : row'[k] = Null <=> row[k] = Null
BY DEF TInv, StateOK

\* UPDATE writes no row that was not there.
LEMMA SavedIs ==
    ASSUME TInv, NEW o \in DOMAIN objs, row' = Saved(o)
    PROVE  /\ row' \in [Keys -> Users \cup {Null}]
           /\ \A k \in Keys : row'[k] = Null <=> row[k] = Null
<1>1. objs[o].key \in Keys /\ objs[o].user \in Users
  BY Numbered, ObjectTyped DEF TInv, ObjsOK
<1>2. Null \notin Users
  BY TasksAssumption
<1> QED
  BY <1>1, <1>2 DEF Saved, TInv, StateOK

\* The fields of a client or an instance that its own coroutines set.
Alike(r, q) ==
    /\ r \in Objects
    /\ r.key = q.key /\ r.old = q.old /\ r.dropped = q.dropped
    /\ r.client = q.client /\ r.refs = q.refs

\* One object changes in what its own coroutines set.
LEMMA AlikeSteady ==
    ASSUME NEW os, ObjsOK(os), NEW o \in DOMAIN os, NEW r, Alike(r, os[o]), NEW ns,
           ns = [os EXCEPT ![o] = r]
    PROVE  ObjsOK(ns) /\ Steady(os, ns) /\ SameRefs(os, ns)
<1>1. /\ ns \in Seq(Objects) /\ Len(ns) = Len(os) /\ DOMAIN ns = DOMAIN os
      /\ ns[o] = r
      /\ \A p \in DOMAIN os : p # o => ns[p] = os[p]
  BY Replace DEF ObjsOK, Alike
<1>2. Steady(os, ns) /\ SameRefs(os, ns)
  BY <1>1 DEF Steady, Keeps, SameRefs, Alike
<1> QED
  BY <1>2, KeepsObjs DEF Steady

\* The references of every instance are the same.
LEMMA SameInUse ==
    ASSUME TInv, InUse, Steady(objs, objs'), SameRefs(objs, objs')
    PROVE  InUse'
BY SameUsed, InUseIs DEF Steady, SameRefs, TInv

\* The client or the instance came up, or it did not.
LEMMA StartedCalm ==
    ASSUME TInv, LoadInv, InUse, NEW t \in Tasks, Started(t)
    PROVE  (\E f : Calm(t, f)) /\ InUse'
<1> DEFINE f == frame[t]
           o == f.obj
<1>1. FrameOK(f, objs) /\ f \in Frames /\ f.pc = "start"
  BY Framed DEF Started, Runs
<1>2. o \in DOMAIN objs /\ (f.new = Null \/ Inst(objs, o))
  BY <1>1 DEF FrameOK, Carries, Asks, Held
<1>3. objs[o] \in Objects
  BY <1>2 DEF TInv, ObjsOK
<1>4. PICK b \in BOOLEAN : objs' = [objs EXCEPT ![o].started = @ \/ b]
  BY DEF Started
<1>5. Alike([objs[o] EXCEPT !.started = TRUE], objs[o])
  BY <1>3 DEF Alike, Objects
<1>6. \/ objs' = [objs EXCEPT ![o] = objs[o]]
      \/ objs' = [objs EXCEPT ![o] = [objs[o] EXCEPT !.started = TRUE]]
  <2>1. CASE b = TRUE
    BY <1>4, <2>1
  <2>2. CASE b = FALSE
    <3>1. [objs[o] EXCEPT !.started = @ \/ FALSE] = objs[o]
      BY <1>3 DEF Objects
    <3> QED
      BY <1>4, <2>2, <3>1
  <2> QED
    BY <2>1, <2>2
<1>7. Alike(objs[o], objs[o])
  BY <1>3 DEF Alike
<1>8. ObjsOK(objs') /\ Steady(objs, objs') /\ SameRefs(objs, objs')
  BY <1>2, <1>5, <1>6, <1>7, AlikeSteady DEF TInv
<1>9. /\ UNCHANGED <<Process, cache, spoiled>> /\ phase # "loading"
      /\ row' \in [Keys -> Users \cup {Null}]
      /\ \A k \in Keys : row'[k] = Null <=> row[k] = Null
  BY <1>1, RowSame DEF Started, LoadInv
<1>10. CASE f.new = Null
  <2>1. Goto(t, NoFrame) /\ FrameOK(NoFrame, objs) /\ NoFrame.pc = "idle"
    BY <1>10, NoFrameOK DEF Started, TInv, ObjsOK, NoFrame
  <2> QED
    BY <1>1, <1>8, <1>9, <2>1, ObjsCalm, SameInUse DEF Held
<1>11. CASE f.new # Null
  <2> DEFINE g == [f EXCEPT !.pc = "rename?"]
  <2>1. Goto(t, g)
    BY <1>11 DEF Started
  <2>2. Carries(f, "rename?", objs) /\ "rename?" \in (Hot \cup Await) \ Asks
    BY <1>2, <1>11 DEF Carries, Hot, Asks, Held
  <2>3. Found(g, objs) /\ g.pc = "rename?"
    BY <1>1 DEF Found, Frames
  <2>4. FrameOK(g, objs)
    BY <1>1, <2>2, <2>3, LabelOK
  <2> QED
    BY <1>1, <1>8, <1>9, <2>1, <2>3, <2>4, ObjsCalm, SameInUse DEF Held
<1> QED
  BY <1>10, <1>11

\* The instance is among the references of its client.
LEMMA RefAgain ==
    ASSUME TInv, InUse, NEW o, Inst(objs, o), objs' = Ref(objs, objs[o].client, o)
    PROVE  ObjsOK(objs') /\ Steady(objs, objs') /\ InUse'
<1> DEFINE c == objs[o].client
<1>1. o \in DOMAIN objs /\ (c = 0 \/ Cli(objs, c)) /\ ObjsOK(objs)
  BY DEF Inst, TInv, ObjsOK
<1>2. /\ Steady(objs, objs')
      /\ \A p \in DOMAIN objs :
                 /\ objs'[p].client = objs[p].client
                 /\ objs[p].refs \subseteq objs'[p].refs
                 /\ \A m \in objs'[p].refs : m \in objs[p].refs \/ m.obj = o
  BY <1>1, RefIs
<1>3. ObjsOK(objs')
  BY <1>1, <1>2, ChangedObjs DEF ObjsOK, Steady
<1>4. AllUsed(objs')
  BY <1>1, <1>2, SameUsed, InUseIs DEF Steady
<1> QED
  BY <1>2, <1>3, <1>4, InUseIs

\* The first save of an instance, and load().
LEMMA SaveCreatedCalm ==
    ASSUME TInv, LoadInv, InUse, NEW t \in Tasks, SaveCreated(t)
    PROVE  (\E f : Calm(t, f)) /\ InUse'
<1> DEFINE f == frame[t]
           o == f.obj
<1>1. FrameOK(f, objs) /\ f \in Frames /\ f.pc = "iupdate"
  BY Framed DEF SaveCreated, Runs
<1>2. Inst(objs, o) /\ o \in DOMAIN objs /\ f.got <= Len(objs) /\ o <= Len(objs)
  BY <1>1 DEF FrameOK, Carries, Asks, Held, Inst
<1>3. UNCHANGED <<Process, cache, spoiled>> /\ phase # "loading"
  BY <1>1 DEF SaveCreated, LoadInv
<1>4. objs[o].user \in Users /\ objs[o].user \in Keys
  BY <1>2, Numbered, ObjectTyped DEF TInv, ObjsOK, Keys
<1>5. CASE Finish(t) /\ UNCHANGED <<row, objs>>
  <2>1. \E g : Calm(t, g)
    BY <1>1, <1>3, <1>5, FinishCalm DEF Starting
  <2> QED
    BY <1>5, <2>1 DEF InUse
<1>6. CASE /\ row' = Saved(o) /\ UNCHANGED objs
           /\ Goto(t, Get(f, objs[o].user, FALSE, "iload"))
  <2> DEFINE g == Get(f, objs[o].user, FALSE, "iload")
  <2>1. Carries(f, "iload", objs) /\ "iload" \in Hot
    BY <1>2 DEF Carries, Hot
  <2>2. FrameOK(g, objs)
    BY <1>1, <1>2, <1>4, <2>1, GetOK
  <2>3. g.pc = "lock"
    BY <1>1 DEF Get, Frames
  <2> HIDE DEF g
  <2>4. Calm(t, g)
    BY <1>1, <1>2, <1>3, <1>6, <2>2, <2>3, SavedIs, SteadySame, ObjsCalm DEF Held, TInv, g
  <2> QED
    BY <1>6, <2>4 DEF InUse
<1>7. CASE /\ row' = Saved(o) /\ objs' = Ref(objs, objs[o].client, o)
           /\ Goto(t, [f EXCEPT !.pc = "start"])
  <2> DEFINE g == [f EXCEPT !.pc = "start"]
  <2>1. Carries(f, "start", objs) /\ "start" \in (Hot \cup Await) \ Asks
    BY <1>2 DEF Carries, Await, Asks, Held
  <2>2. Found(g, objs) /\ g.pc = "start"
    BY <1>1 DEF Found, Frames
  <2>3. FrameOK(g, objs)
    BY <1>1, <2>1, <2>2, LabelOK
  <2>4. ObjsOK(objs') /\ Steady(objs, objs') /\ InUse'
    BY <1>2, <1>7, RefAgain
  <2>5. Calm(t, g)
    BY <1>1, <1>2, <1>3, <1>7, <2>2, <2>3, <2>4, SavedIs, ObjsCalm DEF Held
  <2> QED
    BY <2>4, <2>5
<1> QED
  BY <1>5, <1>6, <1>7 DEF SaveCreated

\* The end of load().
LEMMA LoadCalm ==
    ASSUME TInv, LoadInv, InUse, NEW t \in Tasks, Load(t)
    PROVE  (\E f : Calm(t, f)) /\ InUse'
<1> DEFINE f == frame[t]
           o == f.obj
           c == f.got
<1>1. FrameOK(f, objs) /\ f \in Frames /\ f.pc = "iload"
  BY Framed DEF Load, Runs
<1>2. Inst(objs, o) /\ o \in DOMAIN objs /\ (c = 0 \/ Cli(objs, c)) /\ ObjsOK(objs)
  BY <1>1 DEF FrameOK, Carries, Found, Asks, Held, Inst, TInv
<1>3. /\ UNCHANGED <<Process, row, cache, spoiled>>
      /\ row' \in [Keys -> Users \cup {Null}]
      /\ \A k \in Keys : row'[k] = Null <=> row[k] = Null
  BY RowSame DEF Load
<1>4. FrameOK(NoFrame, objs) /\ NoFrame.pc = "idle"
  BY NoFrameOK DEF NoFrame, TInv, ObjsOK
<1>5. CASE c = 0
  <2>1. Goto(t, NoFrame) /\ UNCHANGED objs
    BY <1>5 DEF Load, Finish
  <2>2. Calm(t, NoFrame)
    BY <1>1, <1>2, <1>3, <1>4, <2>1, SteadySame, ObjsCalm DEF Held, Starting, Asks
  <2> QED
    BY <2>1, <2>2 DEF InUse
<1>6. CASE c # 0
  <2> DEFINE g == IF phase = "loading" THEN NoFrame ELSE [f EXCEPT !.pc = "start"]
  <2>1. objs' = Ref(WithClient(objs, o, c), c, o) /\ Goto(t, g)
    BY <1>6 DEF Load, WithClient
  <2>2. /\ ObjsOK(objs') /\ Steady(objs, objs')
        /\ objs'[o].client = c /\ Holds(objs', c, o)
        /\ \A p \in DOMAIN objs : /\ objs[p].refs \subseteq objs'[p].refs
                                  /\ p # o => objs'[p].client = objs[p].client
    BY <1>2, <1>6, <2>1, RefUsed
  <2>3. InUse'
    BY <1>2, <2>2, ChangeUsed, InUseIs DEF Steady
  <2>4. FrameOK(g, objs) /\ g.pc \in {"idle", "start"} /\ (phase = "loading" => g.pc = "idle")
    <3>1. CASE phase = "loading"
      BY <1>4, <3>1
    <3>2. CASE phase # "loading"
      <4>1. Carries(f, "start", objs) /\ "start" \in (Hot \cup Await) \ Asks
        BY <1>2 DEF Carries, Await, Asks, Held
      <4>2. Found([f EXCEPT !.pc = "start"], objs) /\ [f EXCEPT !.pc = "start"].pc = "start"
        BY <1>1 DEF Found, Frames
      <4> QED
        BY <1>1, <3>2, <4>1, <4>2, LabelOK
    <3> QED
      BY <3>1, <3>2
  <2> HIDE DEF g
  <2>5. Calm(t, g)
    BY <1>1, <1>3, <2>1, <2>2, <2>4, ObjsCalm DEF Held, Starting, Asks
  <2> QED
    BY <2>3, <2>5
<1> QED
  BY <1>5, <1>6

\* The user of an instance changes; it is stopped.
LEMMA SetUser ==
    ASSUME NEW os, ObjsOK(os), NEW o \in DOMAIN os, NEW u \in Users, NEW ns,
           ns = [os EXCEPT ![o].started = FALSE, ![o].user = u]
    PROVE  ObjsOK(ns) /\ Steady(os, ns) /\ SameRefs(os, ns)
<1> DEFINE r == [os[o] EXCEPT !.started = FALSE, !.user = u]
<1>1. os[o] \in Objects /\ os \in Seq(Objects)
  BY DEF ObjsOK
<1>2. Alike(r, os[o])
  BY <1>1 DEF Alike, Objects
<1>3. ns = [os EXCEPT ![o] = r]
  BY <1>1
<1> QED
  BY <1>2, <1>3, AlikeSteady

\* remove() of the instance o from the references of its client.
LEMMA UnrefUsed ==
    ASSUME NEW os, ObjsOK(os), NEW o, Inst(os, o)
    PROVE  LET ns == Unref(os, os[o].client, o) IN
           /\ ObjsOK(ns) /\ Steady(os, ns)
           /\ \A p \in DOMAIN os :
                 /\ ns[p].client = os[p].client
                 /\ \A m \in os[p].refs : m \in ns[p].refs \/ m.key = os[o].key
<1> DEFINE ns == Unref(os, os[o].client, o)
<1>1. os[o].client = 0 \/ Cli(os, os[o].client)
  BY DEF ObjsOK, Inst
<1>2. /\ Steady(os, ns)
      /\ \A p \in DOMAIN os :
                 /\ ns[p].client = os[p].client
                 /\ ns[p].refs \subseteq os[p].refs
                 /\ \A m \in os[p].refs : m \in ns[p].refs \/ m.key = os[o].key
  BY <1>1, UnrefIs
<1> HIDE DEF ns
<1>3. ObjsOK(ns)
  BY <1>2, ChangedObjs DEF ObjsOK, Steady
<1> QED
  BY <1>2, <1>3 DEF ns

\* The instance moves from its client to c.
LEMMA Moved ==
    ASSUME NEW os, ObjsOK(os), AllUsed(os), NEW o, Inst(os, o), NEW c, Cli(os, c), NEW now,
           ObjsOK(now), Steady(os, now), SameRefs(os, now), NEW ns,
           ns = Ref(WithClient(Unref(now, os[o].client, o), o, c), c, o)
    PROVE  ObjsOK(ns) /\ Steady(os, ns) /\ AllUsed(ns)
<1> DEFINE ms == Unref(now, os[o].client, o)
<1>1. /\ DOMAIN now = DOMAIN os /\ Inst(now, o) /\ Cli(now, c) /\ o \in DOMAIN os
      /\ now[o].client = os[o].client /\ now[o].key = os[o].key
  BY KeepsOlder, OlderKinds DEF Steady, Keeps, SameRefs, Inst
<1>2. /\ ObjsOK(ms) /\ Steady(now, ms)
      /\ \A p \in DOMAIN now :
            /\ ms[p].client = now[p].client
            /\ \A m \in now[p].refs : m \in ms[p].refs \/ m.key = now[o].key
  BY <1>1, UnrefUsed
<1> HIDE DEF ms
<1>3. DOMAIN ms = DOMAIN os /\ Inst(ms, o) /\ Cli(ms, c)
  BY <1>1, <1>2, KeepsOlder, OlderKinds DEF Steady, Keeps
<1>4. /\ ObjsOK(ns) /\ Steady(ms, ns)
      /\ ns[o].client = c /\ Holds(ns, c, o)
      /\ \A p \in DOMAIN ms : /\ ms[p].refs \subseteq ns[p].refs
                              /\ p # o => ns[p].client = ms[p].client
  BY <1>2, <1>3, RefUsed DEF ms
<1>5. Steady(os, ns)
  BY <1>2, <1>4, SteadyTransitive
<1>6. \A p \in DOMAIN os :
              /\ os[p].dropped => ns[p].dropped
              /\ p # o => ns[p].client = os[p].client
              /\ \A m \in os[p].refs : m \in ns[p].refs \/ m.key = os[o].key
  BY <1>1, <1>2, <1>3, <1>4, <1>5 DEF Steady, SameRefs
<1>7. AllUsed(ns)
  BY <1>1, <1>4, <1>5, <1>6, ChangeUsed DEF Steady
<1> QED
  BY <1>4, <1>5, <1>7

\* update_primary_user() after stop().
LEMMA SwitchCalm ==
    ASSUME TInv, LoadInv, InUse, NEW t \in Tasks, Switch(t)
    PROVE  (\E f : Calm(t, f)) /\ InUse'
<1> DEFINE f == frame[t]
           o == f.obj
           c == f.got
           b == objs[o].client
           now == [objs EXCEPT ![o].started = FALSE, ![o].user = objs[c].key]
           g == [f EXCEPT !.pc = "isave"]
<1>1. FrameOK(f, objs) /\ f \in Frames /\ f.pc = "istop"
  BY Framed DEF Switch, Runs
<1>2. Inst(objs, o) /\ o \in DOMAIN objs /\ Cli(objs, c) /\ ObjsOK(objs)
  BY <1>1 DEF FrameOK, Carries, Asks, Held, Inst, TInv
<1>3. /\ UNCHANGED <<Process, row, cache, spoiled>> /\ phase # "loading"
      /\ row' \in [Keys -> Users \cup {Null}]
      /\ \A k \in Keys : row'[k] = Null <=> row[k] = Null
  BY <1>1, RowSame DEF Switch, LoadInv
<1>4. ObjsOK(now) /\ Steady(objs, now) /\ SameRefs(objs, now)
  BY <1>2, SetUser DEF Cli
<1>5. \/ objs' = now /\ Goto(t, NoFrame)
      \/ objs' = Ref(WithClient(Unref(now, b, o), o, c), c, o) /\ Goto(t, g)
  BY DEF Switch, Finish, WithClient
<1> HIDE DEF now
<1>6. CASE objs' = now /\ Goto(t, NoFrame)
  <2>1. FrameOK(NoFrame, objs) /\ NoFrame.pc = "idle"
    BY NoFrameOK DEF NoFrame, TInv, ObjsOK
  <2>2. Calm(t, NoFrame)
    BY <1>1, <1>3, <1>4, <1>6, <2>1, ObjsCalm DEF Held
  <2> QED
    BY <1>4, <1>6, <2>2, SameInUse
<1>7. CASE objs' = Ref(WithClient(Unref(now, b, o), o, c), c, o) /\ Goto(t, g)
  <2>1. ObjsOK(objs') /\ Steady(objs, objs') /\ AllUsed(objs')
    BY <1>2, <1>4, <1>7, Moved, InUseIs
  <2>2. Carries(f, "isave", objs) /\ "isave" \in (Hot \cup Await) \ Asks
    BY <1>2 DEF Carries, Await, Asks, Held
  <2>3. Found(g, objs) /\ g.pc = "isave"
    BY <1>1 DEF Found, Frames
  <2>4. FrameOK(g, objs)
    BY <1>1, <2>2, <2>3, LabelOK
  <2> HIDE DEF g
  <2>5. Calm(t, g)
    BY <1>1, <1>3, <1>7, <2>1, <2>3, <2>4, ObjsCalm DEF Held
  <2> QED
    BY <2>1, <2>5, InUseIs
<1> QED
  BY <1>5, <1>6, <1>7

\* update() of update_primary_user().
LEMMA SaveSwitchedCalm ==
    ASSUME TInv, LoadInv, InUse, NEW t \in Tasks, SaveSwitched(t)
    PROVE  (\E f : Calm(t, f)) /\ InUse'
<1> DEFINE f == frame[t]
           o == f.obj
           g == [f EXCEPT !.pc = "start"]
<1>1. FrameOK(f, objs) /\ f \in Frames /\ f.pc = "isave"
  BY Framed DEF SaveSwitched, Runs
<1>2. Inst(objs, o) /\ o \in DOMAIN objs
  BY <1>1 DEF FrameOK, Carries, Asks, Held, Inst
<1>3. UNCHANGED <<Process, cache, objs, spoiled>> /\ phase # "loading"
  BY <1>1 DEF SaveSwitched, LoadInv
<1>4. InUse'
  BY <1>3 DEF InUse
<1>5. CASE Finish(t) /\ UNCHANGED row
  <2>1. \E h : Calm(t, h)
    BY <1>1, <1>3, <1>5, FinishCalm DEF Starting
  <2> QED
    BY <1>4, <2>1
<1>6. CASE row' = Saved(o) /\ Goto(t, g)
  <2>1. Carries(f, "start", objs) /\ "start" \in (Hot \cup Await) \ Asks
    BY <1>2 DEF Carries, Await, Asks, Held
  <2>2. Found(g, objs) /\ g.pc = "start"
    BY <1>1 DEF Found, Frames
  <2>3. FrameOK(g, objs)
    BY <1>1, <2>1, <2>2, LabelOK
  <2> HIDE DEF g
  <2>4. Calm(t, g)
    BY <1>1, <1>2, <1>3, <1>6, <2>2, <2>3, SavedIs, SteadySame, ObjsCalm DEF Held, TInv
  <2> QED
    BY <1>4, <2>4
<1> QED
  BY <1>5, <1>6 DEF SaveSwitched

-----------------------------------------------------------------------------
(* Steps that make, drop or rename an object or write a row                *)

\* delete() of o up to its DELETE.
Drops(t, f, o) ==
    /\ Goto(t, f) /\ FrameOK(f, objs') /\ f.pc = "delete" /\ f.obj = o
    /\ frame[t].pc \in {"del?", "stop", "idel?", "idstop"}
    /\ o \in DOMAIN objs
    /\ ObjsOK(objs') /\ Keeps(objs, objs')
    /\ \A p \in DOMAIN objs : objs'[p].dropped <=> (objs[p].dropped \/ p = o)
    /\ cache' = [cache EXCEPT ![objs[o].key] = 0]
    /\ UNCHANGED <<Process, row, spoiled>>

\* The frame that awaits the DELETE.
LEMMA DeleteFrame ==
    ASSUME TInv, NEW t \in Tasks, NEW o \in DOMAIN objs, ObjsOK(objs'), Keeps(objs, objs')
    PROVE  LET f == [frame[t] EXCEPT !.pc = "delete", !.obj = o, !.got = 0] IN
           FrameOK(f, objs') /\ f.pc = "delete" /\ f.obj = o
<1> DEFINE f == [frame[t] EXCEPT !.pc = "delete", !.obj = o, !.got = 0]
<1>1. frame[t] \in Frames
  BY Framed
<1>2. o \in 0..MaxObjects /\ 0 \in 0..MaxObjects
  <2>1. o \in Serials
    BY Serial DEF TInv
  <2> QED
    BY <2>1, Bounds DEF Serials
<1>3. f \in Frames /\ f.pc = "delete" /\ f.obj = o /\ f.got = 0
  BY <1>1, <1>2 DEF Frames, Await
<1>4. DOMAIN objs' = DOMAIN objs
  BY KeepsOlder DEF TInv
<1>5. 0 <= Len(objs') /\ o <= Len(objs')
  BY <1>4, Numbered DEF ObjsOK
<1> HIDE DEF f
<1>6. FrameOK(f, objs')
  BY <1>3, <1>4, <1>5 DEF FrameOK, Carries, Found, Asks, Held
<1> QED
  BY <1>3, <1>6 DEF f

\* r is the object q after delete() dropped it.
Gone(r, q) ==
    /\ r \in Objects /\ r.key = q.key /\ r.old = q.old /\ r.dropped = TRUE
    /\ r.client = q.client /\ r.refs = q.refs

\* Dropping one object changes nothing else.
LEMMA SetDropped ==
    ASSUME NEW os, ObjsOK(os), NEW o \in DOMAIN os, NEW r, Gone(r, os[o]), NEW ns,
           ns = [os EXCEPT ![o] = r]
    PROVE  /\ ObjsOK(ns) /\ Keeps(os, ns) /\ SameRefs(os, ns)
           /\ \A p \in DOMAIN os : ns[p].dropped <=> (os[p].dropped \/ p = o)
<1>1. /\ ns \in Seq(Objects) /\ Len(ns) = Len(os) /\ DOMAIN ns = DOMAIN os
      /\ ns[o] = r
      /\ \A p \in DOMAIN os : p # o => ns[p] = os[p]
  BY Replace DEF ObjsOK, Gone
<1>2. Keeps(os, ns) /\ SameRefs(os, ns)
  BY <1>1 DEF Keeps, SameRefs, Gone
<1>3. \A p \in DOMAIN os : ns[p].dropped <=> (os[p].dropped \/ p = o)
  BY <1>1 DEF Gone
<1> QED
  BY <1>2, <1>3, KeepsObjs

\* Client.delete()
LEMMA DropDrops ==
    ASSUME TInv, InUse, NEW t \in Tasks, NEW o \in DOMAIN objs, Drop(t, o),
           frame[t].pc \in {"del?", "stop"}, UNCHANGED <<Process, row, spoiled>>
    PROVE  (\E f : Drops(t, f, o)) /\ InUse'
<1> DEFINE f == [frame[t] EXCEPT !.pc = "delete", !.obj = o, !.got = 0]
<1>1. /\ ObjsOK(objs') /\ Keeps(objs, objs') /\ SameRefs(objs, objs')
      /\ \A p \in DOMAIN objs : objs'[p].dropped <=> (objs[p].dropped \/ p = o)
  <2> DEFINE r == [objs[o] EXCEPT !.started = FALSE, !.dropped = TRUE]
  <2>1. ObjsOK(objs) /\ objs[o] \in Objects
    BY DEF TInv, ObjsOK
  <2>2. objs' = [objs EXCEPT ![o] = r]
    BY <2>1 DEF Drop, ObjsOK
  <2>3. Gone(r, objs[o])
    BY <2>1 DEF Gone, Objects
  <2> HIDE DEF r
  <2> QED
    BY <2>1, <2>2, <2>3, SetDropped, ZenonT(60)
<1>2. FrameOK(f, objs') /\ f.pc = "delete" /\ f.obj = o
  BY <1>1, DeleteFrame
<1>3. Goto(t, f) /\ cache' = [cache EXCEPT ![objs[o].key] = 0]
  BY DEF Drop
<1> HIDE DEF f
<1>4. Drops(t, f, o)
  BY <1>1, <1>2, <1>3 DEF Drops
<1>5. AllUsed(objs')
  BY <1>1, SameUsed, InUseIs DEF SameRefs, TInv
<1> QED
  BY <1>4, <1>5, InUseIs

\* PluginInstance.delete(), unless remove() raises.
LEMMA DropInstanceDrops ==
    ASSUME TInv, LoadInv, InUse, NEW t \in Tasks, NEW o, Inst(objs, o), DropInstance(t, o),
           frame[t].pc \in {"idel?", "idstop"}, UNCHANGED <<Process, row, spoiled>>
    PROVE  ((\E f : Calm(t, f)) \/ \E f : Drops(t, f, o)) /\ InUse'
<1> DEFINE now == [objs EXCEPT ![o].started = FALSE]
           ms == Unref(now, objs[o].client, o)
           f == [frame[t] EXCEPT !.pc = "delete", !.obj = o, !.got = 0]
<1>1. o \in DOMAIN objs /\ ObjsOK(objs) /\ objs \in Seq(Objects) /\ objs[o] \in Objects
  BY DEF Inst, TInv, ObjsOK
<1>2. ObjsOK(now) /\ Steady(objs, now) /\ SameRefs(objs, now)
  <2>1. Alike([objs[o] EXCEPT !.started = FALSE], objs[o])
    BY <1>1 DEF Alike, Objects
  <2>2. now = [objs EXCEPT ![o] = [objs[o] EXCEPT !.started = FALSE]]
    BY <1>1
  <2> QED
    BY <1>1, <2>1, <2>2, AlikeSteady
<1>3. \/ objs' = now /\ Finish(t) /\ UNCHANGED cache
      \/ /\ objs' = [ms EXCEPT ![o].dropped = TRUE]
         /\ cache' = [cache EXCEPT ![objs[o].key] = 0]
         /\ Goto(t, f)
  BY DEF DropInstance
<1> HIDE DEF now
<1>4. CASE objs' = now /\ Finish(t) /\ UNCHANGED cache
  <2>1. Goto(t, NoFrame) /\ FrameOK(NoFrame, objs) /\ NoFrame.pc = "idle"
    BY <1>1, <1>4, NoFrameOK DEF NoFrame, Finish
  <2>2. phase # "loading" /\ UNCHANGED <<Process, cache, spoiled>>
    BY <1>4 DEF LoadInv
  <2>3. Calm(t, NoFrame)
    BY <1>2, <1>4, <2>1, <2>2, RowSame, ObjsCalm DEF Held
  <2> QED
    BY <1>2, <1>4, <2>3, SameInUse
<1>5. CASE /\ objs' = [ms EXCEPT ![o].dropped = TRUE]
           /\ cache' = [cache EXCEPT ![objs[o].key] = 0]
           /\ Goto(t, f)
  <2>1. /\ DOMAIN now = DOMAIN objs /\ Inst(now, o)
        /\ now[o].client = objs[o].client /\ now[o].key = objs[o].key
    BY <1>1, <1>2, KeepsOlder, OlderKinds DEF Steady, Keeps, SameRefs
  <2>2. /\ ObjsOK(ms) /\ Steady(now, ms)
        /\ \A p \in DOMAIN now :
              /\ ms[p].client = now[p].client
              /\ \A m \in now[p].refs : m \in ms[p].refs \/ m.key = now[o].key
    BY <1>2, <2>1, UnrefUsed
  <2> HIDE DEF ms
  <2>3. DOMAIN ms = DOMAIN objs
    BY <1>2, <2>1, <2>2, KeepsOlder DEF Steady
  <2>4. ms[o] \in Objects /\ ms \in Seq(Objects)
    BY <1>1, <2>2, <2>3 DEF ObjsOK
  <2> DEFINE r == [ms[o] EXCEPT !.dropped = TRUE]
  <2>5. Gone(r, ms[o])
    BY <2>4 DEF Gone, Objects
  <2>6. objs' = [ms EXCEPT ![o] = r]
    BY <1>1, <1>5, <2>3, <2>4
  <2> HIDE DEF r
  <2>7. /\ ObjsOK(objs') /\ Keeps(ms, objs') /\ SameRefs(ms, objs')
        /\ \A p \in DOMAIN ms : objs'[p].dropped <=> (ms[p].dropped \/ p = o)
    BY <1>1, <2>2, <2>3, <2>5, <2>6, SetDropped
  <2>8. Steady(objs, ms)
    BY <1>1, <1>2, <2>2, SteadyTransitive
  <2>9. /\ Keeps(objs, objs')
        /\ \A p \in DOMAIN objs : objs'[p].dropped <=> (objs[p].dropped \/ p = o)
    BY <1>1, <2>3, <2>7, <2>8 DEF Keeps, Steady
  <2>10. FrameOK(f, objs') /\ f.pc = "delete" /\ f.obj = o
    BY <1>1, <2>7, <2>9, DeleteFrame
  <2> HIDE DEF f
  <2>11. Drops(t, f, o)
    BY <1>1, <1>5, <2>7, <2>9, <2>10 DEF Drops
  <2>12. \A p \in DOMAIN objs :
              /\ objs[p].dropped => objs'[p].dropped
              /\ p # o => objs'[p].client = objs[p].client
              /\ \A m \in objs[p].refs : m \in objs'[p].refs \/ m.key = objs[o].key
    BY <1>2, <2>1, <2>2, <2>3, <2>7, <2>9 DEF SameRefs
  <2>13. AllUsed(objs')
    BY <1>1, <2>9, <2>12, ChangeUsed, InUseIs
  <2> QED
    BY <2>11, <2>13, InUseIs
<1> QED
  BY <1>3, <1>4, <1>5

\* The deletions of clients and instances.
LEMMA DeletionSteps ==
    ASSUME TInv, LoadInv, InUse, NEW t \in Tasks,
           \/ DeleteOrNot(t) \/ DeleteStopped(t)
           \/ DeleteInstanceOrNot(t) \/ DeleteInstanceStopped(t)
    PROVE  ((\E f : Calm(t, f)) \/ \E f, o : Drops(t, f, o)) /\ InUse'
<1> DEFINE f == frame[t]
<1>0. FrameOK(f, objs) /\ f \in Frames
  BY Framed
<1>1. CASE DeleteOrNot(t)
  <2>1. f.pc = "del?" /\ (f.got = 0 \/ Cli(objs, f.got)) /\ UNCHANGED <<Process, row, spoiled>>
    BY <1>0, <1>1 DEF DeleteOrNot, Runs, FrameOK, Found, Asks, Held
  <2>2. CASE Finish(t) /\ UNCHANGED <<cache, objs>>
    <3>1. \E g : Calm(t, g)
      BY <2>1, <2>2, FinishCalm DEF Starting
    <3> QED
      BY <2>2, <3>1 DEF InUse
  <2>3. CASE /\ f.got # 0 /\ Goto(t, [f EXCEPT !.pc = "stop", !.obj = f.got])
             /\ UNCHANGED <<cache, objs>>
    <3>1. \E g : Calm(t, g)
      BY <2>1, <2>3, StopCalm
    <3> QED
      BY <2>3, <3>1 DEF InUse
  <2>4. CASE f.got # 0 /\ Drop(t, f.got)
    BY <2>1, <2>4, DropDrops DEF Cli
  <2> QED
    BY <1>1, <2>2, <2>3, <2>4 DEF DeleteOrNot
<1>2. CASE DeleteStopped(t)
  <2>1. f.pc = "stop" /\ f.obj \in DOMAIN objs
    BY <1>0, <1>2 DEF DeleteStopped, Runs, FrameOK, Carries, Asks, Held
  <2> QED
    BY <1>2, <2>1, DropDrops DEF DeleteStopped
<1>3. CASE DeleteInstanceOrNot(t)
  <2>1. f.pc = "idel?" /\ (f.got = 0 \/ Inst(objs, f.got)) /\ UNCHANGED <<Process, row, spoiled>>
    BY <1>0, <1>3 DEF DeleteInstanceOrNot, Runs, FrameOK, Found, Asks, Held
  <2>2. CASE Finish(t) /\ UNCHANGED <<cache, objs>>
    <3>1. \E g : Calm(t, g)
      BY <2>1, <2>2, FinishCalm DEF Starting
    <3> QED
      BY <2>2, <3>1 DEF InUse
  <2>3. CASE /\ f.got # 0 /\ Goto(t, [f EXCEPT !.pc = "idstop", !.obj = f.got])
             /\ UNCHANGED <<cache, objs>>
    <3>1. \E g : Calm(t, g)
      BY <2>1, <2>3, StopCalm
    <3> QED
      BY <2>3, <3>1 DEF InUse
  <2>4. CASE f.got # 0 /\ DropInstance(t, f.got)
    BY <2>1, <2>4, DropInstanceDrops
  <2> QED
    BY <1>3, <2>2, <2>3, <2>4 DEF DeleteInstanceOrNot
<1>4. CASE DeleteInstanceStopped(t)
  <2>1. f.pc = "idstop" /\ Inst(objs, f.obj)
    BY <1>0, <1>4 DEF DeleteInstanceStopped, Runs, FrameOK, Carries, Asks, Held
  <2> QED
    BY <1>4, <2>1, DropInstanceDrops DEF DeleteInstanceStopped
<1> QED
  BY <1>1, <1>2, <1>3, <1>4

\* A new object.
Fresh(r, k) ==
    /\ r \in Objects /\ r.key = k
    /\ r.client = 0 /\ r.refs = {} /\ ~r.dropped /\ r.old = {}

\* What postinit() makes is new.
LEMMA ObjectIs ==
    ASSUME NEW k \in Keys, NEW u \in Users
    PROVE  Fresh(Object(k, u), k)
BY Bounds DEF Object, Objects, Fresh

\* get() for k returns a new object.
Publishes(t, f, k) ==
    /\ Goto(t, f) /\ FrameOK(f, objs') /\ f.pc \notin Asks \cup {"delete"}
    /\ phase = "loading" => f.pc \in Starting
    /\ frame[t].pc \in {"got", "inserted"} /\ frame[t].key = k /\ k \in Keys
    /\ ObjsOK(objs') /\ Len(objs') = Len(objs) + 1
    /\ \A o \in DOMAIN objs : objs'[o] = objs[o]
    /\ Fresh(objs'[Len(objs) + 1], k)
    /\ cache' = [cache EXCEPT ![k] = Len(objs) + 1]
    /\ spoiled' = IF row[k] = Null THEN spoiled \cup {k} ELSE spoiled
    /\ UNCHANGED <<Process, row>>

\* It is added to the others.
Adds(os, ns, r) ==
    /\ ns \in Seq(Objects) /\ Len(ns) = Len(os) + 1 /\ Len(ns) <= MaxObjects
    /\ \A o \in DOMAIN os : ns[o] = os[o]
    /\ ns[Len(os) + 1] = r

\* There is one object more.
Spans(os, ns) == DOMAIN ns = DOMAIN os \cup {Len(os) + 1} /\ Len(os) + 1 \notin DOMAIN os

\* The others stay as they are.
LEMMA AddedIs ==
    ASSUME NEW os, ObjsOK(os), NEW k, NEW r, Fresh(r, k), NEW ns, Adds(os, ns, r)
    PROVE  ObjsOK(ns) /\ Older(os, ns) /\ Spans(os, ns)
<1>0. os \in Seq(Objects) /\ r \in Objects /\ Len(os) \in Nat
  BY DEF ObjsOK, Fresh
<1>1. /\ ns \in Seq(Objects) /\ Len(ns) = Len(os) + 1
      /\ \A o \in DOMAIN os : ns[o] = os[o]
      /\ ns[Len(os) + 1] = r
      /\ DOMAIN ns = DOMAIN os \cup {Len(os) + 1} /\ Len(os) + 1 \notin DOMAIN os
  BY <1>0 DEF Adds
<1>2. Older(os, ns)
  BY <1>0, <1>1 DEF Older
<1>3. ASSUME NEW o \in DOMAIN ns
      PROVE  /\ ns[o].client # 0 => Cli(ns, ns[o].client)
             /\ \A m \in ns[o].refs : m.obj \in DOMAIN ns
  <2>1. CASE o \in DOMAIN os
    BY <1>1, <1>2, <2>1, OlderKinds DEF ObjsOK
  <2>2. CASE o = Len(os) + 1
    BY <1>1, <2>2 DEF Fresh
  <2> QED
    BY <1>1, <2>1, <2>2
<1> QED
  BY <1>1, <1>2, <1>3 DEF ObjsOK, Spans, Adds

\* Nobody refers to a new object.
LEMMA AddedUsed ==
    ASSUME NEW os, ObjsOK(os), AllUsed(os), NEW k, NEW r, Fresh(r, k), NEW ns,
           Adds(os, ns, r)
    PROVE  AllUsed(ns)
<1>1. /\ \A o \in DOMAIN os : ns[o] = os[o]
      /\ ns[Len(os) + 1] = r
      /\ DOMAIN ns = DOMAIN os \cup {Len(os) + 1}
  BY AddedIs DEF Adds, Spans
<1>2. Renamed(os) => Renamed(ns)
  BY <1>1 DEF Renamed
<1>3. ASSUME NEW o \in DOMAIN os, ns[o].client # 0, ~ns[o].dropped
      PROVE  Holds(ns, ns[o].client, o) \/ Renamed(ns)
  <2>1. Holds(os, os[o].client, o) \/ Renamed(os)
    BY <1>1, <1>3 DEF AllUsed, Used
  <2>2. os[o].client \in DOMAIN os
    BY <1>1, <1>3 DEF ObjsOK, Cli
  <2>3. Twin(os, o) => Twin(ns, o)
    BY <1>1 DEF Twin
  <2> QED
    BY <1>1, <1>2, <2>1, <2>2, <2>3 DEF Holds
<1> QED
  BY <1>1, <1>3 DEF AllUsed, Used, Fresh

\* The steps that publish.
LEMMA PublishIs ==
    ASSUME TInv, LoadInv, InUse, NEW t \in Tasks, NEW u \in Users,
           frame[t].pc \in {"got", "inserted"}, Publish(t, frame[t].key, u),
           UNCHANGED <<Process, row>>,
           spoiled' = IF row[frame[t].key] = Null THEN spoiled \cup {frame[t].key} ELSE spoiled
    PROVE  (\E f : Publishes(t, f, frame[t].key)) /\ InUse'
<1> DEFINE g == frame[t]
           k == g.key
           n == Len(objs) + 1
           f == Return(g, n)
<1>1. /\ FrameOK(g, objs) /\ g \in Frames /\ Asking(g) /\ k \in Keys
      /\ Carries(g, g.ret, objs) /\ ObjsOK(objs)
  BY Framed DEF FrameOK, Asks, Held, Asking, TInv
<1>2. Fresh(Object(k, u), k)
  BY <1>1, ObjectIs
<1>3. /\ Adds(objs, objs', Object(k, u))
      /\ cache' = [cache EXCEPT ![k] = n] /\ Goto(t, f)
  BY <1>1, <1>2, Bounds DEF Publish, Adds, ObjsOK, Fresh
<1>4. /\ ObjsOK(objs') /\ Len(objs') = Len(objs) + 1 /\ Older(objs, objs')
      /\ \A o \in DOMAIN objs : objs'[o] = objs[o]
      /\ objs'[n] = Object(k, u)
      /\ DOMAIN objs' = DOMAIN objs \cup {n}
  <2> DEFINE r == Object(k, u)
  <2>1. Adds(objs, objs', r) /\ Fresh(r, k) /\ ObjsOK(objs)
    BY <1>1, <1>2, <1>3
  <2> HIDE DEF r, k
  <2>2. ObjsOK(objs') /\ Older(objs, objs') /\ Spans(objs, objs')
    BY <2>1, AddedIs
  <2>3. /\ Len(objs') = Len(objs) + 1 /\ objs'[n] = r
        /\ \A o \in DOMAIN objs : objs'[o] = objs[o]
    BY <2>1 DEF Adds
  <2>4. DOMAIN objs' = DOMAIN objs \cup {n}
    BY <2>2 DEF Spans
  <2> QED
    BY <2>2, <2>3, <2>4 DEF r
<1>5. objs'[n].key = k /\ Fresh(objs'[n], k) /\ n # 0
  BY <1>1, <1>2, <1>4 DEF ObjsOK, Fresh
<1>6. FrameOK(g, objs')
  BY <1>1, <1>4, FrameKept DEF ObjsOK
<1>7. FrameOK(f, objs')
  BY <1>4, <1>5, <1>6, ReturnOK DEF Asks, Held
<1>8. f.pc = g.ret /\ g.ret \in Hot
  BY <1>1, FrameTyped DEF Return, Frames
<1>9. phase = "loading" => g.ret = "iload"
  BY DEF LoadInv, Asks, Held
<1>10. AllUsed(objs')
  BY <1>1, <1>2, <1>3, AddedUsed, InUseIs
<1> HIDE DEF f
<1>11. Publishes(t, f, k)
  BY <1>1, <1>3, <1>4, <1>5, <1>7, <1>8, <1>9
     DEF Publishes, Hot, Asks, Held, Starting
<1> QED
  BY <1>10, <1>11, InUseIs

\* The two steps that end with postinit().
PublishStep(t) == (GetRow(t) /\ frame[t].val # Null) \/ GetInserted(t)

\* get() makes an object from the row it read or inserted.
LEMMA PublishSteps ==
    ASSUME TInv, LoadInv, InUse, NEW t \in Tasks, PublishStep(t)
    PROVE  (\E f : Publishes(t, f, frame[t].key)) /\ InUse'
<1>1. FrameOK(frame[t], objs) /\ frame[t].val \in Users \cup {Null}
  BY Framed, FrameTyped
<1>2. CASE GetRow(t) /\ frame[t].val # Null
  <2>1. frame[t].val \in Users
    BY <1>1, <1>2
  <2> QED
    BY <1>2, <2>1, PublishIs DEF GetRow, Runs, Process
<1>3. CASE GetInserted(t)
  <2>1. frame[t].val \in Users /\ frame[t].pc = "inserted"
    BY <1>1, <1>3 DEF GetInserted, Runs, FrameOK, Asking, Asks, Held
  <2> QED
    BY <1>3, <2>1, PublishIs DEF GetInserted
<1> QED
  BY <1>2, <1>3 DEF PublishStep

\* The INSERT.
Inserts(t, f) ==
    /\ Goto(t, f) /\ FrameOK(f, objs) /\ f.pc = "inserted"
    /\ frame[t].pc = "insert" /\ f.key = frame[t].key /\ f.key \in Keys
    /\ row' \in [Keys -> Users \cup {Null}] /\ row'[f.key] # Null
    /\ \A k \in Keys \ {f.key} : row'[k] = row[k]
    /\ UNCHANGED <<Process, cache, objs, spoiled>>

\* get() inserts a row, or the INSERT is refused.
LEMMA InsertStep ==
    ASSUME TInv, LoadInv, NEW t \in Tasks, GetInsert(t)
    PROVE  (\E f : Calm(t, f)) \/ \E f : Inserts(t, f)
<1> DEFINE g == frame[t]
           k == g.key
           u == IF k \in Users THEN k ELSE g.user
           f == [g EXCEPT !.pc = "inserted", !.val = u]
<1>1. /\ FrameOK(g, objs) /\ g \in Frames /\ g.pc = "insert" /\ Asking(g)
      /\ Carries(g, g.ret, objs)
  BY Framed DEF GetInsert, Runs, FrameOK, Asks, Held
<1>2. k \in Keys /\ u \in Users /\ Null \notin Users
  BY <1>1, TasksAssumption DEF Asking, Carries
<1>3. CASE Finish(t) /\ UNCHANGED row
  BY <1>3, GetRefusedCalm
<1>4. CASE row' = [row EXCEPT ![k] = u] /\ Goto(t, f)
  <2> HIDE DEF u
  <2>1. /\ f \in Frames /\ f.pc = "inserted" /\ f.key = k /\ f.ret = g.ret /\ f.make = g.make
        /\ f.val = u /\ f.got = g.got /\ f.obj = g.obj /\ f.id = g.id /\ f.user = g.user
        /\ f.new = g.new
    BY <1>1, <1>2 DEF Frames, Await
  <2> HIDE DEF f
  <2>2. FrameOK(f, objs)
    BY <1>1, <1>2, <2>1 DEF FrameOK, Asking, Asks, Held, Carries
  <2>3. /\ row' \in [Keys -> Users \cup {Null}] /\ row'[f.key] # Null
        /\ \A j \in Keys \ {f.key} : row'[j] = row[j]
    BY <1>2, <1>4, <2>1 DEF TInv, StateOK
  <2> QED
    BY <1>1, <1>2, <1>4, <2>1, <2>2, <2>3 DEF Inserts, GetInsert
<1> QED
  BY <1>3, <1>4 DEF GetInsert

\* The DELETE.
Deletes(t, k) ==
    /\ Goto(t, NoFrame)
    /\ frame[t].pc = "delete" /\ frame[t].obj \in DOMAIN objs
    /\ k = objs[frame[t].obj].key /\ k \in Keys
    /\ row' \in [Keys -> Users \cup {Null}]
    /\ \A j \in Keys \ {k} : row'[j] = row[j]
    /\ \/ row'[k] = Null /\ cache[k] \in {0, frame[t].obj} /\ spoiled' = spoiled
       \/ spoiled' = spoiled \cup {k}
    /\ UNCHANGED <<Process, cache, objs>>

\* The DELETE takes the row, or the foreign key refuses it.
LEMMA DeleteStep ==
    ASSUME TInv, NEW t \in Tasks, DeleteRow(t)
    PROVE  \E k : Deletes(t, k)
<1> DEFINE k == objs[frame[t].obj].key
<1>1. frame[t].pc = "delete" /\ frame[t].obj \in DOMAIN objs
  BY Framed DEF DeleteRow, Runs, FrameOK, Carries, Asks, Held
<1>2. k \in Keys
  BY <1>1, Numbered, ObjectTyped DEF TInv, ObjsOK
<1>3. row \in [Keys -> Users \cup {Null}]
  BY DEF TInv, StateOK
<1>4. Deletes(t, k)
  BY <1>1, <1>2, <1>3 DEF Deletes, DeleteRow, Finish
<1> QED
  BY <1>4

\* The UPDATE that gives the instance o the id n.
Renames(t, o, n) ==
    /\ Goto(t, NoFrame)
    /\ frame[t].pc = "rename" /\ Inst(objs, o) /\ n \in Ids
    /\ ObjsOK(objs') /\ Len(objs') = Len(objs)
    /\ \A p \in DOMAIN objs \ {o} : objs'[p] = objs[p]
    /\ objs'[o].key = n /\ objs'[o].old = objs[o].old \cup {objs[o].key}
    /\ row' \in [Keys -> Users \cup {Null}]
    /\ \A k \in Keys \ {objs[o].key, n} : row'[k] = row[k]
    /\ spoiled' = spoiled \cup {objs[o].key, n}
    /\ UNCHANGED <<Process, cache>>

\* r is the instance q under another id.
Retitled(r, q) ==
    r \in Objects /\ r.key \in Ids /\ r.client = q.client /\ r.refs = q.refs

\* The objects stay good when an instance takes another id.
LEMMA SetKey ==
    ASSUME NEW os, ObjsOK(os), NEW o, Inst(os, o), NEW r, Retitled(r, os[o]), NEW ns,
           ns = [os EXCEPT ![o] = r]
    PROVE  ObjsOK(ns)
<1>1. o \in DOMAIN os /\ os \in Seq(Objects) /\ os[o].key \in Ids
  BY DEF Inst, ObjsOK
<1>2. /\ ns \in Seq(Objects) /\ Len(ns) = Len(os) /\ DOMAIN ns = DOMAIN os
      /\ ns[o] = r
      /\ \A p \in DOMAIN os : p # o => ns[p] = os[p]
  BY <1>1, Replace DEF Retitled
<1>3. Older(os, ns)
  <2>1. r.key \notin Users /\ os[o].key \notin Users
    BY <1>1, TasksAssumption DEF Retitled
  <2> QED
    BY <1>1, <1>2, <2>1 DEF Older
<1>4. ASSUME NEW p \in DOMAIN os, ns[p].client # 0 PROVE Cli(ns, ns[p].client)
  <2>1. ns[p].client = os[p].client
    BY <1>2 DEF Retitled
  <2> QED
    BY <1>2, <1>3, <1>4, <2>1, OlderKinds DEF ObjsOK
<1>5. \A p \in DOMAIN os : \A m \in ns[p].refs : m.obj \in DOMAIN os
  BY <1>2 DEF ObjsOK, Retitled
<1> QED
  BY <1>2, <1>4, <1>5 DEF ObjsOK

\* The object and its row take the new id, or the UPDATE is refused.
LEMMA RenameStep ==
    ASSUME TInv, LoadInv, InUse, NEW t \in Tasks, Rename(t)
    PROVE  ((\E f : Calm(t, f)) \/ \E o, n : Renames(t, o, n)) /\ InUse'
<1> DEFINE f == frame[t]
           o == f.obj
           k == objs[o].key
           n == f.new
           r == [objs[o] EXCEPT !.key = n, !.old = @ \cup {k}]
<1>1. FrameOK(f, objs) /\ f \in Frames /\ f.pc = "rename"
  BY Framed DEF Rename, Runs
<1>2. Inst(objs, o) /\ o \in DOMAIN objs /\ n \in Ids /\ n \in Keys /\ k \in Keys
  BY <1>1 DEF FrameOK, Carries, Asks, Held, Inst, Keys
<1>3. objs \in Seq(Objects) /\ objs[o] \in Objects /\ ObjsOK(objs)
  BY <1>2 DEF TInv, ObjsOK
<1>4. CASE UNCHANGED <<row, objs, spoiled>>
  <2>1. Finish(t) /\ UNCHANGED <<Process, row, cache, objs, spoiled>>
    BY <1>4 DEF Rename
  <2>2. \E g : Calm(t, g)
    BY <1>1, <2>1, FinishCalm DEF Starting
  <2> QED
    BY <1>4, <2>2 DEF InUse
<1>5. CASE /\ row' = IF row[k] = Null THEN row ELSE [row EXCEPT ![k] = Null, ![n] = row[k]]
           /\ objs' = [objs EXCEPT ![o].key = n, ![o].old = @ \cup {k}]
           /\ spoiled' = spoiled \cup {k, n}
  <2>1. /\ r \in Objects /\ r.key = n /\ r.old = objs[o].old \cup {k}
        /\ r.client = objs[o].client /\ r.refs = objs[o].refs
    BY <1>2, <1>3 DEF Objects
  <2>2. objs' = [objs EXCEPT ![o] = r]
    BY <1>2, <1>3, <1>5
  <2> HIDE DEF r
  <2>3. /\ ObjsOK(objs') /\ Len(objs') = Len(objs) /\ objs'[o] = r
        /\ \A p \in DOMAIN objs \ {o} : objs'[p] = objs[p]
    <3>1. Retitled(r, objs[o])
      BY <1>2, <2>1 DEF Retitled
    <3>2. ObjsOK(objs')
      BY <1>2, <1>3, <2>2, <3>1, SetKey
    <3>3. /\ Len(objs') = Len(objs) /\ objs'[o] = r
          /\ \A p \in DOMAIN objs : p # o => objs'[p] = objs[p]
      BY <1>2, <1>3, <2>1, <2>2, Replace
    <3> QED
      BY <3>2, <3>3
  <2>4. /\ row' \in [Keys -> Users \cup {Null}]
        /\ \A j \in Keys \ {k, n} : row'[j] = row[j]
    BY <1>2, <1>5 DEF TInv, StateOK
  <2>5. Renames(t, o, n)
    BY <1>1, <1>2, <1>5, <2>1, <2>3, <2>4 DEF Renames, Rename, Finish
  <2>6. Renamed(objs')
    <3>1. o \in DOMAIN objs'
      BY <1>2, <1>3, <2>3, Numbered DEF ObjsOK
    <3> QED
      BY <2>1, <2>3, <3>1 DEF Renamed
  <2>7. InUse'
    BY <2>6, InUseIs DEF AllUsed, Used
  <2> QED
    BY <2>5, <2>7
<1> QED
  BY <1>4, <1>5 DEF Rename

-----------------------------------------------------------------------------
(* Each kind of step keeps the tables, the caches and the locks in order   *)

\* The invariant without the types and the references.
Tables == LoadInv /\ LockInv /\ OwnInv /\ DropInv /\ CachedInv /\ RowInv

\* The frames after a step of t.
LEMMA GotoIs ==
    ASSUME TInv, NEW t \in Tasks, NEW f, Goto(t, f)
    PROVE  /\ frame'[t] = f
           /\ \A s \in Tasks \ {t} : frame'[s] = frame[s]
BY DEF TInv, FramesOK, Goto

\* What tasks hold: a key inside get(), an object before its DELETE.
LEMMA HeldKey ==
    ASSUME TInv, NEW t \in Tasks
    PROVE  /\ frame[t].pc \in Held => frame[t].key \in Keys
           /\ frame[t].pc = "delete" => /\ frame[t].obj \in DOMAIN objs
                                        /\ objs[frame[t].obj].key \in Keys
<1>1. FrameOK(frame[t], objs)
  BY Framed
<1>2. frame[t].pc \in Held => frame[t].key \in Keys
  BY <1>1 DEF FrameOK, Asks, Asking
<1>3. frame[t].pc = "delete" => frame[t].obj \in DOMAIN objs
  BY <1>1 DEF FrameOK, Asks, Held, Carries
<1> QED
  BY <1>2, <1>3, Numbered, ObjectTyped DEF TInv, ObjsOK

\* What was deleted or renamed stays so.
Grown(os, ns) ==
    \A o \in DOMAIN os :
        /\ o \in DOMAIN ns
        /\ os[o].dropped => ns[o].dropped
        /\ {os[o].key} \cup os[o].old \subseteq {ns[o].key} \cup ns[o].old
        /\ os[o].old # {} => ns[o].old # {}

\* An id that was deleted or renamed stays so.
LEMMA MarkedKept ==
    ASSUME NEW os, NEW ns, Grown(os, ns), NEW k, Marked(os, k)
    PROVE  Marked(ns, k)
<1>1. PICK o \in DOMAIN os : /\ k \in {os[o].key} \cup os[o].old
                             /\ os[o].dropped \/ os[o].old # {}
  BY DEF Marked
<1>2. /\ o \in DOMAIN ns /\ k \in {ns[o].key} \cup ns[o].old
      /\ ns[o].dropped \/ ns[o].old # {}
  BY <1>1 DEF Grown
<1> QED
  BY <1>2 DEF Marked

\* A step that neither makes nor drops an object nor writes a row.
LEMMA CalmTables ==
    ASSUME TInv, Tables, NEW t \in Tasks, NEW f, Calm(t, f)
    PROVE  TInv' /\ Tables'
<1>1. /\ frame'[t] = f /\ \A s \in Tasks \ {t} : frame'[s] = frame[s]
      /\ UNCHANGED <<phase, cache, spoiled>>
  BY GotoIs DEF Calm
<1>2. /\ DOMAIN objs' = DOMAIN objs /\ Older(objs, objs') /\ ObjsOK(objs')
      /\ \A o \in DOMAIN objs : /\ objs'[o].key = objs[o].key
                                /\ objs'[o].dropped = objs[o].dropped
                                /\ objs'[o].old = objs[o].old
  BY KeepsOlder DEF Calm, Steady, Keeps, TInv
<1>3. TInv'
  <2>1. CacheOK(cache', objs')
    BY <1>1, <1>2, CacheKept DEF TInv, ObjsOK
  <2> QED
    BY <1>2, <2>1, Went DEF Calm
<1>4. LoadInv'
  <2>1. ASSUME phase = "loading", NEW s \in Tasks
        PROVE  /\ frame'[s].pc \in Starting
               /\ frame'[s].pc \in Asks => frame'[s].ret = "iload"
    BY <1>1, <2>1 DEF Calm, Tables, LoadInv, Starting
  <2> QED
    BY <1>1, <1>2, <2>1 DEF Tables, LoadInv, Starting
<1>5. LockInv'
  <2>1. ASSUME NEW s \in Tasks \ {t}, frame[s].pc \in Held, f.pc \in Held
        PROVE  frame[s].key # f.key
    BY <2>1 DEF Calm, LockFree, Tables, LockInv, Held
  <2>2. f.pc \in Held => cache[f.key] = 0
    BY DEF Calm, Tables, LockInv
  <2> QED
    BY <1>1, <2>1, <2>2 DEF Tables, LockInv
<1>6. OwnInv'
  <2>1. Grown(objs, objs')
    BY <1>2 DEF Grown
  <2> QED
    BY <1>1, <1>2, <2>1, MarkedKept DEF Tables, OwnInv
<1>7. DropInv'
  BY <1>1, <1>2, HeldKey DEF Tables, DropInv, Calm
<1>8. CachedInv'
  BY <1>1 DEF Calm, Tables, CachedInv
<1>9. RowInv'
  <2>1. ASSUME NEW k \in Keys \ spoiled, row'[k] # Null, Known(k)', cache[k] = 0
        PROVE  \E s \in Tasks : Dropping(s, k)' \/ Inserted(s, k)'
    <3>1. row[k] # Null /\ Known(k)
      BY <1>1, <2>1 DEF Calm, Known
    <3>2. PICK s \in Tasks : Dropping(s, k) \/ Inserted(s, k)
      BY <2>1, <3>1 DEF Tables, RowInv
    <3>3. s # t /\ frame'[s] = frame[s]
      BY <1>1, <3>2 DEF Dropping, Inserted, Calm
    <3>4. Dropping(s, k)' \/ Inserted(s, k)'
      BY <1>2, <3>2, <3>3, HeldKey DEF Dropping, Inserted
    <3> QED
      BY <3>4
  <2> QED
    BY <1>1, <2>1 DEF RowInv
<1> QED
  BY <1>3, <1>4, <1>5, <1>6, <1>7, <1>8, <1>9 DEF Tables

\* A step that drops an object.
LEMMA DropsTables ==
    ASSUME TInv, Tables, NEW t \in Tasks, NEW f, NEW o, Drops(t, f, o)
    PROVE  TInv' /\ Tables'
<1> DEFINE k == objs[o].key
<1>1. /\ frame'[t] = f /\ \A s \in Tasks \ {t} : frame'[s] = frame[s]
      /\ UNCHANGED <<phase, calls, row, spoiled>> /\ f.pc = "delete" /\ f.obj = o
      /\ o \in DOMAIN objs /\ phase # "loading"
  BY GotoIs DEF Drops, Process, Tables, LoadInv
<1>2. /\ DOMAIN objs' = DOMAIN objs /\ Older(objs, objs') /\ ObjsOK(objs')
      /\ \A p \in DOMAIN objs : /\ objs'[p].key = objs[p].key
                                /\ objs'[p].old = objs[p].old
                                /\ objs[p].dropped \/ p = o => objs'[p].dropped
  BY KeepsOlder DEF Drops, Keeps, TInv
<1>3. /\ cache' \in [Keys -> 0..MaxObjects] /\ k \in Keys
      /\ cache'[k] = 0 /\ \A j \in Keys \ {k} : cache'[j] = cache[j]
  <2>1. k \in Keys /\ 0 \in 0..MaxObjects
    BY <1>1, Numbered, ObjectTyped, Bounds DEF TInv, ObjsOK
  <2> QED
    BY <2>1 DEF Drops, TInv, CacheOK
<1> HIDE DEF k
<1>4. TInv'
  <2>1. CacheOK(cache, objs')
    BY <1>2, CacheKept DEF TInv, ObjsOK
  <2>2. CacheOK(cache', objs')
    BY <1>3, <2>1 DEF CacheOK
  <2>3. StateOK'
    BY <1>1 DEF TInv, StateOK
  <2> QED
    BY <1>2, <2>2, <2>3, Went DEF Drops
<1>5. LoadInv'
  BY <1>1 DEF LoadInv
<1>6. LockInv'
  BY <1>1, <1>3, HeldKey DEF Tables, LockInv, Held
<1>7. OwnInv'
  <2>1. Grown(objs, objs')
    BY <1>2 DEF Grown
  <2>2. Marked(objs', k)
    BY <1>1, <1>2 DEF Marked, k
  <2>3. ASSUME NEW p \in DOMAIN objs PROVE objs[p].key \in Keys
    BY Numbered, ObjectTyped DEF TInv, ObjsOK
  <2>4. ASSUME NEW p \in DOMAIN objs, objs[p].key # k
        PROVE  Marked(objs', objs[p].key) \/ cache'[objs[p].key] = p
    BY <1>3, <2>1, <2>3, <2>4, MarkedKept DEF Tables, OwnInv
  <2> QED
    BY <1>2, <2>2, <2>4 DEF OwnInv
<1>8. DropInv'
  <2>1. o # 0 /\ k = objs[o].key /\ objs'[o].key = k
    BY <1>1, <1>2, Numbered DEF k, TInv, ObjsOK
  <2>2. ASSUME NEW s \in Tasks \ {t}, frame[s].pc = "delete"
        PROVE  \/ objs[frame[s].obj].key \in spoiled
               \/ cache'[objs[frame[s].obj].key] # frame[s].obj
    <3>1. frame[s].obj # 0
      BY <2>2, HeldKey, Numbered DEF TInv, ObjsOK
    <3> QED
      BY <1>3, <2>2, <3>1, HeldKey DEF Tables, DropInv
  <2> QED
    BY <1>1, <1>2, <1>3, <2>1, <2>2, HeldKey DEF DropInv
<1>9. CachedInv'
  BY <1>1, <1>3 DEF Tables, CachedInv
<1>10. RowInv'
  <2>1. ASSUME NEW j \in Keys \ spoiled, row[j] # Null, Known(j), cache'[j] = 0
        PROVE  \E s \in Tasks : Dropping(s, j)' \/ Inserted(s, j)'
    <3>1. CASE j = k
      <4>1. Dropping(t, j)'
        BY <1>1, <1>2, <3>1 DEF Dropping, k
      <4> QED
        BY <4>1
    <3>2. CASE j # k
      <4>1. PICK s \in Tasks : Dropping(s, j) \/ Inserted(s, j)
        BY <1>3, <2>1, <3>2 DEF Tables, RowInv
      <4>2. s # t /\ frame'[s] = frame[s]
        BY <1>1, <4>1 DEF Dropping, Inserted, Drops
      <4>3. Dropping(s, j)' \/ Inserted(s, j)'
        BY <1>2, <4>1, <4>2, HeldKey DEF Dropping, Inserted
      <4> QED
        BY <4>3
    <3> QED
      BY <3>1, <3>2
  <2> QED
    BY <1>1, <2>1 DEF RowInv, Known
<1> QED
  BY <1>4, <1>5, <1>6, <1>7, <1>8, <1>9, <1>10 DEF Tables

\* get() returns a new object.
LEMMA PublishesTables ==
    ASSUME TInv, Tables, NEW t \in Tasks, NEW f, NEW k, Publishes(t, f, k)
    PROVE  TInv' /\ Tables'
<1> DEFINE n == Len(objs) + 1
<1>1. /\ frame'[t] = f /\ \A s \in Tasks \ {t} : frame'[s] = frame[s]
      /\ UNCHANGED <<phase, calls, row>> /\ f.pc \notin Asks \cup {"delete"}
      /\ frame[t].pc \in Held /\ frame[t].pc # "delete" /\ frame[t].key = k /\ k \in Keys
      /\ spoiled' = IF row[k] = Null THEN spoiled \cup {k} ELSE spoiled
  BY GotoIs DEF Publishes, Process, Held
<1>2. /\ DOMAIN objs' = DOMAIN objs \cup {n} /\ ObjsOK(objs') /\ n \notin DOMAIN objs
      /\ \A o \in DOMAIN objs : objs'[o] = objs[o]
      /\ Older(objs, objs') /\ n # 0 /\ n \in 0..MaxObjects
  <2>1. /\ Len(objs) \in Nat /\ DOMAIN objs = 1..Len(objs) /\ Len(objs') = n
        /\ DOMAIN objs' = 1..n /\ n <= MaxObjects
    BY DEF Publishes, TInv, ObjsOK
  <2>2. \A o \in DOMAIN objs : objs'[o] = objs[o]
    BY DEF Publishes
  <2> QED
    BY <2>1, <2>2, Bounds DEF Publishes, Older
<1>3. /\ objs'[n].key = k /\ ~objs'[n].dropped /\ objs'[n].old = {}
  BY DEF Publishes, Fresh
<1>4. /\ cache' \in [Keys -> 0..MaxObjects]
      /\ cache'[k] = n /\ \A j \in Keys \ {k} : cache'[j] = cache[j]
  BY <1>1, <1>2 DEF Publishes, TInv, CacheOK
<1>5. FrameOK(f, objs') /\ Goto(t, f) /\ (phase = "loading" => f.pc \in Starting)
  BY DEF Publishes
<1> HIDE DEF n
<1>6. TInv'
  <2>1. CacheOK(cache, objs')
    BY <1>2, CacheKept DEF TInv, ObjsOK
  <2>2. CacheOK(cache', objs')
    BY <1>2, <1>3, <1>4, <2>1 DEF CacheOK
  <2>3. StateOK'
    BY <1>1 DEF TInv, StateOK
  <2> QED
    BY <1>2, <1>5, <2>2, <2>3, Went
<1>7. LoadInv'
  <2>1. ASSUME phase = "loading", NEW s \in Tasks
        PROVE  /\ frame'[s].pc \in Starting
               /\ frame'[s].pc \in Asks => frame'[s].ret = "iload"
    BY <1>1, <1>5, <2>1 DEF Tables, LoadInv, Starting
  <2> QED
    BY <1>1, <1>2, <1>3, <2>1 DEF Tables, LoadInv, Starting
<1>8. LockInv'
  <2>1. ASSUME NEW s \in Tasks, frame'[s].pc \in Held
        PROVE  /\ s # t /\ frame[s].pc \in Held /\ frame[s].key \in Keys \ {k}
               /\ frame'[s] = frame[s]
    BY <1>1, <2>1, HeldKey DEF Tables, LockInv, Asks
  <2> QED
    BY <1>4, <2>1 DEF Tables, LockInv
<1>9. cache[k] = 0
  BY <1>1 DEF Tables, LockInv
<1>10. OwnInv'
  <2>1. Grown(objs, objs')
    BY <1>2 DEF Grown
  <2>2. ASSUME NEW o \in DOMAIN objs
        PROVE  Marked(objs', objs[o].key) \/ cache'[objs[o].key] = o
    <3>1. objs[o].key \in Keys /\ o # 0
      BY Numbered, ObjectTyped DEF TInv, ObjsOK
    <3> QED
      BY <1>4, <1>9, <2>1, <3>1, MarkedKept DEF Tables, OwnInv
  <2> QED
    BY <1>2, <1>3, <1>4, <2>2 DEF OwnInv
<1>11. DropInv'
  <2>1. ASSUME NEW s \in Tasks, frame'[s].pc = "delete"
        PROVE  \/ objs'[frame'[s].obj].key \in spoiled'
               \/ cache'[objs'[frame'[s].obj].key] # frame'[s].obj
    <3>1. s # t /\ frame'[s] = frame[s]
      BY <1>1, <2>1
    <3>2. frame[s].obj \in DOMAIN objs /\ objs[frame[s].obj].key \in Keys
      BY <2>1, <3>1, HeldKey
    <3>3. \/ objs[frame[s].obj].key \in spoiled
          \/ cache[objs[frame[s].obj].key] # frame[s].obj
      BY <2>1, <3>1 DEF Tables, DropInv
    <3>4. objs'[frame[s].obj] = objs[frame[s].obj] /\ frame[s].obj # n
      BY <1>2, <3>2
    <3>5. spoiled \subseteq spoiled'
      BY <1>1
    <3> QED
      BY <1>4, <3>1, <3>2, <3>3, <3>4, <3>5
  <2> QED
    BY <2>1 DEF DropInv
<1>12. CachedInv'
  BY <1>1, <1>4 DEF Tables, CachedInv
<1>13. RowInv'
  <2>1. ASSUME NEW j \in Keys \ spoiled, row[j] # Null, Known(j), cache'[j] = 0
        PROVE  \E s \in Tasks : Dropping(s, j)' \/ Inserted(s, j)'
    <3>1. j # k /\ cache[j] = 0
      BY <1>2, <1>4, <2>1
    <3>2. PICK s \in Tasks : Dropping(s, j) \/ Inserted(s, j)
      BY <2>1, <3>1 DEF Tables, RowInv
    <3>3. s # t /\ frame'[s] = frame[s]
      BY <1>1, <3>1, <3>2 DEF Dropping, Inserted
    <3>4. Dropping(s, j)' \/ Inserted(s, j)'
      BY <1>2, <3>2, <3>3, HeldKey DEF Dropping, Inserted
    <3> QED
      BY <3>4
  <2>2. spoiled \subseteq spoiled' /\ \A j \in Keys : Known(j)' <=> Known(j)
    BY <1>1 DEF Known
  <2> QED
    BY <1>1, <2>1, <2>2 DEF RowInv
<1> QED
  BY <1>6, <1>7, <1>8, <1>10, <1>11, <1>12, <1>13 DEF Tables

\* A row is inserted.
LEMMA InsertsTables ==
    ASSUME TInv, Tables, NEW t \in Tasks, NEW f, Inserts(t, f)
    PROVE  TInv' /\ Tables'
<1> DEFINE k == frame[t].key
<1>1. /\ frame'[t] = f /\ \A s \in Tasks \ {t} : frame'[s] = frame[s]
      /\ UNCHANGED <<phase, calls, cache, objs, spoiled>> /\ f.pc = "inserted"
      /\ frame[t].pc = "insert" /\ frame[t].pc \in Held /\ f.key = k /\ k \in Keys
      /\ \A j \in Keys \ {k} : row'[j] = row[j]
      /\ phase # "loading" /\ row' \in [Keys -> Users \cup {Null}]
  BY GotoIs DEF Inserts, Process, Held, Tables, LoadInv
<1>2. cache[k] = 0
  BY <1>1 DEF Tables, LockInv
<1> HIDE DEF k
<1>3. TInv'
  <2>1. StateOK'
    BY <1>1 DEF TInv, StateOK
  <2>2. ObjsOK(objs') /\ Older(objs, objs') /\ CacheOK(cache', objs')
    BY <1>1, SteadySame, KeepsOlder DEF TInv, Steady
  <2>3. FrameOK(f, objs') /\ Goto(t, f)
    BY <1>1 DEF Inserts
  <2> QED
    BY <2>1, <2>2, <2>3, Went
<1>4. LoadInv'
  BY <1>1 DEF LoadInv
<1>5. LockInv'
  BY <1>1, <1>2 DEF Tables, LockInv, k
<1>6. OwnInv'
  BY <1>1 DEF Tables, OwnInv
<1>7. DropInv'
  BY <1>1 DEF Tables, DropInv
<1>8. CachedInv'
  BY <1>1, <1>2 DEF Tables, CachedInv
<1>9. RowInv'
  <2>1. ASSUME NEW j \in Keys \ spoiled, row'[j] # Null, Known(j), cache[j] = 0
        PROVE  \E s \in Tasks : Dropping(s, j)' \/ Inserted(s, j)'
    <3>1. CASE j = k
      <4>1. Inserted(t, j)'
        BY <1>1, <3>1 DEF Inserted
      <4> QED
        BY <4>1
    <3>2. CASE j # k
      <4>1. PICK s \in Tasks : Dropping(s, j) \/ Inserted(s, j)
        BY <1>1, <2>1, <3>2 DEF Tables, RowInv
      <4>2. s # t /\ frame'[s] = frame[s]
        BY <1>1, <4>1 DEF Dropping, Inserted
      <4>3. Dropping(s, j)' \/ Inserted(s, j)'
        BY <1>1, <4>1, <4>2 DEF Dropping, Inserted
      <4> QED
        BY <4>3
    <3> QED
      BY <3>1, <3>2
  <2> QED
    BY <1>1, <2>1 DEF RowInv, Known
<1> QED
  BY <1>3, <1>4, <1>5, <1>6, <1>7, <1>8, <1>9 DEF Tables

\* A row is deleted, or the foreign key refuses that.
LEMMA DeletesTables ==
    ASSUME TInv, Tables, NEW t \in Tasks, NEW k, Deletes(t, k)
    PROVE  TInv' /\ Tables'
<1>1. /\ frame'[t] = NoFrame /\ \A s \in Tasks \ {t} : frame'[s] = frame[s]
      /\ UNCHANGED <<phase, calls, cache, objs>> /\ frame[t].pc = "delete"
      /\ k = objs[frame[t].obj].key /\ k \in Keys
      /\ \A j \in Keys \ {k} : row'[j] = row[j]
      /\ phase # "loading" /\ row' \in [Keys -> Users \cup {Null}]
      /\ \/ row'[k] = Null /\ cache[k] \in {0, frame[t].obj} /\ spoiled' = spoiled
         \/ spoiled' = spoiled \cup {k}
  BY GotoIs DEF Deletes, Process, Tables, LoadInv
<1>2. NoFrame.pc = "idle"
  BY DEF NoFrame
<1>3. spoiled \subseteq spoiled' /\ spoiled' \subseteq Keys
  BY <1>1 DEF TInv, StateOK
<1>4. k \in spoiled' \/ (row'[k] = Null /\ cache[k] = 0)
  BY <1>1, <1>3 DEF Tables, DropInv
<1>5. TInv'
  <2>1. StateOK'
    BY <1>1, <1>3 DEF TInv, StateOK
  <2>2. ObjsOK(objs') /\ Older(objs, objs') /\ CacheOK(cache', objs')
    BY <1>1, SteadySame, KeepsOlder DEF TInv, Steady
  <2>3. FrameOK(NoFrame, objs') /\ Goto(t, NoFrame)
    BY <2>2, NoFrameOK DEF Deletes, ObjsOK
  <2> QED
    BY <2>1, <2>2, <2>3, Went
<1>6. LoadInv'
  BY <1>1 DEF LoadInv
<1>7. LockInv'
  BY <1>1, <1>2 DEF Tables, LockInv, Held
<1>8. OwnInv'
  BY <1>1 DEF Tables, OwnInv
<1>9. DropInv'
  BY <1>1, <1>2, <1>3 DEF Tables, DropInv
<1>10. CachedInv'
  BY <1>1, <1>3, <1>4 DEF Tables, CachedInv
<1>11. RowInv'
  <2>1. ASSUME NEW j \in Keys \ spoiled', row'[j] # Null, Known(j), cache[j] = 0
        PROVE  \E s \in Tasks : Dropping(s, j)' \/ Inserted(s, j)'
    <3>1. j # k /\ j \notin spoiled
      BY <1>3, <1>4, <2>1
    <3>2. PICK s \in Tasks : Dropping(s, j) \/ Inserted(s, j)
      BY <1>1, <2>1, <3>1 DEF Tables, RowInv
    <3>3. s # t /\ frame'[s] = frame[s]
      BY <1>1, <3>1, <3>2 DEF Dropping, Inserted
    <3>4. Dropping(s, j)' \/ Inserted(s, j)'
      BY <1>1, <3>2, <3>3 DEF Dropping, Inserted
    <3> QED
      BY <3>4
  <2> QED
    BY <1>1, <2>1 DEF RowInv, Known
<1> QED
  BY <1>5, <1>6, <1>7, <1>8, <1>9, <1>10, <1>11 DEF Tables

\* An instance is renamed.
LEMMA RenamesTables ==
    ASSUME TInv, Tables, NEW t \in Tasks, NEW o, NEW n, Renames(t, o, n)
    PROVE  TInv' /\ Tables'
<1> DEFINE k == objs[o].key
<1>1. /\ frame'[t] = NoFrame /\ \A s \in Tasks \ {t} : frame'[s] = frame[s]
      /\ UNCHANGED <<phase, calls, cache>> /\ frame[t].pc = "rename"
      /\ \A j \in Keys \ {k, n} : row'[j] = row[j]
      /\ phase # "loading" /\ row' \in [Keys -> Users \cup {Null}]
      /\ spoiled' = spoiled \cup {k, n}
  BY GotoIs DEF Renames, Process, Tables, LoadInv
<1>2. NoFrame.pc = "idle"
  BY DEF NoFrame
<1>3. /\ o \in DOMAIN objs /\ k \in Ids /\ n \in Ids /\ {k, n} \subseteq Keys
      /\ {k, n} \cap Users = {}
  BY TasksAssumption DEF Renames, Inst, Keys
<1>4. /\ DOMAIN objs' = DOMAIN objs /\ ObjsOK(objs')
      /\ \A p \in DOMAIN objs \ {o} : objs'[p] = objs[p]
      /\ objs'[o].key = n /\ objs'[o].old = objs[o].old \cup {k}
  BY Numbered DEF Renames, ObjsOK, TInv
<1>5. Older(objs, objs')
  <2>1. Len(objs) <= Len(objs')
    BY DEF Renames, ObjsOK, TInv
  <2> QED
    BY <1>3, <1>4, <2>1 DEF Older
<1> HIDE DEF k
<1>6. TInv'
  <2>1. StateOK'
    BY <1>1, <1>3 DEF TInv, StateOK
  <2>2. CacheOK(cache', objs')
    BY <1>1, <1>4, <1>5, CacheKept DEF TInv, ObjsOK
  <2>3. FrameOK(NoFrame, objs') /\ Goto(t, NoFrame)
    BY <1>4, NoFrameOK DEF Renames, ObjsOK
  <2> QED
    BY <1>4, <1>5, <2>1, <2>2, <2>3, Went
<1>7. LoadInv'
  BY <1>1 DEF LoadInv
<1>8. LockInv'
  BY <1>1, <1>2 DEF Tables, LockInv, Held
<1>9. OwnInv'
  <2>1. ASSUME NEW p \in DOMAIN objs, Marked(objs, objs[p].key), p # o
        PROVE  Marked(objs', objs[p].key)
    <3>1. PICK q \in DOMAIN objs : /\ objs[p].key \in {objs[q].key} \cup objs[q].old
                                   /\ objs[q].dropped \/ objs[q].old # {}
      BY <2>1 DEF Marked
    <3>2. CASE q = o
      <4>1. o \in DOMAIN objs' /\ objs[p].key \in objs'[o].old
        BY <1>3, <1>4, <3>1, <3>2 DEF k
      <4> QED
        BY <4>1 DEF Marked
    <3>3. CASE q # o
      BY <1>4, <3>1, <3>3 DEF Marked
    <3> QED
      BY <3>2, <3>3
  <2>2. Marked(objs', n)
    BY <1>3, <1>4 DEF Marked
  <2> QED
    BY <1>1, <1>4, <2>1, <2>2 DEF Tables, OwnInv
<1>10. DropInv'
  <2>1. ASSUME NEW s \in Tasks \ {t}, frame[s].pc = "delete"
        PROVE  \/ objs'[frame[s].obj].key \in spoiled'
               \/ cache[objs'[frame[s].obj].key] # frame[s].obj
    BY <1>1, <1>4, <2>1, HeldKey DEF Tables, DropInv
  <2> QED
    BY <1>1, <1>2, <2>1 DEF DropInv
<1>11. CachedInv'
  BY <1>1 DEF Tables, CachedInv
<1>12. RowInv'
  <2>1. ASSUME NEW j \in Keys \ spoiled', row'[j] # Null, Known(j), cache[j] = 0
        PROVE  \E s \in Tasks : Dropping(s, j)' \/ Inserted(s, j)'
    <3>1. j \notin {k, n} /\ j \notin spoiled
      BY <1>1, <2>1
    <3>2. PICK s \in Tasks : Dropping(s, j) \/ Inserted(s, j)
      BY <1>1, <2>1, <3>1 DEF Tables, RowInv
    <3>3. s # t /\ frame'[s] = frame[s]
      BY <1>1, <3>2 DEF Dropping, Inserted
    <3>4. Dropping(s, j)' \/ Inserted(s, j)'
      BY <1>4, <3>1, <3>2, <3>3, HeldKey DEF Dropping, Inserted, k
    <3> QED
      BY <3>4
  <2> QED
    BY <1>1, <2>1 DEF RowInv, Known
<1> QED
  BY <1>6, <1>7, <1>8, <1>9, <1>10, <1>11, <1>12 DEF Tables

-----------------------------------------------------------------------------
(* The steps of the tasks                                                  *)

\* Every step of a request or of a coroutine of start() keeps the invariant.
LEMMA StepsIInv ==
    ASSUME IInv, NEW t \in Tasks, Requests(t) \/ Steps(t)
    PROVE  IInv'
<1>0. TInv /\ LoadInv /\ InUse /\ Tables
  BY DEF IInv, Tables
<1>1. \/ \E f : Calm(t, f)
      \/ \E f, o : Drops(t, f, o)
      \/ \E f, k : Publishes(t, f, k)
      \/ \E f : Inserts(t, f)
      \/ \E k : Deletes(t, k)
      \/ \E o, n : Renames(t, o, n)
  <2>1. CASE Requests(t)
    BY <1>0, <2>1, RequestsCalm
  <2>2. CASE GetSteps(t)
    BY <1>0, <2>2, GetCachedCalm, GetReadCalm, GetNoneCalm, InsertStep, PublishSteps
       DEF GetSteps, PublishStep
  <2>3. CASE Shown(t)
    BY <1>0, <2>3, FinishCalm DEF Shown, Runs, Starting
  <2>4. CASE Started(t) \/ WhoAmI(t) \/ CreateOrNot(t) \/ Made(t)
    BY <1>0, <2>4, StartedCalm, WhoAmICalm, CreateOrNotCalm, MadeCalm
  <2>5. CASE \/ DeleteOrNot(t) \/ DeleteStopped(t) \/ DeleteRow(t)
             \/ DeleteInstanceOrNot(t) \/ DeleteInstanceStopped(t)
    BY <1>0, <2>5, DeletionSteps, DeleteStep
  <2>6. CASE PutOrNot(t) \/ CreateInstance(t) \/ SaveCreated(t) \/ Load(t)
    BY <1>0, <2>6, PutOrNotCalm, CreateInstanceCalm, SaveCreatedCalm, LoadCalm
  <2>7. CASE SwitchOrNot(t) \/ Switch(t) \/ SaveSwitched(t) \/ RenameOrNot(t) \/ Rename(t)
    BY <1>0, <2>7, SwitchOrNotCalm, SwitchCalm, SaveSwitchedCalm, RenameOrNotCalm, RenameStep
  <2> QED
    BY <2>1, <2>2, <2>3, <2>4, <2>5, <2>6, <2>7 DEF Steps
<1>2. TInv' /\ Tables'
  BY <1>0, <1>1, CalmTables, DropsTables, PublishesTables, InsertsTables, DeletesTables,
     RenamesTables
<1>3. InUse'
  <2>1. CASE UNCHANGED objs
    BY <1>0, <2>1 DEF InUse
  <2>2. CASE \/ PublishStep(t) \/ Started(t) \/ SaveCreated(t) \/ Load(t)
             \/ Switch(t) \/ SaveSwitched(t) \/ Rename(t)
             \/ DeleteOrNot(t) \/ DeleteStopped(t)
             \/ DeleteInstanceOrNot(t) \/ DeleteInstanceStopped(t)
    BY <1>0, <2>2, PublishSteps, StartedCalm, SaveCreatedCalm, LoadCalm, SwitchCalm,
       SaveSwitchedCalm, RenameStep, DeletionSteps
  <2>3. GetSteps(t) => PublishStep(t) \/ UNCHANGED objs
    BY DEF GetSteps, GetCached, GetRead, GetRow, GetInsert, GetInserted, PublishStep
  <2>4. Requests(t) => UNCHANGED objs
    BY DEF Requests, Show, CreateClient, PutClient, DeleteClient, PutInstance,
           DeleteInstance, Begin
  <2>5. \/ Shown(t) \/ WhoAmI(t) \/ CreateOrNot(t) \/ Made(t) \/ DeleteRow(t)
        \/ PutOrNot(t) \/ CreateInstance(t) \/ SwitchOrNot(t) \/ RenameOrNot(t)
        => UNCHANGED objs
    BY DEF Shown, WhoAmI, CreateOrNot, Made, DeleteRow, PutOrNot, CreateInstance,
           SwitchOrNot, RenameOrNot
  <2> QED
    BY <2>1, <2>2, <2>3, <2>4, <2>5 DEF Steps
<1> QED
  BY <1>2, <1>3 DEF IInv, Tables

-----------------------------------------------------------------------------
(* The steps of the process                                                *)

\* SetToSeq lists a finite set, each member once.
LEMMA SetToSeqIs ==
    ASSUME NEW S, IsFiniteSet(S)
    PROVE  LET f == SetToSeq(S) IN
           /\ Cardinality(S) \in Nat
           /\ f \in [1..Cardinality(S) -> S]
           /\ \A a, b \in 1..Cardinality(S) : f[a] = f[b] => a = b
           /\ \A x \in S : \E a \in 1..Cardinality(S) : f[a] = x
<1> DEFINE n == Cardinality(S)
           f == SetToSeq(S)
<1>1. n \in Nat /\ ExistsBijection(1..n, S)
  BY FS_CardinalityType
<1>2. PICK g : g \in Bijection(1..n, S)
  BY <1>1, Fun_ExistsBij
<1>3. g \in [1..n -> S] /\ \A a, b \in 1..n : g[a] = g[b] => a = b
  BY <1>2, Fun_BijectionProperties
<1>4. IsInjective(g)
  BY <1>3 DEF IsInjective
<1>5. f \in [1..n -> S] /\ IsInjective(f)
  BY <1>3, <1>4 DEF SetToSeq
<1>6. \A a, b \in 1..n : f[a] = f[b] => a = b
  BY <1>5 DEF IsInjective
<1> HIDE DEF f
<1>7. f \in Injection(1..n, S)
  BY <1>5, <1>6, Fun_IsInj
<1>8. Cardinality(1..n) = n
  BY <1>1, FS_Interval
<1>9. f \in Surjection(1..n, S)
  BY <1>7, <1>8, FS_Injection
<1>10. \A x \in S : \E a \in 1..n : f[a] = x
  BY <1>9 DEF Surjection
<1> QED
  BY <1>1, <1>5, <1>6, <1>10 DEF f

\* The objects ns are os and one new object for each key of K.
Filled(os, ns, K) ==
    /\ ObjsOK(ns) /\ Len(os) <= Len(ns)
    /\ \A o \in DOMAIN os : o \in DOMAIN ns /\ ns[o] = os[o]
    /\ \A n \in DOMAIN ns \ DOMAIN os : ns[n].key \in K /\ Fresh(ns[n], ns[n].key)
    /\ \A n, m \in DOMAIN ns \ DOMAIN os : ns[n].key = ns[m].key => n = m
    /\ \A k \in K : \E n \in DOMAIN ns \ DOMAIN os : ns[n].key = k

\* What all() makes.
LEMMA PostinitIs ==
    ASSUME NEW os, ObjsOK(os), NEW K, IsFiniteSet(K), K \subseteq Keys,
           \A k \in K : row[k] \in Users, Len(os) + Cardinality(K) <= MaxObjects
    PROVE  Filled(os, Postinit(os, K), K)
<1> DEFINE f == SetToSeq(K)
           c == Cardinality(K)
           l == Len(os)
           ns == Postinit(os, K)
<1>1. /\ c \in Nat /\ f \in [1..c -> K]
      /\ \A a, b \in 1..c : f[a] = f[b] => a = b
      /\ \A x \in K : \E a \in 1..c : f[a] = x
  BY SetToSeqIs
<1> DEFINE g == [n \in 1..c |-> Object(f[n], row[f[n]])]
<1>2. \A n \in 1..c : f[n] \in K /\ Fresh(Object(f[n], row[f[n]]), f[n])
  BY <1>1, ObjectIs
<1>3. g \in Seq(Objects) /\ Len(g) = c
  <2>1. g \in [1..c -> Objects]
    BY <1>2 DEF Fresh
  <2> HIDE DEF g
  <2> QED
    BY <1>1, <2>1
<1>4. ns = os \o g
  <2>1. Len(f) = c
    BY <1>1
  <2> QED
    BY <2>1 DEF Postinit
<1>5. \A n \in 1..c : g[n] = Object(f[n], row[f[n]])
  OBVIOUS
<1> HIDE DEF f, g, ns, c
<1>6. \A n \in 1..c : g[n].key = f[n] /\ f[n] \in K /\ Fresh(g[n], f[n])
  BY <1>2, <1>5 DEF Fresh
<1>7. /\ os \in Seq(Objects) /\ l \in Nat /\ DOMAIN os = 1..l
  BY DEF ObjsOK
<1>8. /\ ns \in Seq(Objects) /\ Len(ns) = l + c /\ DOMAIN ns = 1..(l + c)
      /\ \A o \in 1..l : ns[o] = os[o]
      /\ \A n \in 1..c : ns[l + n] = g[n]
  BY <1>1, <1>3, <1>4, <1>7
<1> HIDE DEF l
<1>9. \A n \in DOMAIN ns \ DOMAIN os : n - l \in 1..c /\ ns[n] = g[n - l]
  <2>1. ASSUME NEW n \in DOMAIN ns \ DOMAIN os PROVE n - l \in 1..c /\ n = l + (n - l)
    BY <1>1, <1>7, <1>8
  <2> QED
    BY <1>8, <2>1
<1>10. \A n \in DOMAIN ns \ DOMAIN os : /\ ns[n].key = f[n - l] /\ ns[n].key \in K
                                        /\ Fresh(ns[n], ns[n].key)
  BY <1>6, <1>9
<1>11. ASSUME NEW n \in DOMAIN ns \ DOMAIN os, NEW m \in DOMAIN ns \ DOMAIN os,
              ns[n].key = ns[m].key
       PROVE  n = m
  <2>1. n - l = m - l
    BY <1>1, <1>9, <1>10, <1>11
  <2>2. n \in Nat /\ m \in Nat
    BY <1>1, <1>7, <1>8
  <2> QED
    BY <1>7, <2>1, <2>2
<1>12. ASSUME NEW k \in K PROVE \E n \in DOMAIN ns \ DOMAIN os : ns[n].key = k
  <2>1. PICK a \in 1..c : f[a] = k
    BY <1>1
  <2>2. l + a \in DOMAIN ns \ DOMAIN os
    BY <1>1, <1>7, <1>8
  <2>3. ns[l + a].key = k
    BY <1>6, <1>8, <2>1
  <2> QED
    BY <2>2, <2>3
<1>13. /\ \A o \in DOMAIN os : o \in DOMAIN ns /\ ns[o] = os[o]
       /\ l <= Len(ns) /\ Len(ns) <= MaxObjects
  BY <1>1, <1>7, <1>8 DEF l, c
<1>14. ObjsOK(ns)
  <2>1. Older(os, ns)
    BY <1>13 DEF Older, l
  <2>2. ASSUME NEW o \in DOMAIN os, os[o].client # 0 PROVE Cli(ns, os[o].client)
    BY <1>8, <2>1, <2>2, OlderKinds DEF ObjsOK
  <2>3. ASSUME NEW n \in DOMAIN ns \ DOMAIN os PROVE ns[n].client = 0 /\ ns[n].refs = {}
    BY <1>10 DEF Fresh
  <2>4. ASSUME NEW n \in DOMAIN ns
        PROVE  /\ ns[n].client # 0 => Cli(ns, ns[n].client)
               /\ \A m \in ns[n].refs : m.obj \in DOMAIN ns
    <3>1. CASE n \in DOMAIN os
      BY <1>13, <2>2, <3>1 DEF ObjsOK
    <3>2. CASE n \notin DOMAIN os
      BY <2>3, <3>2
    <3> QED
      BY <3>1, <3>2
  <2> QED
    BY <1>8, <1>13, <2>4 DEF ObjsOK
<1> QED
  BY <1>10, <1>11, <1>12, <1>13, <1>14 DEF Filled, l, ns

\* The cache after all().
Cached(os, ns, K, c, d) ==
    /\ d \in [Keys -> 0..MaxObjects]
    /\ \A k \in Keys : c[k] # 0 => d[k] = c[k]
    /\ \A n \in DOMAIN ns : d[ns[n].key] = n
    /\ \A k \in K : d[k] # 0
    /\ \A k \in Keys : c[k] = 0 /\ d[k] # 0 => k \in K /\ d[k] \in DOMAIN ns /\ ns[d[k]].key = k

\* all() caches each new object under its id and leaves the others.
LEMMA CachedIs ==
    ASSUME NEW os, ObjsOK(os), NEW ns, NEW K, K \subseteq Keys, Filled(os, ns, K),
           NEW c \in [Keys -> 0..MaxObjects],
           \A o \in DOMAIN os : c[os[o].key] = o,
           \A k \in K : c[k] = 0
    PROVE  Cached(os, ns, K, c, CachedAs(ns, c))
<1> DEFINE d == CachedAs(ns, c)
<1>1. \A n \in DOMAIN ns : n \in 0..MaxObjects /\ n # 0 /\ ns[n].key \in Keys
  <2>1. DOMAIN ns \subseteq Serials /\ ns \in Seq(Objects)
    BY Serial DEF Filled, ObjsOK
  <2> QED
    BY <2>1, Numbered, ObjectTyped, Bounds DEF Serials
<1>2. \A k \in Keys :
         /\ c[k] # 0 => d[k] = c[k]
         /\ c[k] = 0 /\ ~(\E n \in DOMAIN ns : ns[n].key = k) => d[k] = 0
         /\ c[k] = 0 /\ (\E n \in DOMAIN ns : ns[n].key = k) =>
               d[k] \in DOMAIN ns /\ ns[d[k]].key = k
  BY DEF CachedAs
<1>3. d \in [Keys -> 0..MaxObjects]
  <2>1. \A k \in Keys : d[k] \in 0..MaxObjects
    BY <1>1, <1>2
  <2>2. d = [k \in Keys |-> d[k]]
    BY DEF CachedAs
  <2> HIDE DEF d
  <2> QED
    BY <2>1, <2>2
<1> HIDE DEF d
<1>4. ASSUME NEW n \in DOMAIN ns, n \notin DOMAIN os
      PROVE  c[ns[n].key] = 0 /\ ns[n].key \in K
             /\ \A m \in DOMAIN ns : ns[m].key = ns[n].key => m = n
  <2>1. ns[n].key \in K
    BY <1>4 DEF Filled
  <2>2. \A m \in DOMAIN os : m # 0 /\ ns[m] = os[m]
    BY Numbered DEF Filled, ObjsOK
  <2> QED
    BY <1>4, <2>1, <2>2 DEF Filled
<1>5. \A o \in DOMAIN os : o # 0 /\ o \in DOMAIN ns /\ ns[o] = os[o] /\ os[o].key \in Keys
  BY Numbered, ObjectTyped DEF Filled, ObjsOK
<1>6. \A n \in DOMAIN ns : d[ns[n].key] = n
  <2>1. ASSUME NEW n \in DOMAIN os PROVE d[ns[n].key] = n
    BY <1>2, <1>5
  <2>2. ASSUME NEW n \in DOMAIN ns, n \notin DOMAIN os PROVE d[ns[n].key] = n
    BY <1>1, <1>2, <1>4, <2>2
  <2> QED
    BY <2>1, <2>2
<1>7. \A k \in K : d[k] # 0
  BY <1>1, <1>6 DEF Filled
<1>8. ASSUME NEW k \in Keys, c[k] = 0, d[k] # 0
      PROVE  k \in K /\ d[k] \in DOMAIN ns /\ ns[d[k]].key = k
  <2>1. d[k] \in DOMAIN ns /\ ns[d[k]].key = k
    BY <1>2, <1>8
  <2>2. d[k] \notin DOMAIN os
    BY <1>5, <1>8, <2>1
  <2> QED
    BY <1>4, <2>1, <2>2
<1> QED
  BY <1>2, <1>3, <1>6, <1>7, <1>8 DEF Cached, d

\* The cache after all() holds objects of its own class.
LEMMA CachedOK ==
    ASSUME NEW os, ObjsOK(os), NEW ns, NEW K, Filled(os, ns, K), NEW c, CacheOK(c, os),
           NEW d, Cached(os, ns, K, c, d)
    PROVE  CacheOK(d, ns)
<1>1. \A o \in DOMAIN os : o \in DOMAIN ns /\ ns[o] = os[o]
  BY DEF Filled
<1>2. ASSUME NEW k \in Keys, d[k] # 0
      PROVE  d[k] \in DOMAIN ns /\ (ns[d[k]].key \in Users <=> k \in Users)
  <2>1. CASE c[k] # 0
    <3>1. d[k] = c[k] /\ c[k] \in DOMAIN os /\ (os[c[k]].key \in Users <=> k \in Users)
      BY <2>1 DEF Cached, CacheOK
    <3> QED
      BY <1>1, <3>1
  <2>2. CASE c[k] = 0
    BY <1>2, <2>2 DEF Cached
  <2> QED
    BY <2>1, <2>2
<1> QED
  BY <1>2 DEF CacheOK, Cached

\* A new object has no client yet.
LEMMA FilledUsed ==
    ASSUME NEW os, ObjsOK(os), AllUsed(os), NEW ns, NEW K, Filled(os, ns, K)
    PROVE  AllUsed(ns)
<1>1. \A o \in DOMAIN os : o \in DOMAIN ns /\ ns[o] = os[o]
  BY DEF Filled
<1>2. Renamed(os) => Renamed(ns)
  BY <1>1 DEF Renamed
<1>3. ASSUME NEW o \in DOMAIN os, ns[o].client # 0, ~ns[o].dropped
      PROVE  Holds(ns, ns[o].client, o) \/ Renamed(ns)
  <2>1. Holds(os, os[o].client, o) \/ Renamed(os)
    BY <1>1, <1>3 DEF AllUsed, Used
  <2>2. os[o].client \in DOMAIN os
    BY <1>1, <1>3 DEF ObjsOK, Cli
  <2>3. Twin(os, o) => Twin(ns, o)
    BY <1>1 DEF Twin
  <2> QED
    BY <1>1, <1>2, <2>1, <2>2, <2>3 DEF Holds
<1>4. ASSUME NEW o \in DOMAIN ns, o \notin DOMAIN os PROVE ns[o].client = 0
  BY <1>4 DEF Filled, Fresh
<1> QED
  BY <1>3, <1>4 DEF AllUsed, Used

\* Every object changes in what its own coroutines set.
LEMMA AllAlike ==
    ASSUME NEW os, ObjsOK(os), NEW ns, ns = [o \in DOMAIN os |-> ns[o]],
           \A o \in DOMAIN os : Alike(ns[o], os[o])
    PROVE  ObjsOK(ns) /\ Steady(os, ns) /\ SameRefs(os, ns)
<1>1. Len(os) \in Nat /\ DOMAIN os = 1..Len(os)
  BY DEF ObjsOK
<1>2. ns \in [1..Len(os) -> Objects]
  BY <1>1 DEF Alike
<1>3. ns \in Seq(Objects) /\ Len(ns) = Len(os)
  BY <1>1, <1>2
<1>4. Steady(os, ns) /\ SameRefs(os, ns)
  BY <1>3 DEF Steady, Keeps, SameRefs, Alike
<1> QED
  BY <1>4, KeepsObjs DEF Steady

\* A sequence of no objects is good.
LEMMA NoObjs == ObjsOK(<<>>) /\ DOMAIN <<>> = {} /\ Len(<<>>) = 0 /\ AllUsed(<<>>)
<1>1. <<>> \in Seq(Objects) /\ DOMAIN <<>> = {} /\ Len(<<>>) = 0
  OBVIOUS
<1> QED
  BY <1>1, Bounds DEF ObjsOK, AllUsed

\* Nothing is cached.
LEMMA NothingOK ==
    ASSUME NEW os
    PROVE  CacheOK(Nothing, os) /\ \A k \in Keys : Nothing[k] = 0
BY Bounds DEF CacheOK, Nothing

\* The objects and the cache after start() read the instances.
LEMMA BootObjs ==
    ASSUME TInv, Boot
    PROVE  /\ Filled(<<>>, objs', Rows(Ids))
           /\ Cached(<<>>, objs', Rows(Ids), Nothing, cache')
           /\ Rows(Ids) \subseteq Ids
<1> DEFINE K == Rows(Ids)
<1>1. K \subseteq Ids /\ Ids \subseteq Keys /\ \A k \in K : row[k] \in Users
  BY DEF Rows, Keys, TInv, StateOK
<1>2. IsFiniteSet(K) /\ Cardinality(K) \in Nat /\ Cardinality(K) <= MaxObjects
  <2>1. IsFiniteSet(K) /\ Cardinality(K) <= Cardinality(Ids)
    BY <1>1, FS_Subset, TasksAssumption
  <2>2. Cardinality(K) \in Nat /\ Cardinality(Ids) \in Nat
    BY <2>1, FS_CardinalityType, TasksAssumption
  <2>3. Cardinality(Ids) <= MaxObjects /\ MaxObjects \in Nat
    BY TasksAssumption
  <2> HIDE DEF K
  <2> QED
    BY <2>1, <2>2, <2>3
<1>3. objs' = Postinit(<<>>, K) /\ cache' = CachedAs(objs', Nothing)
  BY DEF Boot
<1>4. K \subseteq Keys
  BY <1>1
<1> HIDE DEF K
<1>5. Len(<<>>) + Cardinality(K) <= MaxObjects
  BY <1>2, NoObjs
<1>6. Filled(<<>>, objs', K)
  BY <1>1, <1>2, <1>3, <1>4, <1>5, NoObjs, PostinitIs
<1>7. Nothing \in [Keys -> 0..MaxObjects]
  BY NothingOK DEF CacheOK
<1>8. Cached(<<>>, objs', K, Nothing, cache')
  BY <1>3, <1>4, <1>6, <1>7, NoObjs, NothingOK, CachedIs
<1> QED
  BY <1>1, <1>6, <1>8 DEF K

\* A coroutine of start() that loads an instance.
Loads(f, os) == FrameOK(f, os) /\ f.pc = "lock" /\ f.ret = "iload"

\* load() asks for the client of the instance o.
LEMMA BootFrame ==
    ASSUME NEW os, ObjsOK(os), NEW o, Inst(os, o)
    PROVE  Loads(Get([NoFrame EXCEPT !.obj = o], os[o].user, FALSE, "iload"), os)
<1> DEFINE f == [NoFrame EXCEPT !.obj = o]
           u == os[o].user
<1>1. /\ o \in DOMAIN os /\ o \in Nat /\ os[o] \in Objects /\ Len(os) \in Nat
      /\ DOMAIN os = 1..Len(os) /\ o \in Serials
  BY Numbered, Serial DEF Inst, ObjsOK
<1>2. u \in Users /\ u \in Keys
  BY <1>1, ObjectTyped DEF Keys
<1>3. NoFrame \in Frames
  BY NoFrameOK DEF FrameOK, ObjsOK
<1>4. f \in Frames /\ f.obj = o /\ f.got = 0
  <2>1. o \in 0..MaxObjects
    BY <1>1, Bounds DEF Serials
  <2>2. NoFrame.got = 0
    BY DEF NoFrame
  <2> QED
    BY <1>3, <2>1, <2>2 DEF Frames
<1> HIDE DEF f, u
<1>5. Carries(f, "iload", os)
  BY <1>4 DEF Carries
<1>6. f.got <= Len(os) /\ f.obj <= Len(os)
  BY <1>1, <1>4
<1>7. "iload" \in Hot
  BY DEF Hot
<1>8. FrameOK(Get(f, u, FALSE, "iload"), os)
  BY <1>2, <1>4, <1>5, <1>6, <1>7, GetOK
<1>9. Get(f, u, FALSE, "iload").pc = "lock" /\ Get(f, u, FALSE, "iload").ret = "iload"
  BY <1>4 DEF Get, Frames
<1> QED
  BY <1>8, <1>9 DEF Loads, f, u

\* The coroutines of start() load instances.
LEMMA BootFrames ==
    ASSUME TInv, Boot
    PROVE  /\ frame' = [t \in Tasks |-> frame'[t]]
           /\ \A t \in Tasks : frame'[t] = NoFrame \/ Loads(frame'[t], objs')
<1> DEFINE K == Rows(Ids)
           G(o) == Get([NoFrame EXCEPT !.obj = o], objs'[o].user, FALSE, "iload")
<1>1. /\ Filled(<<>>, objs', K) /\ Cached(<<>>, objs', K, Nothing, cache') /\ K \subseteq Ids
  BY BootObjs
<1>2. ASSUME NEW i \in K PROVE Inst(objs', cache'[i])
  <2>1. i \in Ids /\ i \in Keys /\ Nothing[i] = 0 /\ cache'[i] # 0
    BY <1>1, <1>2, NothingOK DEF Cached, Keys
  <2> QED
    BY <2>1, <1>1 DEF Cached, Inst
<1>3. ObjsOK(objs')
  BY <1>1 DEF Filled
<1>4. PICK L \in SUBSET K, T \in [K -> Tasks] :
        frame' = [t \in Tasks |-> IF \E i \in L : T[i] = t
                                  THEN G(cache'[CHOOSE i \in L : T[i] = t])
                                  ELSE NoFrame]
  BY DEF Boot
<1>5. ASSUME NEW t \in Tasks
      PROVE  frame'[t] = NoFrame \/ Loads(frame'[t], objs')
  <2> DEFINE i == CHOOSE j \in L : T[j] = t
  <2>1. CASE \E j \in L : T[j] = t
    <3>1. i \in L
      BY <2>1
    <3>2. frame'[t] = G(cache'[i])
      BY <1>4, <2>1
    <3> HIDE DEF i
    <3>3. Inst(objs', cache'[i])
      BY <1>2, <3>1
    <3> QED
      BY <1>3, <3>2, <3>3, BootFrame
  <2>2. CASE ~\E j \in L : T[j] = t
    BY <1>4, <2>2
  <2> QED
    BY <2>1, <2>2
<1>6. frame' = [t \in Tasks |-> frame'[t]]
  BY <1>4
<1> QED
  BY <1>5, <1>6

\* start() makes the instances and begins to load them.
LEMMA BootIInv ==
    ASSUME IInv, Boot
    PROVE  IInv'
<1> DEFINE K == Rows(Ids)
<1>0. TInv
  BY DEF IInv
<1>1. /\ phase' = "loading" /\ UNCHANGED <<row, calls, spoiled>>
      /\ Filled(<<>>, objs', K) /\ Cached(<<>>, objs', K, Nothing, cache')
      /\ frame' = [t \in Tasks |-> frame'[t]]
      /\ \A t \in Tasks : frame'[t] = NoFrame \/ Loads(frame'[t], objs')
  BY <1>0, BootObjs, BootFrames DEF Boot
<1>2. ObjsOK(objs') /\ objs' \in Seq(Objects) /\ CacheOK(cache', objs') /\ AllUsed(objs')
  BY <1>1, NoObjs, NothingOK, CachedOK, FilledUsed DEF Filled, ObjsOK
<1>3. \A t \in Tasks : /\ FrameOK(frame'[t], objs') /\ frame'[t] \in Frames
                       /\ frame'[t].pc \in {"idle", "lock"}
                       /\ frame'[t].pc = "lock" => frame'[t].ret = "iload"
  <2>1. NoFrame.pc = "idle"
    BY DEF NoFrame
  <2>2. FrameOK(NoFrame, objs')
    BY <1>2, NoFrameOK
  <2> QED
    BY <1>1, <2>1, <2>2 DEF Loads, FrameOK
<1>4. TInv'
  <2>1. frame' \in [Tasks -> Frames]
    BY <1>1, <1>3
  <2>2. StateOK'
    BY <1>0, <1>1 DEF TInv, StateOK
  <2> QED
    BY <1>2, <1>3, <2>1, <2>2 DEF TInv, FramesOK
<1>5. LoadInv'
  <2>1. \A o \in DOMAIN objs' : ~objs'[o].dropped /\ objs'[o].old = {}
    BY <1>1, NoObjs DEF Filled, Fresh
  <2> QED
    BY <1>3, <2>1 DEF LoadInv, Asks, Held
<1>6. LockInv' /\ DropInv'
  BY <1>3 DEF LockInv, DropInv, Held
<1>7. OwnInv'
  BY <1>1 DEF OwnInv, Cached
<1>8. CachedInv'
  BY <1>1, NothingOK DEF CachedInv, Cached, Rows
<1>9. RowInv'
  BY <1>1 DEF RowInv, Known, Cached, Rows
<1> QED
  BY <1>2, <1>4, <1>5, <1>6, <1>7, <1>8, <1>9, InUseIs DEF IInv

\* The frames stay good when no coroutine takes a step.
LEMMA Stayed ==
    ASSUME TInv, ObjsOK(objs'), Older(objs, objs'), UNCHANGED frame
    PROVE  FramesOK(objs)'
<1>1. \A s \in Tasks : FrameOK(frame[s], objs')
  BY FrameKept DEF TInv, FramesOK, ObjsOK
<1> QED
  BY <1>1 DEF TInv, FramesOK

\* Setting whether an object is started changes nothing else of it.
LEMMA SetStarted ==
    ASSUME NEW r \in Objects, NEW b \in BOOLEAN
    PROVE  Alike([r EXCEPT !.started = b], r)
<1>1. CASE b = TRUE
  BY <1>1 DEF Alike, Objects
<1>2. CASE b = FALSE
  BY <1>2 DEF Alike, Objects
<1> QED
  BY <1>1, <1>2

\* stop() stops the clients and their instances.
LEMMA ShutdownIInv ==
    ASSUME IInv, Shutdown
    PROVE  IInv'
<1> DEFINE S == {cache[u] : u \in Users} \ {0}
<1>0. TInv /\ InUse /\ ObjsOK(objs)
  BY DEF IInv, TInv
<1>1. /\ objs' = [o \in DOMAIN objs |->
                    [objs[o] EXCEPT !.started = @ /\ o \notin S /\ objs[o].client \notin S]]
      /\ phase = "up" /\ phase' = "closing"
      /\ UNCHANGED <<row, cache, frame, calls, spoiled>>
  BY DEF Shutdown
<1> HIDE DEF S
<1>2. ASSUME NEW o \in DOMAIN objs PROVE Alike(objs'[o], objs[o])
  <2> DEFINE b == objs[o].started /\ o \notin S /\ objs[o].client \notin S
  <2>1. objs[o] \in Objects
    BY <1>0, Numbered DEF ObjsOK
  <2>2. objs'[o] = [objs[o] EXCEPT !.started = b]
    BY <1>1
  <2>3. b \in BOOLEAN
    OBVIOUS
  <2> HIDE DEF b
  <2> QED
    BY <2>1, <2>2, <2>3, SetStarted
<1>3. objs' = [o \in DOMAIN objs |-> objs'[o]]
  BY <1>1
<1>4. ObjsOK(objs') /\ Steady(objs, objs') /\ SameRefs(objs, objs')
  BY <1>0, <1>2, <1>3, AllAlike
<1>5. Older(objs, objs') /\ DOMAIN objs' = DOMAIN objs
  BY <1>0, <1>4, KeepsOlder DEF Steady
<1>6. TInv'
  <2>1. CacheOK(cache', objs')
    BY <1>0, <1>1, <1>4, <1>5, CacheKept DEF TInv, ObjsOK
  <2>2. FramesOK(objs)'
    BY <1>0, <1>1, <1>4, <1>5, Stayed
  <2>3. StateOK'
    BY <1>0, <1>1 DEF TInv, StateOK
  <2> QED
    BY <1>4, <2>1, <2>2, <2>3 DEF TInv
<1>7. InUse'
  BY <1>0, <1>4, SameInUse
<1>8. LoadInv' /\ LockInv' /\ CachedInv'
  BY <1>1 DEF IInv, LoadInv, LockInv, CachedInv
<1>9. \A o \in DOMAIN objs : /\ objs'[o].key = objs[o].key /\ objs'[o].old = objs[o].old
                             /\ objs'[o].dropped = objs[o].dropped
  BY <1>4 DEF Steady, Keeps
<1>10. OwnInv'
  <2>1. Grown(objs, objs')
    BY <1>5, <1>9 DEF Grown
  <2>2. \A k : Marked(objs, k) => Marked(objs', k)
    BY <2>1, MarkedKept
  <2> QED
    BY <1>1, <1>5, <1>9, <2>2 DEF IInv, OwnInv
<1>11. DropInv'
  BY <1>0, <1>1, <1>9, HeldKey DEF IInv, DropInv
<1>12. RowInv'
  <2>1. \A t \in Tasks, k \in Keys : Dropping(t, k) => Dropping(t, k)'
    BY <1>0, <1>1, <1>9, HeldKey DEF Dropping
  <2>2. \A t \in Tasks, k \in Keys : Inserted(t, k) => Inserted(t, k)'
    BY <1>1 DEF Inserted
  <2> QED
    BY <1>1, <2>1, <2>2 DEF IInv, RowInv, Known
<1> QED
  BY <1>6, <1>7, <1>8, <1>10, <1>11, <1>12 DEF IInv

\* Nothing but the tables is left, and nothing is known of them.
Blank ==
    /\ phase = "down"
    /\ objs = <<>> /\ cache = Nothing /\ calls = 0 /\ spoiled = {}
    /\ frame = [t \in Tasks |-> NoFrame]
    /\ row \in [Keys -> Users \cup {Null}]

\* A process that does not run.
LEMMA BlankIInv == Blank => IInv
<1> SUFFICES ASSUME Blank PROVE IInv
  OBVIOUS
<1>1. ObjsOK(objs) /\ DOMAIN objs = {} /\ objs \in Seq(Objects) /\ AllUsed(objs)
  BY NoObjs DEF Blank, ObjsOK
<1>2. \A t \in Tasks : FrameOK(frame[t], objs) /\ frame[t].pc = "idle"
  BY <1>1, NoFrameOK DEF Blank, NoFrame
<1>3. frame \in [Tasks -> Frames]
  BY <1>1, NoFrameOK DEF Blank, FrameOK
<1>4. CacheOK(cache, objs) /\ \A k \in Keys : cache[k] = 0
  BY NothingOK DEF Blank
<1>5. StateOK
  BY Bounds DEF StateOK, Blank
<1>6. TInv
  BY <1>1, <1>2, <1>3, <1>4, <1>5 DEF TInv, FramesOK
<1>7. LoadInv /\ LockInv /\ OwnInv /\ DropInv /\ CachedInv /\ RowInv
  BY <1>1, <1>2, <1>4 DEF Blank, LoadInv, LockInv, OwnInv, DropInv, CachedInv, RowInv, Held,
     Known
<1> QED
  BY <1>1, <1>6, <1>7, InUseIs DEF IInv

\* The process has not begun.
LEMMA InitIInv == Init => IInv
<1> SUFFICES ASSUME Init PROVE Blank
  BY BlankIInv
<1>1. PICK R \in SUBSET Users : \E u \in [Ids -> R \cup {Null}] :
         row = [k \in Keys |-> IF k \in Ids THEN u[k] ELSE IF k \in R THEN k ELSE Null]
  BY DEF Init
<1>2. row \in [Keys -> Users \cup {Null}]
  BY <1>1
<1> QED
  BY <1>2 DEF Init, Blank

\* The process ends.
LEMMA ExitIInv ==
    ASSUME IInv, Exit
    PROVE  IInv'
<1>1. Blank'
  BY DEF Exit, Blank, IInv, TInv, StateOK, Nothing, NoFrame, Keys
<1>2. Blank' => IInv'
  BY BlankIInv, PTL
<1> QED
  BY <1>1, <1>2

\* While start() loads, every object is cached under its id.
LEMMA LoadingCached ==
    ASSUME IInv, phase = "loading"
    PROVE  \A o \in DOMAIN objs : cache[objs[o].key] = o
<1>1. \A k : ~Marked(objs, k)
  BY DEF IInv, LoadInv, Marked
<1> QED
  BY <1>1 DEF IInv, OwnInv

\* The objects and the cache after Client.all().
LEMMA BootClientObjs ==
    ASSUME IInv, BootClients
    PROVE  \E all, K :
             /\ Filled(objs, all, K) /\ Cached(objs, all, K, cache, cache')
             /\ K = {u \in Rows(Users) : cache[u] = 0}
             /\ ObjsOK(objs') /\ Steady(all, objs') /\ SameRefs(all, objs')
<1> DEFINE K == {u \in Rows(Users) : cache[u] = 0}
           all == Postinit(objs, K)
<1>0. TInv /\ ObjsOK(objs) /\ cache \in [Keys -> 0..MaxObjects]
  BY DEF IInv, TInv, CacheOK
<1>1. K \subseteq Users /\ K \subseteq Keys /\ \A k \in K : row[k] \in Users /\ cache[k] = 0
  BY <1>0 DEF Rows, Keys, TInv, StateOK
<1>2. IsFiniteSet(K)
  BY <1>1, FS_Subset, TasksAssumption
<1>3. /\ phase = "loading" /\ Len(objs) + Cardinality(K) <= MaxObjects
      /\ cache' = CachedAs(all, cache)
  BY DEF BootClients
<1>4. PICK S : objs' = [o \in DOMAIN all |->
                          [all[o] EXCEPT !.started = o \in S \/ all[o].client \in S]]
  BY DEF BootClients
<1> HIDE DEF K
<1>5. Filled(objs, all, K)
  BY <1>0, <1>1, <1>2, <1>3, PostinitIs
<1> HIDE DEF all
<1>6. Cached(objs, all, K, cache, cache')
  BY <1>0, <1>1, <1>3, <1>5, LoadingCached, CachedIs
<1>7. ObjsOK(all)
  BY <1>5 DEF Filled
<1>8. ASSUME NEW o \in DOMAIN all PROVE Alike(objs'[o], all[o])
  <2> DEFINE b == o \in S \/ all[o].client \in S
  <2>1. all[o] \in Objects
    BY <1>7, Numbered DEF ObjsOK
  <2>2. objs'[o] = [all[o] EXCEPT !.started = b]
    BY <1>4
  <2>3. b \in BOOLEAN
    OBVIOUS
  <2> HIDE DEF b
  <2> QED
    BY <2>1, <2>2, <2>3, SetStarted
<1>9. objs' = [o \in DOMAIN all |-> objs'[o]]
  BY <1>4
<1>10. ObjsOK(objs') /\ Steady(all, objs') /\ SameRefs(all, objs')
  BY <1>7, <1>8, <1>9, AllAlike
<1> QED
  BY <1>5, <1>6, <1>10 DEF K

\* start() makes the clients, and the requests may come.
LEMMA BootClientsIInv ==
    ASSUME IInv, BootClients
    PROVE  IInv'
<1>0. /\ TInv /\ InUse /\ ObjsOK(objs) /\ phase = "loading" /\ phase' = "up" /\ Quiet
      /\ UNCHANGED <<row, frame, calls, spoiled>>
  BY DEF IInv, TInv, BootClients
<1>1. PICK all, K : /\ Filled(objs, all, K) /\ Cached(objs, all, K, cache, cache')
                    /\ K = {u \in Rows(Users) : cache[u] = 0}
                    /\ ObjsOK(objs') /\ Steady(all, objs') /\ SameRefs(all, objs')
  BY BootClientObjs
<1>2. /\ ObjsOK(all) /\ Older(objs, all) /\ CacheOK(cache', all) /\ AllUsed(all)
  <2>1. AllUsed(objs)
    BY <1>0, InUseIs
  <2>2. ObjsOK(all) /\ Older(objs, all)
    BY <1>1 DEF Filled, Older
  <2>3. CacheOK(cache, objs)
    BY <1>0 DEF TInv
  <2>4. CacheOK(cache', all)
    BY <1>0, <1>1, <2>3, CachedOK
  <2>5. AllUsed(all)
    BY <1>0, <1>1, <2>1, FilledUsed
  <2> QED
    BY <2>2, <2>4, <2>5
<1>3. /\ Older(all, objs') /\ DOMAIN objs' = DOMAIN all
      /\ \A o \in DOMAIN all : objs'[o].key = all[o].key
  BY <1>1, <1>2, KeepsOlder DEF Steady, Keeps
<1>4. Older(objs, objs') /\ CacheOK(cache', objs')
  <2>1. CacheOK(cache', objs')
    BY <1>1, <1>2, <1>3, CacheKept DEF ObjsOK
  <2>2. \A o \in DOMAIN objs : o \in DOMAIN all
    BY <1>1 DEF Filled
  <2>3. Len(objs) \in Nat /\ Len(all) \in Nat /\ Len(objs') \in Nat
    BY <1>0, <1>1, <1>2 DEF ObjsOK
  <2>4. Len(objs) <= Len(objs')
    BY <1>2, <1>3, <2>3 DEF Older
  <2> QED
    BY <1>2, <1>3, <2>1, <2>2, <2>4 DEF Older
<1>5. TInv'
  <2>1. FramesOK(objs)'
    BY <1>0, <1>1, <1>4, Stayed
  <2>2. StateOK'
    BY <1>0 DEF TInv, StateOK
  <2> QED
    BY <1>1, <1>4, <2>1, <2>2 DEF TInv
<1>6. InUse'
  <2>1. AllUsed(objs')
    BY <1>1, <1>2, SameUsed DEF Steady, SameRefs
  <2> QED
    BY <2>1, InUseIs
<1>7. \A t \in Tasks : frame'[t].pc = "idle"
  BY <1>0 DEF Quiet
<1>8. LoadInv' /\ LockInv' /\ DropInv'
  BY <1>0, <1>7 DEF LoadInv, LockInv, DropInv, Held
<1>9. OwnInv'
  BY <1>1, <1>3 DEF OwnInv, Cached
<1>10. CachedInv'
  BY <1>0, <1>1 DEF IInv, CachedInv, Cached, Rows
<1>11. RowInv'
  <2>1. ASSUME NEW k \in Keys \ spoiled, row[k] # Null PROVE cache'[k] # 0
    <3>1. CASE k \in Users
      BY <1>1, <2>1, <3>1 DEF Cached, Rows
    <3>2. CASE k \in Ids
      <4>1. cache[k] # 0
        BY <1>0, <2>1, <3>2 DEF IInv, RowInv, Known, Quiet, Dropping, Inserted
      <4> QED
        BY <1>1, <4>1 DEF Cached
    <3> QED
      BY <3>1, <3>2 DEF Keys
  <2> QED
    BY <1>0, <2>1 DEF RowInv
<1> QED
  BY <1>5, <1>6, <1>8, <1>9, <1>10, <1>11 DEF IInv

-----------------------------------------------------------------------------
(* The theorems                                                            *)

\* The inductive invariant holds in every state of every behaviour.
LEMMA Invariant == Spec => []IInv
<1>1. Init => IInv
  BY InitIInv
<1>2. IInv /\ [Next]_vars => IInv'
  <2> SUFFICES ASSUME IInv, [Next]_vars PROVE IInv'
    OBVIOUS
  <2>1. CASE \E t \in Tasks : Requests(t) \/ Steps(t)
    BY <2>1, StepsIInv
  <2>2. CASE Boot
    BY <2>2, BootIInv
  <2>3. CASE BootClients
    BY <2>3, BootClientsIInv
  <2>4. CASE Shutdown
    BY <2>4, ShutdownIInv
  <2>5. CASE Exit
    BY <2>5, ExitIInv
  <2>6. CASE UNCHANGED vars
    BY <2>6 DEF vars, IInv, TInv, StateOK, ObjsOK, Cli, CacheOK, FramesOK, FrameOK, Carries,
       Inst, Found, LoadInv, LockInv, OwnInv, Marked, DropInv, CachedInv, RowInv, Known,
       Dropping, Inserted, InUse
  <2> QED
    BY <2>1, <2>2, <2>3, <2>4, <2>5, <2>6 DEF Next
<1> QED
  BY <1>1, <1>2, PTL DEF Spec

\* However get(), all(), the requests and the start of the process interleave,
\* a row of the client or instance table has one object in the process, unless
\* delete() was called on one or one was renamed, and the client that syncs is
\* the one in Client.cache: the async_getter_lock of get() and the checks of the
\* cache under it suffice for any number of requests, users and instances.
THEOREM OneObject == Spec => []OneObjectPerKey
BY Invariant, IInvImplies, PTL

\* An instance that has a client is in the references of that client, by which
\* DELETE /client refuses to delete a client in use, through load(),
\* update_primary_user() and delete() of any number of instances; only a rename
\* or a second object for its row takes it out.
THEOREM InstancesInUse == Spec => []InUse
BY Invariant, IInvImplies, PTL

\* When no request is in progress the caches of Client and PluginInstance hold
\* exactly the rows of the tables, except for the ids that were renamed, whose
\* DELETE the foreign key refused, or that get() read while delete() awaited.
THEOREM CacheAndTables == Spec => []CacheIsTables
BY Invariant, IInvImplies, PTL
=============================================================================

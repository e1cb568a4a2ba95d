------------------------- MODULE PluginRuntimeProofs -------------------------
(***************************************************************************)
(* Proofs about PluginRuntime for any number of tasks, connections, runs   *)
(* and instances: no connection goes back with a plugin's search path but  *)
(* by a cancellation in the wrong place, a drained proxy is out of use for *)
(* good, no task outlives its run unnoticed, and a plugin works on the     *)
(* data of its own instance or on what a delete left.                      *)
(***************************************************************************)
EXTENDS PluginRuntime, FiniteSetTheorems, TLAPS

\* The tasks of run r that hold a permit, and those that hold a connection.
Held(tasks, r) == {t \in Tasks : tasks[t].run = r /\ tasks[t].st \in {"conn"} \cup HasConn}
Using(tasks) == {t \in Tasks : tasks[t].st \in HasConn}

\* The permits of run r that are not drained, free or held.
Left(perms, tasks, r) == perms[r] + Cardinality(Held(tasks, r))

Histories == [home : {"sqlite", "postgres", Null}, left : SUBSET {"sqlite", "postgres"},
              cut : BOOLEAN, drained : SUBSET Runs]

\* TypeOK, but for the limits of the proxies and the pool and for the tasks.
StateOK ==
    /\ pc \in {"absent", "stopped", "starting", "running", "stopping", "draining", "deleting"}
    /\ type \in {"sqlalchemy", "asyncpg"}
    /\ engine \in {"sqlite", "postgres", Null}
    /\ db \in Databases \cup {Null}
    /\ made \in 0..MaxMade /\ run \in 0..MaxRuns /\ drain \in 0..MaxConns
    /\ store \in [{"sqlite", "postgres"} -> 0..MaxMade]
    /\ permits \in [Runs -> Nat] /\ default \in [Runs -> Paths]
    /\ conns \in [Paths -> Nat]
    /\ history \in Histories

\* What a task keeps: it belongs to a run so far, and past that run's stop()
\* it is cancelled or stray.
TaskOK(f) ==
    f.st # "none" =>
        /\ f.run \in Runs /\ f.run <= run
        /\ f.run < run \/ pc \notin {"starting", "running"} =>
               f.cancel # "no" \/ f.stray

TasksOK ==
    /\ task \in [Tasks -> TaskType]
    /\ \A t \in Tasks : TaskOK(task[t])

\* The proxy in use is that of the last run, for the engine in the row, and
\* only a drain in progress has permits to take.
DbOK ==
    /\ pc \in {"starting", "running", "stopping", "draining", "deleting"} =>
           db # Null
    /\ pc \in {"starting", "running", "stopping"} => db.run = run
    /\ db # Null => db.run <= run /\ db.kind = engine
    /\ pc \notin {"draining", "deleting"} => drain = 0
    /\ \A r \in history.drained : r <= run

\* The permits and the connections are conserved: none is made by a release
\* or a cancellation.
CountOK ==
    /\ \A r \in Runs : IsFiniteSet(Held(task, r)) /\ Left(permits, task, r) <= MaxConns
    /\ drain > 0 => Left(permits, task, db.run) <= drain
    /\ \A r \in history.drained : Left(permits, task, r) = 0
    /\ IsFiniteSet(Using(task))
    /\ conns["default"] + conns["schema"] + Cardinality(Using(task)) <= PoolSize

\* A task that sets the search path has a connection with the default one, as long
\* as no cancellation cut that short.
PathsOK ==
    ~history.cut => \A t \in Tasks : task[t].st = "set" => task[t].path = "default"

\* Data is where the instance began, but for what a delete left.
DataOK ==
    /\ pc # "absent" /\ history.home # Null =>
           \/ engine = history.home
           \/ engine = Null /\ history.home = "sqlite" /\ store["sqlite"] # 0
    /\ \A s \in {"sqlite", "postgres"} : store[s] # 0 =>
           s \in history.left \/ (pc # "absent" /\ s = history.home /\ store[s] = made)

\* The inductive invariant.
IInv == StateOK /\ TasksOK /\ DbOK /\ CountOK /\ PathClean /\ PathsOK /\ DataOK /\ OwnData

\* The invariant contains the properties that TLC checks.
LEMMA IInvImplies ==
    IInv => PathClean /\ DrainedIsFinal /\ NoStrayTasks /\ OwnData
<1> SUFFICES ASSUME IInv PROVE DrainedIsFinal /\ NoStrayTasks
  BY DEF IInv
<1>1. \A r \in Runs : /\ Cardinality(Held(task, r)) \in Nat
                      /\ permits[r] \in Nat
                      /\ permits[r] + Cardinality(Held(task, r)) <= MaxConns
  BY FS_CardinalityType DEF IInv, CountOK, StateOK, Left
<1>2. permits \in [Runs -> 0..MaxConns]
  BY <1>1, BoundsAssumption DEF IInv, StateOK
<1>3. conns \in [Paths -> 0..PoolSize]
  <2>1. Cardinality(Using(task)) \in Nat
    BY FS_CardinalityType DEF IInv, CountOK
  <2>2. conns["default"] \in 0..PoolSize /\ conns["schema"] \in 0..PoolSize
    BY <2>1, BoundsAssumption DEF IInv, CountOK, StateOK, Paths
  <2> QED
    BY <2>2 DEF IInv, StateOK, Paths
<1>4. TypeOK
  BY <1>2, <1>3 DEF IInv, StateOK, TasksOK, TypeOK, Histories
<1>5. ASSUME NEW r \in history.drained
      PROVE  /\ permits[r] = 0
             /\ \A t \in Tasks : task[t].run = r => task[t].st \notin {"conn"} \cup HasConn
  <2>1. r \in Runs
    BY DEF IInv, StateOK, Histories
  <2>2. permits[r] = 0 /\ Cardinality(Held(task, r)) = 0
    BY <1>1, <2>1 DEF IInv, CountOK, Left
  <2>3. Held(task, r) = {}
    BY <2>1, <2>2, FS_EmptySet DEF IInv, CountOK
  <2> QED
    BY <2>2, <2>3 DEF Held
<1>6. NoStrayTasks
  BY DEF IInv, TasksOK, TaskOK, NoStrayTasks, StateOK
<1> QED
  BY <1>4, <1>5, <1>6 DEF DrainedIsFinal

LEMMA NoTaskOK == NoTask \in TaskType /\ TaskOK(NoTask) /\ NoTask.st = "none"
BY BoundsAssumption DEF NoTask, TaskType, TaskOK, Paths

\* No task holds anything at the beginning and after a restart.
LEMMA NothingHeld ==
    ASSUME NEW tasks, tasks = [t \in Tasks |-> NoTask]
    PROVE  /\ \A r \in Runs : /\ IsFiniteSet(Held(tasks, r))
                              /\ Cardinality(Held(tasks, r)) = 0
           /\ IsFiniteSet(Using(tasks)) /\ Cardinality(Using(tasks)) = 0
<1>1. (\A r \in Runs : Held(tasks, r) = {}) /\ Using(tasks) = {}
  BY DEF Held, Using, NoTask, HasConn
<1> QED
  BY <1>1, FS_EmptySet

LEMMA InitIInv == Init => IInv
<1> SUFFICES ASSUME Init PROVE IInv
  OBVIOUS
<1>1. history = [home |-> IF made = 0 THEN Null ELSE "sqlite",
                 left |-> {}, cut |-> FALSE, drained |-> {}]
  BY DEF Init
<1>2. history \in Histories
  BY <1>1 DEF Histories
<1>3. /\ store \in [{"sqlite", "postgres"} -> 0..MaxMade]
      /\ made \in 0..MaxMade
      /\ store["sqlite"] = made /\ store["postgres"] = 0
  BY BoundsAssumption DEF Init
<1>4. StateOK /\ PathClean
  BY <1>2, <1>3, BoundsAssumption DEF Init, StateOK, PathClean, NewPool, Paths
<1>5. TasksOK /\ PathsOK
  BY NoTaskOK DEF Init, TasksOK, PathsOK
<1>6. CountOK
  BY <1>1, NothingHeld, BoundsAssumption DEF Init, CountOK, Left, NewPool, Paths
<1>7. DbOK /\ DataOK /\ OwnData
  BY <1>1, <1>3 DEF Init, DbOK, DataOK, OwnData
<1> QED
  BY <1>4, <1>5, <1>6, <1>7 DEF IInv

-----------------------------------------------------------------------------
(* Steps of a task                                                         *)

Holds(f, r) == f.run = r /\ f.st \in {"conn"} \cup HasConn

\* How the holders change when the task t becomes f.
LEMMA Changed ==
    ASSUME TasksOK, NEW t \in Tasks, NEW f, task' = [task EXCEPT ![t] = f]
    PROVE  /\ \A r : Held(task', r) = IF Holds(f, r) THEN Held(task, r) \cup {t}
                                      ELSE Held(task, r) \ {t}
           /\ Using(task') = IF f.st \in HasConn THEN Using(task) \cup {t}
                             ELSE Using(task) \ {t}
           /\ \A r : t \in Held(task, r) <=> Holds(task[t], r)
           /\ t \in Using(task) <=> task[t].st \in HasConn
<1>1. \A s \in Tasks : task'[s] = IF s = t THEN f ELSE task[s]
  BY DEF TasksOK
<1> QED
  BY <1>1 DEF Held, Using, Holds

\* One member comes or goes.
LEMMA OneMore ==
    ASSUME NEW S, IsFiniteSet(S), NEW x, NEW T, T = S \cup {x}
    PROVE  /\ IsFiniteSet(T)
           /\ Cardinality(T) = Cardinality(S) + (IF x \in S THEN 0 ELSE 1)
<1>1. Cardinality(S) \in Nat
  BY FS_CardinalityType
<1>2. /\ IsFiniteSet(S \cup {x})
      /\ Cardinality(S \cup {x}) =
             IF x \in S THEN Cardinality(S) ELSE Cardinality(S) + 1
  BY FS_AddElement
<1> QED
  BY <1>1, <1>2

LEMMA OneLess ==
    ASSUME NEW S, IsFiniteSet(S), NEW x, NEW T, T = S \ {x}
    PROVE  /\ IsFiniteSet(T)
           /\ Cardinality(T) = Cardinality(S) - (IF x \in S THEN 1 ELSE 0)
<1>1. Cardinality(S) \in Nat
  BY FS_CardinalityType
<1>2. /\ IsFiniteSet(S \ {x})
      /\ Cardinality(S \ {x}) =
             IF x \in S THEN Cardinality(S) - 1 ELSE Cardinality(S)
  BY FS_RemoveElement
<1> QED
  BY <1>1, <1>2

\* The number of permits of run r in use.
LEMMA HeldChanged ==
    ASSUME TasksOK, NEW t \in Tasks, NEW f, task' = [task EXCEPT ![t] = f],
           NEW r,
           IsFiniteSet(Held(task, r))
    PROVE  /\ IsFiniteSet(Held(task', r))
           /\ Cardinality(Held(task', r)) =
                  Cardinality(Held(task, r)) - (IF Holds(task[t], r) THEN 1 ELSE 0)
                                  + (IF Holds(f, r) THEN 1 ELSE 0)
<1>1. Cardinality(Held(task, r)) \in Nat
  BY FS_CardinalityType
<1>2. t \in Held(task, r) <=> Holds(task[t], r)
  BY Changed
<1>3. CASE Holds(f, r)
  <2>1. Held(task', r) = Held(task, r) \cup {t}
    BY <1>3, Changed
  <2>2. /\ IsFiniteSet(Held(task', r))
        /\ Cardinality(Held(task', r)) =
               Cardinality(Held(task, r)) + (IF t \in Held(task, r) THEN 0 ELSE 1)
    BY <2>1, OneMore
  <2> QED
    BY <1>1, <1>2, <1>3, <2>2
<1>4. CASE ~Holds(f, r)
  <2>1. Held(task', r) = Held(task, r) \ {t}
    BY <1>4, Changed
  <2>2. /\ IsFiniteSet(Held(task', r))
        /\ Cardinality(Held(task', r)) =
               Cardinality(Held(task, r)) - (IF t \in Held(task, r) THEN 1 ELSE 0)
    BY <2>1, OneLess
  <2> QED
    BY <1>1, <1>2, <1>4, <2>2
<1> QED
  BY <1>3, <1>4

\* The number of connections in use.
LEMMA UsingChanged ==
    ASSUME TasksOK, NEW t \in Tasks, NEW f, task' = [task EXCEPT ![t] = f],
           IsFiniteSet(Using(task))
    PROVE  /\ IsFiniteSet(Using(task'))
           /\ Cardinality(Using(task')) =
                  Cardinality(Using(task)) - (IF task[t].st \in HasConn THEN 1 ELSE 0)
                                  + (IF f.st \in HasConn THEN 1 ELSE 0)
<1>1. Cardinality(Using(task)) \in Nat
  BY FS_CardinalityType
<1>2. t \in Using(task) <=> task[t].st \in HasConn
  BY Changed
<1>3. CASE f.st \in HasConn
  <2>1. Using(task') = Using(task) \cup {t}
    BY <1>3, Changed
  <2>2. /\ IsFiniteSet(Using(task'))
        /\ Cardinality(Using(task')) =
               Cardinality(Using(task)) + (IF t \in Using(task) THEN 0 ELSE 1)
    BY <2>1, OneMore
  <2> QED
    BY <1>1, <1>2, <1>3, <2>2
<1>4. CASE f.st \notin HasConn
  <2>1. Using(task') = Using(task) \ {t}
    BY <1>4, Changed
  <2>2. /\ IsFiniteSet(Using(task'))
        /\ Cardinality(Using(task')) =
               Cardinality(Using(task)) - (IF t \in Using(task) THEN 1 ELSE 0)
    BY <2>1, OneLess
  <2> QED
    BY <1>1, <1>2, <1>4, <2>2
<1> QED
  BY <1>3, <1>4

\* The idle connections.
Idle(c) == c["default"] + c["schema"]

\* What a step of a task leaves alone; it may only remember that it was cut short.
Aside ==
    /\ UNCHANGED Others
    /\ history' \in Histories /\ history'.drained = history.drained
    /\ history'.home = history.home /\ history'.left = history.left
    /\ history.cut => history'.cut

\* A step of a task that conserves permits and connections keeps the invariant.
LEMMA TaskStep ==
    ASSUME IInv, NEW t \in Tasks, NEW f \in TaskType, TaskOK(f),
           task' = [task EXCEPT ![t] = f], Aside,
           permits' \in [Runs -> Nat], conns' \in [Paths -> Nat],
           ~history'.cut => conns'["schema"] = 0 /\ (f.st = "set" => f.path = "default"),
           \A r \in Runs :
               permits'[r] = permits[r] + (IF Holds(task[t], r) THEN 1 ELSE 0)
                                        - (IF Holds(f, r) THEN 1 ELSE 0),
           Idle(conns') = Idle(conns)
               + (IF task[t].st \in HasConn THEN 1 ELSE 0)
               - (IF f.st \in HasConn THEN 1 ELSE 0)
    PROVE  IInv'
<1>0. /\ UNCHANGED Others /\ history' \in Histories /\ history'.drained = history.drained
      /\ history'.home = history.home /\ history'.left = history.left
      /\ history.cut => history'.cut
  BY DEF Aside
<1>1. StateOK' /\ DbOK' /\ DataOK' /\ OwnData'
  BY <1>0 DEF IInv, Others, StateOK, DbOK, DataOK, OwnData
<1>a. PathClean' /\ PathsOK'
  <2>1. /\ task' \in [Tasks -> TaskType]
        /\ \A s \in Tasks : task'[s] = IF s = t THEN f ELSE task[s]
    BY DEF IInv, TasksOK
  <2>2. ~history.cut => /\ \A r \in Runs : default[r] = "default"
                        /\ \A s \in Tasks : task[s].st = "set" => task[s].path = "default"
    BY DEF IInv, PathClean, PathsOK
  <2>3. default' = default
    BY <1>0 DEF Others
  <2>4. PathClean'
    BY <1>0, <2>2, <2>3 DEF PathClean
  <2>5. PathsOK'
    BY <1>0, <2>1, <2>2 DEF PathsOK
  <2> QED
    BY <2>4, <2>5
<1>2. TasksOK'
  <2>1. /\ task' \in [Tasks -> TaskType]
        /\ \A s \in Tasks : task'[s] = IF s = t THEN f ELSE task[s]
    BY DEF IInv, TasksOK
  <2>2. \A s \in Tasks : TaskOK(task'[s])
    BY <2>1 DEF IInv, TasksOK
  <2>3. pc' = pc /\ run' = run
    BY <1>0 DEF Others
  <2>4. ASSUME NEW s \in Tasks PROVE TaskOK(task[s])'
    BY <2>2, <2>3 DEF TaskOK
  <2> QED
    BY <2>1, <2>4 DEF TasksOK
<1>3. ASSUME NEW r \in Runs
      PROVE  /\ IsFiniteSet(Held(task', r))
             /\ Left(permits', task', r) = Left(permits, task, r)
  <2>1. /\ IsFiniteSet(Held(task, r)) /\ Cardinality(Held(task, r)) \in Nat
        /\ permits[r] \in Nat
    BY FS_CardinalityType DEF IInv, CountOK, StateOK
  <2>2. /\ IsFiniteSet(Held(task', r))
        /\ Cardinality(Held(task', r)) =
               Cardinality(Held(task, r)) - (IF Holds(task[t], r) THEN 1 ELSE 0)
                                          + (IF Holds(f, r) THEN 1 ELSE 0)
    BY <2>1, HeldChanged DEF IInv
  <2> QED
    BY <2>1, <2>2 DEF Left
<1>4. /\ IsFiniteSet(Using(task'))
      /\ Idle(conns') + Cardinality(Using(task')) <= PoolSize
  <2>1. /\ IsFiniteSet(Using(task)) /\ Cardinality(Using(task)) \in Nat
        /\ Idle(conns) \in Nat
        /\ Idle(conns) + Cardinality(Using(task)) <= PoolSize
    BY FS_CardinalityType DEF IInv, CountOK, StateOK, Paths, Idle
  <2>2. /\ IsFiniteSet(Using(task'))
        /\ Cardinality(Using(task')) =
               Cardinality(Using(task)) - (IF task[t].st \in HasConn THEN 1 ELSE 0)
                                        + (IF f.st \in HasConn THEN 1 ELSE 0)
    BY <2>1, UsingChanged DEF IInv
  <2> QED
    BY <2>1, <2>2, BoundsAssumption
<1>5. CountOK'
  <2>1. drain > 0 => db.run \in Runs
    BY DEF IInv, DbOK, StateOK, Databases
  <2>2. history.drained \subseteq Runs
    BY DEF IInv, StateOK, Histories
  <2>3. drain' = drain /\ db' = db /\ history'.drained = history.drained
    BY <1>0 DEF Others
  <2>4. /\ \A r \in Runs : Left(permits, task, r) <= MaxConns
        /\ drain > 0 => Left(permits, task, db.run) <= drain
        /\ \A r \in history.drained : Left(permits, task, r) = 0
    BY DEF IInv, CountOK
  <2>5. conns'["default"] + conns'["schema"] + Cardinality(Using(task')) <= PoolSize
    BY <1>4 DEF Idle
  <2> QED
    BY <1>3, <1>4, <2>1, <2>2, <2>3, <2>4, <2>5 DEF CountOK
<1> QED
  BY <1>1, <1>a, <1>2, <1>5 DEF IInv

\* Nothing but the task, its permit and its connection changes.
LEMMA AsideRest == ASSUME IInv, UNCHANGED Rest PROVE Aside
BY DEF IInv, StateOK, Rest, Others, Aside

\* A step of a task that neither gets nor gives anything.
LEMMA IdleStep ==
    ASSUME IInv, NEW t \in Tasks, NEW f \in TaskType, TaskOK(f),
           task' = [task EXCEPT ![t] = f], UNCHANGED <<Rest, permits, conns>>,
           f.st # "set",
           \/ task[t].st \notin {"conn"} \cup HasConn /\ f.st \notin {"conn"} \cup HasConn
           \/ task[t].st \in HasConn /\ f.st \in HasConn /\ f.run = task[t].run
    PROVE  IInv'
<1>1. /\ permits \in [Runs -> Nat] /\ conns \in [Paths -> Nat]
      /\ ~history.cut => conns["schema"] = 0
      /\ Idle(conns) \in Nat
  BY DEF IInv, StateOK, PathClean, Paths, Idle
<1>2. /\ \A r \in Runs : permits'[r] = permits[r] + (IF Holds(task[t], r) THEN 1 ELSE 0)
                                                   - (IF Holds(f, r) THEN 1 ELSE 0)
      /\ Idle(conns') = Idle(conns) + (IF task[t].st \in HasConn THEN 1 ELSE 0)
                                     - (IF f.st \in HasConn THEN 1 ELSE 0)
  <2>1. \A r \in Runs : permits[r] \in Nat /\ permits'[r] = permits[r]
    BY <1>1
  <2>2. Idle(conns') = Idle(conns)
    OBVIOUS
  <2>3. CASE task[t].st \notin {"conn"} \cup HasConn /\ f.st \notin {"conn"} \cup HasConn
    BY <1>1, <2>1, <2>2, <2>3 DEF Holds
  <2>4. CASE task[t].st \in HasConn /\ f.st \in HasConn /\ f.run = task[t].run
    BY <1>1, <2>1, <2>2, <2>4 DEF Holds
  <2> QED
    BY <2>3, <2>4
<1>3. /\ permits' = permits /\ conns' = conns /\ history' = history /\ Aside
  BY AsideRest DEF Rest
<1> QED
  BY <1>1, <1>2, <1>3, TaskStep

\* What a task becomes when its function returns.
LEMMA ReturnedOK ==
    ASSUME IInv, NEW t \in Tasks, task[t].st # "none"
    PROVE  /\ Returned(t) \in TaskType /\ TaskOK(Returned(t))
           /\ Returned(t).st \in {"none", "sleep"}
<1>1. task[t] \in TaskType /\ TaskOK(task[t])
  BY DEF IInv, TasksOK
<1>2. Returned(t) \in {[task[t] EXCEPT !.st = "sleep", !.path = "default"], NoTask}
  BY DEF Returned
<1> QED
  BY <1>1, <1>2, NoTaskOK DEF TaskType, TaskOK, Paths

\* A task gives its permit back.
LEMMA PermitBack ==
    ASSUME IInv, NEW t \in Tasks, task[t].st \in {"conn"} \cup HasConn,
           NEW f \in TaskType, f.st \in {"none", "sleep"},
           permits' = [permits EXCEPT ![task[t].run] = @ + 1]
    PROVE  /\ permits' \in [Runs -> Nat]
           /\ \A r \in Runs :
                  permits'[r] = permits[r] + (IF Holds(task[t], r) THEN 1 ELSE 0)
                                           - (IF Holds(f, r) THEN 1 ELSE 0)
<1>1. permits \in [Runs -> Nat] /\ task[t].run \in Runs
  BY DEF IInv, StateOK, TasksOK, TaskOK, HasConn
<1>2. \A r \in Runs : ~Holds(f, r) /\ (Holds(task[t], r) <=> r = task[t].run)
  BY DEF Holds, HasConn
<1> QED
  BY <1>1, <1>2

\* A task gives its connection and its permit back: the pool stays clean if the
\* connection is, or the step remembers that it was cut short.
LEMMA GivesBack ==
    ASSUME IInv, NEW t \in Tasks, task[t].st \in HasConn,
           NEW f \in TaskType, TaskOK(f), f.st \in {"none", "sleep"},
           NEW p \in Paths, GiveBack(t, p, f), Aside,
           ~history'.cut => p = "default"
    PROVE  IInv'
<1>1. /\ conns' = [conns EXCEPT ![p] = @ + 1]
      /\ permits' = [permits EXCEPT ![task[t].run] = @ + 1]
      /\ task' = [task EXCEPT ![t] = f]
  BY DEF GiveBack, Set
<1>2. /\ permits' \in [Runs -> Nat]
      /\ \A r \in Runs :
             permits'[r] = permits[r] + (IF Holds(task[t], r) THEN 1 ELSE 0)
                                      - (IF Holds(f, r) THEN 1 ELSE 0)
  <2>1. task[t].st \in {"conn"} \cup HasConn
    OBVIOUS
  <2> QED
    BY <1>1, <2>1, PermitBack
<1>3. /\ conns \in [Paths -> Nat] /\ conns["default"] \in Nat /\ conns["schema"] \in Nat
      /\ p = "default" \/ p = "schema"
  BY DEF IInv, StateOK, Paths
<1>4. /\ conns' \in [Paths -> Nat]
      /\ conns'["default"] = IF p = "default" THEN conns["default"] + 1 ELSE conns["default"]
      /\ conns'["schema"] = IF p = "schema" THEN conns["schema"] + 1 ELSE conns["schema"]
  BY <1>1, <1>3 DEF Paths
<1>5. Idle(conns') = Idle(conns) + 1
  BY <1>3, <1>4 DEF Idle
<1>6. f.st \notin HasConn /\ Idle(conns) \in Nat
  BY <1>3 DEF HasConn, Idle
<1>7. ~history'.cut => conns'["schema"] = 0
  <2>1. ~history'.cut => ~history.cut
    BY DEF Aside
  <2> QED
    BY <1>4, <2>1 DEF IInv, PathClean
<1>8. Idle(conns') = Idle(conns) + (IF task[t].st \in HasConn THEN 1 ELSE 0)
                                  - (IF f.st \in HasConn THEN 1 ELSE 0)
  BY <1>5, <1>6
<1> QED
  BY <1>1, <1>2, <1>4, <1>7, <1>8, TaskStep

\* Every step of a task keeps the invariant.
LEMMA TaskStepsOK ==
    ASSUME IInv, NEW t \in Tasks, TaskSteps(t)
    PROVE  IInv'
<1>0. /\ task[t] \in TaskType /\ TaskOK(task[t])
      /\ permits \in [Runs -> Nat] /\ conns \in [Paths -> Nat]
      /\ conns["schema"] \in Nat /\ conns["default"] \in Nat
      /\ default \in [Runs -> Paths]
  BY DEF IInv, StateOK, TasksOK, Paths
<1>a. ~history.cut => /\ conns["schema"] = 0 /\ \A r \in Runs : default[r] = "default"
                      /\ task[t].st = "set" => task[t].path = "default"
  BY DEF IInv, PathClean, PathsOK
<1>1. CASE Schedule(t)
  <2>1. PICK loop \in BOOLEAN : task' = [task EXCEPT ![t] =
             [NoTask EXCEPT !.run = run, !.st = "sleep", !.loop = loop,
                            !.pool = db.kind = "postgres",
                            !.stray = pc = "stopping"]]
    BY <1>1 DEF Schedule, Set
  <2> DEFINE f == [NoTask EXCEPT !.run = run, !.st = "sleep", !.loop = loop,
                                 !.pool = db.kind = "postgres",
                                 !.stray = pc = "stopping"]
  <2>2. run \in Runs /\ run \in 0..MaxRuns
    BY <1>1 DEF Schedule, IInv, DbOK, StateOK, Databases
  <2>3. /\ f \in TaskType /\ f.st = "sleep" /\ f.run = run
        /\ f.stray <=> pc = "stopping"
    BY <2>2 DEF NoTask, TaskType, Paths
  <2>4. TaskOK(f)
    BY <1>1, <2>2, <2>3 DEF TaskOK, Schedule, Runs
  <2> HIDE DEF f
  <2>5. task[t].st = "none" /\ UNCHANGED <<Rest, permits, conns>> /\ task' = [task EXCEPT ![t] = f]
    BY <1>1, <2>1 DEF Schedule, f
  <2> QED
    BY <2>3, <2>4, <2>5, IdleStep DEF HasConn
<1>2. CASE Wake(t)
  <2> DEFINE works == IF task[t].pool THEN "permit" ELSE "sleep"
             f == IF works = "sleep" /\ ~task[t].loop THEN NoTask
                  ELSE [task[t] EXCEPT !.st = works]
             g == [task[t] EXCEPT !.loop = FALSE, !.st = works]
  <2>1. works \in {"permit", "sleep"} /\ task[t].st = "sleep"
    BY <1>2 DEF Wake
  <2>2. /\ f \in TaskType /\ TaskOK(f) /\ f.st \in {"none", "permit", "sleep"}
        /\ g \in TaskType /\ TaskOK(g) /\ g.st \in {"none", "permit", "sleep"}
    <3> HIDE DEF works
    <3>1. [task[t] EXCEPT !.st = works] \in TaskType /\ g \in TaskType
      BY <1>0, <2>1 DEF TaskType
    <3>2. TaskOK([task[t] EXCEPT !.st = works]) /\ TaskOK(g)
      BY <1>0, <2>1 DEF TaskType, TaskOK
    <3> QED
      BY <1>0, <2>1, <3>1, <3>2, NoTaskOK DEF TaskType
  <2>3. \/ task' = [task EXCEPT ![t] = f]
        \/ \E s \in Tasks : task[s].st = "none" /\ task' = [task EXCEPT ![s] = g]
    BY <1>2 DEF Wake, Set
  <2>4. UNCHANGED <<Rest, permits, conns>>
    BY <1>2 DEF Wake
  <2> HIDE DEF f, g
  <2> QED
    BY <2>1, <2>2, <2>3, <2>4, IdleStep DEF HasConn
<1>3. CASE TakePermit(t)
  <2> DEFINE f == [task[t] EXCEPT !.st = "conn"]
  <2>1. /\ f \in TaskType /\ TaskOK(f) /\ f.st = "conn" /\ f.run = task[t].run
        /\ task[t].run \in Runs /\ task[t].st = "permit"
    BY <1>0, <1>3 DEF TakePermit, TaskType, TaskOK
  <2>2. /\ permits' \in [Runs -> Nat]
        /\ task' = [task EXCEPT ![t] = f] /\ UNCHANGED <<Rest, conns>>
    BY <1>0, <1>3, <2>1 DEF TakePermit, Set
  <2>3. \A r \in Runs :
            permits'[r] = permits[r] + (IF Holds(task[t], r) THEN 1 ELSE 0)
                                     - (IF Holds(f, r) THEN 1 ELSE 0)
    <3> HIDE DEF f
    <3>1. \A r \in Runs : ~Holds(task[t], r) /\ (Holds(f, r) <=> r = task[t].run)
      BY <2>1 DEF Holds, HasConn
    <3> QED
      BY <1>0, <1>3, <2>1, <3>1 DEF TakePermit
  <2>4. /\ Idle(conns') = Idle(conns) + (IF task[t].st \in HasConn THEN 1 ELSE 0)
                                      - (IF f.st \in HasConn THEN 1 ELSE 0)
        /\ history' = history /\ Aside
    <3>1. Idle(conns) \in Nat /\ Idle(conns') = Idle(conns)
      BY <1>0, <2>2 DEF Idle
    <3>2. task[t].st \notin HasConn /\ f.st \notin HasConn
      BY <2>1 DEF HasConn
    <3>3. history' = history /\ Aside
      BY <2>2, AsideRest DEF Rest
    <3> QED
      BY <3>1, <3>2, <3>3
  <2> HIDE DEF f
  <2> QED
    BY <1>0, <1>a, <2>1, <2>2, <2>3, <2>4, TaskStep
<1>4. CASE TakeConn(t)
  <2>1. PICK p \in Paths :
            /\ conns[p] > 0
            /\ conns' = [conns EXCEPT ![p] = @ - 1]
            /\ Set(t, [task[t] EXCEPT !.st = "set", !.path = p])
    BY <1>4 DEF TakeConn
  <2> DEFINE f == [task[t] EXCEPT !.st = "set", !.path = p]
  <2>2. task[t].st = "conn" /\ permits' = permits /\ history' = history /\ Aside
    BY <1>4, AsideRest DEF TakeConn, Rest
  <2>3. /\ f \in TaskType /\ TaskOK(f) /\ f.st = "set" /\ f.run = task[t].run /\ f.path = p
    BY <1>0, <2>2 DEF TaskType, TaskOK
  <2>4. task' = [task EXCEPT ![t] = f]
    BY <2>1 DEF Set
  <2> HIDE DEF f
  <2>5. /\ conns' \in [Paths -> Nat] /\ p \in {"default", "schema"}
        /\ conns'["default"] = IF p = "default" THEN conns["default"] - 1 ELSE conns["default"]
        /\ conns'["schema"] = IF p = "schema" THEN conns["schema"] - 1 ELSE conns["schema"]
    BY <1>0, <2>1 DEF Paths
  <2>6. Idle(conns') = Idle(conns) - 1 /\ Idle(conns) \in Nat
    BY <1>0, <2>1, <2>5 DEF Idle
  <2>7. ~history'.cut => conns'["schema"] = 0 /\ (f.st = "set" => f.path = "default")
    BY <1>0, <1>a, <2>1, <2>2, <2>3, <2>5
  <2>8. \A r \in Runs :
            permits'[r] = permits[r] + (IF Holds(task[t], r) THEN 1 ELSE 0)
                                     - (IF Holds(f, r) THEN 1 ELSE 0)
    <3>1. \A r \in Runs : Holds(task[t], r) <=> Holds(f, r)
      BY <2>2, <2>3 DEF Holds, HasConn
    <3>2. \A r \in Runs : permits[r] \in Nat
      BY <1>0
    <3> QED
      BY <2>2, <3>1, <3>2
  <2>9. Idle(conns') = Idle(conns) + (IF task[t].st \in HasConn THEN 1 ELSE 0)
                                   - (IF f.st \in HasConn THEN 1 ELSE 0)
    <3>1. task[t].st \notin HasConn /\ f.st \in HasConn
      BY <2>2, <2>3 DEF HasConn
    <3> QED
      BY <2>6, <3>1
  <2> QED
    BY <1>0, <2>2, <2>3, <2>4, <2>5, <2>7, <2>8, <2>9, TaskStep
<1>5. CASE SetPath(t)
  <2>1. task[t].st = "set" /\ UNCHANGED Rest /\ history' = history /\ Aside
    BY <1>5, AsideRest DEF SetPath, Rest
  <2>2. CASE Set(t, [task[t] EXCEPT !.st = "use", !.path = "schema"]) /\ UNCHANGED <<permits, conns>>
    <3> DEFINE f == [task[t] EXCEPT !.st = "use", !.path = "schema"]
    <3>1. /\ f \in TaskType /\ TaskOK(f) /\ f.st = "use" /\ f.run = task[t].run
      BY <1>0, <2>1 DEF TaskType, TaskOK, Paths
    <3>2. task' = [task EXCEPT ![t] = f] /\ UNCHANGED <<Rest, permits, conns>>
      BY <2>1, <2>2 DEF Set
    <3> HIDE DEF f
    <3> QED
      BY <2>1, <3>1, <3>2, IdleStep DEF HasConn
  <2>3. CASE GiveBack(t, task[t].path, Returned(t))
    <3>1. task[t].path \in Paths /\ (~history'.cut => task[t].path = "default")
      BY <1>0, <1>a, <2>1 DEF TaskType
    <3>2. task[t].st \in HasConn
      BY <2>1 DEF HasConn
    <3> QED
      BY <2>1, <2>3, <3>1, <3>2, ReturnedOK, GivesBack
  <2> QED
    BY <1>5, <2>2, <2>3 DEF SetPath
<1>6. CASE Leave(t)
  <2>1. task[t].st = "use" /\ UNCHANGED Rest /\ history' = history /\ Aside
    BY <1>6, AsideRest DEF Leave, Rest
  <2>2. CASE /\ Set(t, [task[t] EXCEPT !.st = "reset", !.cancel = IF @ = "no" THEN @ ELSE "thrown"])
             /\ UNCHANGED <<permits, conns>>
    <3> DEFINE f == [task[t] EXCEPT !.st = "reset", !.cancel = IF @ = "no" THEN @ ELSE "thrown"]
    <3>1. /\ f \in TaskType /\ f.st = "reset" /\ f.run = task[t].run /\ f.stray = task[t].stray
          /\ task[t].cancel # "no" => f.cancel # "no"
      BY <1>0, <2>1 DEF TaskType
    <3>2. task' = [task EXCEPT ![t] = f] /\ UNCHANGED <<Rest, permits, conns>>
      BY <2>1, <2>2 DEF Set
    <3> HIDE DEF f
    <3>3. TaskOK(f)
      BY <1>0, <2>1, <3>1 DEF TaskOK
    <3> QED
      BY <2>1, <3>1, <3>2, <3>3, IdleStep DEF HasConn
  <2>3. CASE GiveBack(t, "default", Returned(t))
    <3>1. "default" \in Paths /\ task[t].st \in HasConn
      BY <2>1 DEF Paths, HasConn
    <3> QED
      BY <2>1, <2>3, <3>1, ReturnedOK, GivesBack
  <2> QED
    BY <1>6, <2>2, <2>3 DEF Leave
<1>7. CASE Release(t)
  <2>1. /\ task[t].st = "reset" /\ task[t].run \in Runs
        /\ UNCHANGED Rest /\ history' = history /\ Aside
    BY <1>0, <1>7, AsideRest DEF Release, TaskOK, Rest
  <2>2. PICK p \in ResetConn(task[t].run) : GiveBack(t, p, Returned(t))
    BY <1>7 DEF Release
  <2>3. p \in Paths /\ (~history'.cut => p = "default") /\ task[t].st \in HasConn
    BY <1>0, <1>a, <2>1, <2>2 DEF ResetConn, Paths, HasConn
  <2> QED
    BY <2>1, <2>2, <2>3, ReturnedOK, GivesBack
<1>8. CASE Cancelled(t)
  <2>0. UNCHANGED <<Rest, conns>> /\ history' = history /\ Aside /\ task' = [task EXCEPT ![t] = NoTask]
    BY <1>8, AsideRest DEF Cancelled, Rest, Set
  <2>1. CASE task[t].st = "conn"
    <3>1. permits' = [permits EXCEPT ![task[t].run] = @ + 1]
      BY <1>8, <2>1 DEF Cancelled
    <3>2. /\ permits' \in [Runs -> Nat]
          /\ \A r \in Runs :
                 permits'[r] = permits[r] + (IF Holds(task[t], r) THEN 1 ELSE 0)
                                          - (IF Holds(NoTask, r) THEN 1 ELSE 0)
      <4>1. task[t].st \in {"conn"} \cup HasConn /\ NoTask.st \in {"none", "sleep"}
        BY <2>1, NoTaskOK
      <4> QED
        BY <3>1, <4>1, NoTaskOK, PermitBack
    <3>3. Idle(conns') = Idle(conns) + (IF task[t].st \in HasConn THEN 1 ELSE 0)
                                     - (IF NoTask.st \in HasConn THEN 1 ELSE 0)
      <4>1. Idle(conns) \in Nat /\ Idle(conns') = Idle(conns)
        BY <1>0, <2>0 DEF Idle
      <4>2. task[t].st \notin HasConn /\ NoTask.st \notin HasConn
        BY <2>1, NoTaskOK DEF HasConn
      <4> QED
        BY <4>1, <4>2
    <3> QED
      BY <1>0, <1>a, <2>0, <3>2, <3>3, NoTaskOK, TaskStep
  <2>2. CASE task[t].st # "conn"
    <3>1. permits' = permits /\ task[t].st \in {"sleep", "permit"}
      BY <1>8, <2>2 DEF Cancelled
    <3> QED
      BY <2>0, <3>1, NoTaskOK, IdleStep DEF HasConn
  <2> QED
    BY <2>1, <2>2
<1>9. CASE CutShort(t)
  <2>1. PICK p \in {task[t].path, IF task[t].st = "set" THEN "schema" ELSE default[task[t].run]} :
            /\ GiveBack(t, p, NoTask)
            /\ history' = [history EXCEPT !.cut = @ \/ p = "schema"]
    BY <1>9 DEF CutShort
  <2>2. task[t].st \in {"set", "reset"} /\ UNCHANGED Others /\ task[t].run \in Runs
    BY <1>0, <1>9 DEF CutShort, TaskOK
  <2>3. p \in Paths
    BY <1>0, <2>1, <2>2 DEF TaskType, Paths
  <2>4. history \in Histories
    BY DEF IInv, StateOK
  <2>5. Aside /\ history'.cut = (history.cut \/ p = "schema")
    BY <2>1, <2>2, <2>4 DEF Aside, Histories
  <2>6. ~history'.cut => p = "default"
    BY <2>3, <2>5 DEF Paths
  <2>7. task[t].st \in HasConn
    BY <2>2 DEF HasConn
  <2> QED
    BY <2>1, <2>3, <2>5, <2>6, <2>7, NoTaskOK, GivesBack
<1> QED
  BY <1>1, <1>2, <1>3, <1>4, <1>5, <1>6, <1>7, <1>8, <1>9 DEF TaskSteps

-----------------------------------------------------------------------------
(* Steps of the instance                                                   *)

\* No drain is in progress after the step, or it goes on as it was.
LEMMA CountKept ==
    ASSUME CountOK, UNCHANGED <<permits, task, conns>>,
           history'.drained = history.drained,
           drain' = 0 \/ (drain' = drain /\ db' = db)
    PROVE  CountOK'
BY DEF CountOK, Left

\* The tasks stay, the run goes on or its stop() has seen to its tasks.
LEMMA TasksKept ==
    ASSUME TasksOK, UNCHANGED <<task, run>>,
           pc' \in {"starting", "running"} \/ pc \notin {"starting", "running"}
    PROVE  TasksOK'
<1>1. ASSUME NEW t \in Tasks PROVE TaskOK(task[t])'
  <2>1. TaskOK(task[t])
    BY DEF TasksOK
  <2> QED
    BY <2>1 DEF TaskOK
<1> QED
  BY <1>1 DEF TasksOK

\* The tasks of the run are cancelled or become stray: whatever comes next, they
\* are accounted for, and they hold what they held.
LEMMA TasksMarked ==
    ASSUME TasksOK, PathsOK, task' \in {SchedulerStopped, Strayed}, run' = run,
           run \in Nat, history' = history
    PROVE  /\ TasksOK' /\ PathsOK'
           /\ Using(task') = Using(task) /\ \A r : Held(task', r) = Held(task, r)
<1>1. ASSUME NEW t \in Tasks
      PROVE  /\ task'[t] \in TaskType
             /\ task'[t].st = task[t].st /\ task'[t].run = task[t].run
             /\ task'[t].path = task[t].path
             /\ task[t].stray => task'[t].stray
             /\ task[t].cancel # "no" => task'[t].cancel # "no"
             /\ task[t].st # "none" /\ task[t].run = run => task'[t].cancel # "no" \/ task'[t].stray
  <2>1. task[t] \in TaskType
    BY DEF TasksOK
  <2>2. task'[t] \in {task[t], [task[t] EXCEPT !.cancel = "asked"], [task[t] EXCEPT !.stray = TRUE]}
    BY DEF SchedulerStopped, Strayed
  <2>3. task[t].st # "none" /\ task[t].run = run =>
            task'[t] \in {[task[t] EXCEPT !.cancel = "asked"], [task[t] EXCEPT !.stray = TRUE]}
    BY DEF SchedulerStopped, Strayed
  <2> QED
    BY <2>1, <2>2, <2>3 DEF TaskType
<1>2. ASSUME NEW t \in Tasks PROVE TaskOK(task[t])'
  <2>1. TaskOK(task[t])
    BY DEF TasksOK
  <2>2. ASSUME task[t].st # "none", task[t].run # run PROVE task[t].run < run
    BY <2>1, <2>2, BoundsAssumption DEF TaskOK, Runs
  <2>3. task[t].st # "none" => task'[t].cancel # "no" \/ task'[t].stray
    BY <1>1, <2>1, <2>2 DEF TaskOK
  <2>4. task[t].st # "none" => task[t].run \in Runs /\ task[t].run <= run
    BY <2>1 DEF TaskOK
  <2>5. task'[t].st = task[t].st /\ task'[t].run = task[t].run
    BY <1>1
  <2> QED
    BY <2>3, <2>4, <2>5 DEF TaskOK
<1>3. task' \in [Tasks -> TaskType]
  BY <1>1 DEF SchedulerStopped, Strayed
<1>4. Using(task') = Using(task) /\ \A r : Held(task', r) = Held(task, r)
  BY <1>1 DEF Using, Held
<1>5. PathsOK'
  BY <1>1 DEF PathsOK
<1> QED
  BY <1>2, <1>3, <1>4, <1>5 DEF TasksOK

\* A drain begins: nothing of the proxy has been taken yet.
LEMMA DrainBegins ==
    ASSUME IInv, db # Null, drain' = Drain, UNCHANGED <<permits, conns, db>>,
           Using(task') = Using(task), \A r : Held(task', r) = Held(task, r),
           history'.drained = history.drained
    PROVE  CountOK' /\ drain' \in 0..MaxConns
<1>1. drain' \in {0, MaxConns} /\ db.run \in Runs /\ MaxConns \in Nat
  BY BoundsAssumption DEF Drain, IInv, StateOK, Databases
<1> QED
  BY <1>1 DEF IInv, CountOK, Left

\* Every step of the instance keeps the invariant.
LEMMA LifecycleOK == ASSUME IInv, Lifecycle PROVE IInv'
<1>0. /\ StateOK /\ TasksOK /\ DbOK /\ CountOK /\ PathClean /\ PathsOK /\ DataOK /\ OwnData
      /\ history \in Histories
      /\ run \in Nat /\ MaxConns \in Nat /\ history.drained \subseteq Runs
  BY BoundsAssumption DEF IInv, StateOK, Histories
<1>1. CASE Started
  <2>1. /\ history' = history /\ pc = "starting" /\ pc' \in {"running", "stopped"}
        /\ UNCHANGED <<type, engine, db, made, store, run, permits, default, drain, conns>>
        /\ (pc' = "running" /\ task' = task) \/ task' = Strayed
    BY <1>1 DEF Started, proxy
  <2>2. StateOK' /\ DbOK' /\ PathClean' /\ DataOK' /\ OwnData'
    BY <1>0, <2>1 DEF StateOK, DbOK, PathClean, DataOK, OwnData
  <2>3. TasksOK' /\ PathsOK' /\ CountOK'
    <3>1. CASE pc' = "running" /\ task' = task
      BY <1>0, <2>1, <3>1, TasksKept, CountKept DEF PathsOK
    <3>2. CASE task' = Strayed
      <4>1. /\ TasksOK' /\ PathsOK'
            /\ Using(task') = Using(task) /\ \A r : Held(task', r) = Held(task, r)
        BY <1>0, <2>1, <3>2, TasksMarked
      <4> QED
        BY <1>0, <2>1, <4>1 DEF CountOK, Left
    <3> QED
      BY <2>1, <3>1, <3>2
  <2> QED
    BY <2>2, <2>3 DEF IInv
<1>2. CASE SwitchType
  <2>1. StateOK' /\ DbOK' /\ PathClean' /\ PathsOK' /\ DataOK' /\ OwnData'
    BY <1>0, <1>2 DEF SwitchType, StateOK, DbOK, PathClean, PathsOK, DataOK, OwnData, proxy
  <2>2. TasksOK' /\ CountOK'
    BY <1>0, <1>2, TasksKept, CountKept DEF SwitchType, proxy
  <2> QED
    BY <2>1, <2>2 DEF IInv
<1>3. CASE StopHook
  <2>1. CountOK' /\ drain' \in 0..MaxConns
    BY <1>0, <1>3, DrainBegins DEF StopHook, DbOK, proxy
  <2>2. StateOK' /\ DbOK' /\ PathClean' /\ PathsOK' /\ DataOK' /\ OwnData'
    BY <1>0, <1>3, <2>1 DEF StopHook, StateOK, DbOK, PathClean, PathsOK, DataOK, OwnData, proxy
  <2>3. TasksOK'
    BY <1>0, <1>3, TasksKept DEF StopHook
  <2> QED
    BY <2>1, <2>2, <2>3 DEF IInv
<1>4. CASE DrainTimeout
  <2>1. StateOK' /\ DbOK' /\ PathClean' /\ PathsOK' /\ DataOK' /\ OwnData'
    BY <1>0, <1>4 DEF DrainTimeout, StateOK, DbOK, PathClean, PathsOK, DataOK, OwnData, proxy
  <2>2. TasksOK' /\ CountOK'
    BY <1>0, <1>4, TasksKept, CountKept DEF DrainTimeout, proxy
  <2> QED
    BY <2>1, <2>2 DEF IInv
<1>5. CASE Create
  <2>1. history' = [history EXCEPT !.home = Null]
    BY <1>5 DEF Create
  <2>2. /\ history' \in Histories /\ history'.drained = history.drained
        /\ history'.home = Null /\ history'.left = history.left /\ history'.cut = history.cut
    BY <1>0, <2>1 DEF Histories
  <2>3. StateOK' /\ DbOK' /\ PathClean' /\ PathsOK' /\ DataOK' /\ OwnData'
    BY <1>0, <1>5, <2>2, BoundsAssumption DEF Create, StateOK, DbOK, PathClean, PathsOK,
       DataOK, OwnData, proxy
  <2>4. TasksOK' /\ CountOK'
    BY <1>0, <1>5, <2>2, TasksKept, CountKept DEF Create, proxy, DbOK
  <2> QED
    BY <2>3, <2>4 DEF IInv
<1>6. CASE Delete
  <2>1. \/ db = Null /\ pc' = "absent" /\ drain' = 0
           /\ history' = [history EXCEPT !.left = Leftovers]
        \/ db # Null /\ pc' = "deleting" /\ drain' = Drain /\ history' = history
    BY <1>0, <1>6 DEF Delete, DbOK
  <2>2. /\ pc = "stopped"
        /\ UNCHANGED <<type, engine, db, made, store, run, permits, default, conns, task>>
    BY <1>6 DEF Delete, proxy
  <2>3. Leftovers = {s \in {"sqlite", "postgres"} : store[s] # 0}
    BY <1>0, <2>2 DEF Leftovers, StateOK
  <2>4. /\ history' \in Histories /\ history'.drained = history.drained
        /\ history'.home = history.home /\ history'.cut = history.cut
        /\ db = Null => \A s \in {"sqlite", "postgres"} : store[s] # 0 => s \in history'.left
        /\ db # Null => history' = history
    BY <1>0, <2>1, <2>3 DEF Histories
  <2>5. CountOK' /\ drain' \in 0..MaxConns
    <3>1. CASE db = Null
      BY <1>0, <2>1, <2>2, <2>4, <3>1, CountKept
    <3>2. CASE db # Null
      BY <1>0, <2>1, <2>2, <2>4, <3>2, DrainBegins
    <3> QED
      BY <3>1, <3>2
  <2>6. TasksOK'
    BY <1>0, <2>2, TasksKept
  <2>7. StateOK' /\ DbOK' /\ PathClean' /\ PathsOK' /\ DataOK' /\ OwnData'
    BY <1>0, <2>1, <2>2, <2>4, <2>5 DEF StateOK, DbOK, PathClean, PathsOK, DataOK, OwnData
  <2> QED
    BY <2>5, <2>6, <2>7 DEF IInv
<1>7. CASE Drained
  <2>1. StateOK' /\ DbOK' /\ PathClean' /\ PathsOK' /\ DataOK' /\ OwnData'
    BY <1>0, <1>7 DEF Drained, StateOK, DbOK, PathClean, PathsOK, DataOK, OwnData, proxy
  <2>2. TasksOK' /\ CountOK'
    BY <1>0, <1>7, TasksKept, CountKept DEF Drained, proxy
  <2> QED
    BY <2>1, <2>2 DEF IInv
<1>12. ASSUME NEW s \in {"sqlite", "postgres"}, Deleted(s) PROVE IInv'
  <2>1. /\ pc = "deleting" /\ drain = 0 /\ pc' = "absent" /\ db' = Null
        /\ history' = [history EXCEPT !.left = Leftovers]
        /\ UNCHANGED <<type, engine, made, run, permits, default, drain, conns, task>>
    BY <1>12 DEF Deleted, proxy
  <2>2. store' \in [{"sqlite", "postgres"} -> 0..MaxMade]
    <3>1. store' = store \/ store' = [store EXCEPT ![s] = 0]
      BY <1>12 DEF Deleted
    <3> QED
      BY <1>0, <3>1, BoundsAssumption DEF StateOK
  <2>3. Leftovers = {x \in {"sqlite", "postgres"} : store'[x] # 0}
    BY <1>0 DEF Leftovers, StateOK
  <2>4. /\ history' \in Histories /\ history'.drained = history.drained
        /\ history'.home = history.home /\ history'.cut = history.cut
        /\ \A x \in {"sqlite", "postgres"} : store'[x] # 0 => x \in history'.left
    BY <1>0, <2>1, <2>3 DEF Histories
  <2>5. StateOK' /\ DbOK' /\ PathClean' /\ PathsOK' /\ DataOK' /\ OwnData'
    BY <1>0, <2>1, <2>2, <2>4 DEF StateOK, DbOK, PathClean, PathsOK, DataOK, OwnData
  <2>6. TasksOK' /\ CountOK'
    BY <1>0, <2>1, <2>4, TasksKept, CountKept
  <2> QED
    BY <2>5, <2>6 DEF IInv
<1>13. CASE DeleteFile
  BY <1>12, <1>13 DEF DeleteFile
<1>14. CASE DropSchema
  BY <1>12, <1>14 DEF DropSchema
<1>8. CASE DrainOne
  <2>1. /\ db \in Databases /\ db.run \in Runs /\ permits[db.run] \in Nat \ {0}
        /\ drain \in 1..MaxConns /\ permits \in [Runs -> Nat]
    BY <1>0, <1>8 DEF DrainOne, DbOK, StateOK, Databases
  <2>2. /\ history' \in Histories /\ history'.home = history.home
        /\ history'.left = history.left /\ history'.cut = history.cut
        /\ history'.drained = IF drain = 1 THEN history.drained \cup {db.run}
                              ELSE history.drained
    BY <1>0, <1>8, <2>1 DEF DrainOne, Histories
  <2>3. /\ permits' \in [Runs -> Nat]
        /\ \A r \in Runs : permits'[r] = IF r = db.run THEN permits[r] - 1
                                         ELSE permits[r]
    BY <1>8, <2>1 DEF DrainOne
  <2>4. StateOK' /\ DbOK' /\ PathClean' /\ PathsOK' /\ DataOK' /\ OwnData'
    BY <1>0, <1>8, <2>1, <2>2, <2>3 DEF DrainOne, StateOK, DbOK, PathClean, PathsOK,
       DataOK, OwnData
  <2>5. TasksOK'
    BY <1>0, <1>8, <2>2, TasksKept DEF DrainOne
  <2>6. ASSUME NEW r \in Runs
        PROVE  /\ Left(permits', task', r) = Left(permits, task, r)
                       - (IF r = db.run THEN 1 ELSE 0)
               /\ Left(permits', task', r) \in Nat
               /\ Left(permits, task, r) \in Nat
    <3>1. Cardinality(Held(task, r)) \in Nat /\ permits[r] \in Nat
      BY <1>0, <2>1, FS_CardinalityType DEF CountOK
    <3>2. task' = task
      BY <1>8 DEF DrainOne
    <3> QED
      BY <2>1, <2>3, <3>1, <3>2 DEF Left
  <2>7. CountOK'
    <3>1. /\ task' = task /\ conns' = conns /\ db' = db
          /\ drain' = drain - 1
      BY <1>8 DEF DrainOne
    <3>2. /\ \A r \in Runs : IsFiniteSet(Held(task, r)) /\ Left(permits, task, r) <= MaxConns
          /\ Left(permits, task, db.run) <= drain
          /\ \A r \in history.drained : Left(permits, task, r) = 0
      BY <1>0, <2>1 DEF CountOK
    <3>3. \A r \in Runs : Left(permits', task', r) <= MaxConns
      BY <1>0, <2>6, <3>2
    <3>4. Left(permits', task', db.run) <= drain'
      BY <2>1, <2>6, <3>1, <3>2
    <3>5. ASSUME NEW r \in history'.drained
          PROVE  Left(permits', task', r) = 0
      BY <1>0, <2>1, <2>2, <2>6, <3>1, <3>2, <3>4
    <3> QED
      BY <1>0, <3>1, <3>2, <3>3, <3>4, <3>5 DEF CountOK
  <2> QED
    BY <2>4, <2>5, <2>7 DEF IInv
<1>9. CASE Restart
  <2>1. /\ pc' = IF pc \in {"absent", "deleting"} THEN "absent" ELSE "stopped"
        /\ db' = Null /\ run' = 0 /\ drain' = 0
        /\ permits' = [r \in Runs |-> 0] /\ default' = [r \in Runs |-> "default"]
        /\ conns' = NewPool /\ task' = [t \in Tasks |-> NoTask]
        /\ UNCHANGED <<type, engine, made, store>>
    BY <1>9 DEF Restart
  <2>2. Leftovers = {s \in {"sqlite", "postgres"} : store[s] # 0}
    BY <1>0, <2>1 DEF Leftovers, StateOK
  <2>3. /\ history' \in Histories /\ history'.drained = {} /\ history'.home = history.home
        /\ pc # "deleting" => history'.left = history.left
        /\ pc = "deleting" => history'.left = {s \in {"sqlite", "postgres"} : store[s] # 0}
    BY <1>0, <1>9, <2>2 DEF Restart, Histories
  <2>4. conns' \in [Paths -> Nat] /\ conns'["default"] = PoolSize /\ conns'["schema"] = 0
    BY <2>1, BoundsAssumption DEF NewPool, Paths
  <2>5. StateOK' /\ DbOK' /\ PathClean'
    BY <1>0, <2>1, <2>3, <2>4, BoundsAssumption DEF StateOK, DbOK, PathClean, Paths
  <2>6. DataOK' /\ OwnData'
    BY <1>0, <2>1, <2>3 DEF DataOK, OwnData, StateOK
  <2>7. TasksOK' /\ PathsOK'
    <3>1. NoTask \in TaskType /\ TaskOK(NoTask)'
      BY NoTaskOK DEF TaskOK
    <3> QED
      BY <2>1, <3>1, NoTaskOK DEF TasksOK, PathsOK
  <2>8. CountOK'
    <3>1. /\ \A r \in Runs : /\ IsFiniteSet(Held(task', r))
                             /\ Cardinality(Held(task', r)) = 0
          /\ IsFiniteSet(Using(task')) /\ Cardinality(Using(task')) = 0
      BY <2>1, NothingHeld
    <3>2. \A r \in Runs : Left(permits', task', r) = 0
      BY <2>1, <3>1 DEF Left
    <3> QED
      BY <2>1, <2>3, <2>4, <3>1, <3>2, BoundsAssumption DEF CountOK
  <2> QED
    BY <2>5, <2>6, <2>7, <2>8 DEF IInv
<1>10. CASE Stop
  <2>1. /\ db # Null /\ pc = "running" /\ history' = history
        /\ UNCHANGED <<type, engine, db, made, store, run, permits, default, conns>>
        /\ \/ pc' = "stopping" /\ task' = SchedulerStopped /\ drain' = drain
           \/ pc' = "draining" /\ task' = Strayed /\ drain' = Drain
    BY <1>0, <1>10 DEF Stop, DbOK, proxy
  <2>2. /\ TasksOK' /\ PathsOK'
        /\ Using(task') = Using(task) /\ \A r : Held(task', r) = Held(task, r)
    BY <1>0, <2>1, TasksMarked
  <2>3. CountOK' /\ drain' \in 0..MaxConns
    <3>1. CASE drain' = drain
      BY <1>0, <2>1, <2>2, <3>1 DEF CountOK, Left, StateOK
    <3>2. CASE drain' = Drain
      BY <2>1, <2>2, <3>2, DrainBegins
    <3> QED
      BY <2>1, <3>1, <3>2
  <2>4. StateOK' /\ DbOK' /\ PathClean' /\ DataOK' /\ OwnData'
    BY <1>0, <2>1, <2>3 DEF StateOK, DbOK, PathClean, DataOK, OwnData
  <2> QED
    BY <2>2, <2>3, <2>4 DEF IInv
<1>11. CASE StartDatabase
  <2>1. /\ pc = "stopped" /\ run + 1 \in Runs /\ run + 1 \in 0..MaxRuns
        /\ run' = run + 1 /\ drain = 0 /\ pc' \in {"stopped", "starting"}
        /\ UNCHANGED <<type, made, drain, conns, task>>
    BY <1>0, <1>11, BoundsAssumption DEF StartDatabase, DbOK, StateOK, Runs
  <2>2. Engine \in {"sqlite", "postgres"}
    BY <1>0 DEF Engine, StateOK
  <2>3. /\ engine' = Engine /\ db' = [kind |-> Engine, run |-> run + 1]
        /\ permits' = [permits EXCEPT ![run + 1] = MaxConns]
    BY <1>11 DEF StartDatabase
  <2>4. history.home # Null /\ pc # "absent" => Engine = history.home
    BY <1>0, NullAssumption DEF DataOK, Engine, StateOK
  <2>5. /\ history' \in Histories /\ history'.drained = history.drained
        /\ history'.left = history.left /\ history'.cut = history.cut
        /\ history'.home \in {history.home, Engine}
        /\ pc' = "starting" => history'.home = Engine
        /\ history.home # Null => history'.home = history.home
    <3>1. CASE pc' = "stopped" /\ UNCHANGED history
      BY <1>0, <3>1
    <3>2. CASE history' = [history EXCEPT !.home = IF @ = Null THEN Engine ELSE @]
      BY <1>0, <2>1, <2>2, <2>4, <3>2, NullAssumption DEF Histories
    <3> QED
      BY <1>11, <3>1, <3>2 DEF StartDatabase
  <2> HIDE DEF Engine
  <2>6. /\ store' \in [{"sqlite", "postgres"} -> 0..MaxMade]
        /\ \A s \in {"sqlite", "postgres"} :
              \/ store'[s] = store[s]
              \/ pc' = "starting" /\ s = Engine /\ store[s] = 0 /\ store'[s] = made
        /\ pc' = "starting" => store'[Engine] # 0 \/ store'[Engine] = made
        /\ pc' = "starting" /\ store[Engine] = 0 => store'[Engine] = made
    <3>1. CASE UNCHANGED store /\ pc' = "stopped"
      BY <1>0, <3>1 DEF StateOK
    <3>2. CASE store' = [store EXCEPT ![Engine] = IF @ = 0 THEN made ELSE @]
               /\ pc' = "starting"
      BY <1>0, <2>2, <3>2 DEF StateOK
    <3> QED
      BY <1>11, <3>1, <3>2 DEF StartDatabase
  <2>7. /\ default' \in [Runs -> Paths]
        /\ ~history.cut => \A r \in Runs : default'[r] = "default"
    <3>1. CASE UNCHANGED default
      BY <1>0, <3>1 DEF StateOK, PathClean
    <3>2. CASE \E p \in Paths : conns[p] > 0 /\ default' = [default EXCEPT ![run + 1] = p]
      <4>1. PICK p \in Paths : conns[p] > 0 /\ default' = [default EXCEPT ![run + 1] = p]
        BY <3>2
      <4>2. ~history.cut => p = "default"
        BY <1>0, <4>1 DEF PathClean, Paths
      <4> QED
        BY <1>0, <4>1, <4>2 DEF StateOK, PathClean
    <3> QED
      BY <1>11, <3>1, <3>2 DEF StartDatabase
  <2>8. /\ db' \in Databases /\ db'.run = run + 1 /\ db'.kind = Engine
        /\ permits' \in [Runs -> Nat]
        /\ \A r \in Runs : permits'[r] = IF r = run + 1 THEN MaxConns ELSE permits[r]
    BY <1>0, <2>1, <2>2, <2>3 DEF Databases, StateOK
  <2>9. StateOK' /\ PathClean' /\ PathsOK'
    <3>1. StateOK'
      BY <1>0, <2>1, <2>2, <2>3, <2>5, <2>6, <2>7, <2>8 DEF StateOK
    <3>2. PathClean' /\ PathsOK'
      BY <1>0, <2>1, <2>5, <2>7 DEF PathClean, PathsOK
    <3> QED
      BY <3>1, <3>2
  <2>10. DbOK'
    <3>1. \A r \in history.drained : r <= run + 1
      BY <1>0, BoundsAssumption DEF DbOK, Runs
    <3>2. db' # Null
      BY <2>8, NullAssumption
    <3> QED
      BY <1>0, <2>1, <2>3, <2>5, <2>8, <3>1, <3>2 DEF DbOK
  <2>11. DataOK' /\ OwnData'
    <3>1. DataOK'
      BY <1>0, <2>1, <2>2, <2>3, <2>4, <2>5, <2>6, NullAssumption DEF DataOK, StateOK
    <3>2. ASSUME pc' = "starting"
          PROVE  engine' = history'.home /\ (store'[engine'] = made \/ engine' \in history'.left)
      BY <1>0, <2>1, <2>2, <2>3, <2>4, <2>5, <2>6, <3>2 DEF DataOK
    <3> QED
      BY <2>1, <3>1, <3>2 DEF OwnData
  <2>12. TasksOK'
    <3>1. ASSUME NEW t \in Tasks PROVE TaskOK(task[t])'
      <4>1. TaskOK(task[t])
        BY <1>0 DEF TasksOK
      <4> QED
        BY <1>0, <2>1, <2>5, <4>1, BoundsAssumption DEF TaskOK, Runs
    <3> QED
      BY <1>0, <2>1, <3>1 DEF TasksOK
  <2>13. CountOK'
    <3>1. run + 1 \notin history.drained
      BY <1>0, BoundsAssumption DEF DbOK, Runs
    <3>2. Held(task, run + 1) = {}
      <4>1. \A t \in Tasks : task[t].st # "none" => task[t].run # run + 1
        BY <1>0, BoundsAssumption DEF TasksOK, TaskOK, Runs
      <4> QED
        BY <4>1 DEF Held, HasConn
    <3>3. Left(permits', task, run + 1) = MaxConns
      <4>1. permits'[run + 1] = MaxConns /\ Cardinality(Held(task, run + 1)) = 0
        BY <2>1, <2>8, <3>2, FS_EmptySet
      <4> QED
        BY <1>0, <4>1 DEF Left
    <3>4. \A r \in Runs \ {run + 1} : Left(permits', task, r) = Left(permits, task, r)
      BY <2>8 DEF Left
    <3> QED
      BY <1>0, <2>1, <2>5, <3>1, <3>3, <3>4 DEF CountOK
  <2> QED
    BY <2>9, <2>10, <2>11, <2>12, <2>13 DEF IInv
<1> QED
  BY <1>1, <1>2, <1>3, <1>4, <1>5, <1>6, <1>7, <1>8, <1>9, <1>10, <1>11, <1>13, <1>14
     DEF Lifecycle

\* Every step keeps the invariant.
LEMMA StepIInv == IInv /\ [Next]_vars => IInv'
<1> SUFFICES ASSUME IInv, [Next]_vars PROVE IInv'
  OBVIOUS
<1>1. CASE UNCHANGED vars
  <2>1. TasksOK' /\ CountOK'
    BY <1>1, TasksKept, CountKept DEF IInv, StateOK, vars, proxy
  <2> QED
    BY <1>1, <2>1 DEF vars, proxy, IInv, StateOK, DbOK, PathClean, PathsOK, DataOK, OwnData
<1> QED
  BY <1>1, LifecycleOK, TaskStepsOK DEF Next

-----------------------------------------------------------------------------
(* The theorems                                                            *)

\* Whatever raises and whatever is cancelled, a connection goes back to the pool
\* with the default search path or closed, until a cancellation cuts the setting or
\* the resetting of the path short (acquire_direct() of lib/plugin_db.py).
THEOREM Clean == Spec => []PathClean
BY InitIInv, StepIInv, IInvImplies, PTL DEF Spec

\* The limits of the pool and of the proxies hold, and a proxy that was
\* drained to the end stays out of use (stop() of lib/plugin_db.py).
THEOREM Final == Spec => []DrainedIsFinal
BY InitIInv, StepIInv, IInvImplies, PTL DEF Spec

\* No scheduled task goes on after the stop of its run, but for the exceptions
\* that NoStrayTasks names (scheduler.py).
THEOREM Strays == Spec => []NoStrayTasks
BY InitIInv, StepIInv, IInvImplies, PTL DEF Spec

\* A plugin works on the data of its own instance, or on what was left when an
\* earlier one of its id was deleted (start_database() and delete_database() of
\* instance.py).
THEOREM Data == Spec => []OwnData
BY InitIInv, StepIInv, IInvImplies, PTL DEF Spec
==============================================================================

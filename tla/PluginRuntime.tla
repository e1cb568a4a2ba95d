---------------------------- MODULE PluginRuntime ----------------------------
(***************************************************************************)
(* What one instance uses while its plugin runs: the scheduler             *)
(* (scheduler.py) and the database (start_database() to delete_database()  *)
(* of instance.py, and the proxy lib/plugin_db.py puts in front of the     *)
(* connection pool it shares with maubot itself).                          *)
(*                                                                         *)
(* The life cycle itself is PluginInstance's; here its requests are not    *)
(* concurrent, but the tasks of the plugin are.                            *)
(***************************************************************************)
EXTENDS Naturals, FiniteSets

CONSTANTS
    Tasks,    \* scheduled tasks
    PoolSize, \* connections of the pool
    MaxConns, \* postgres_max_conns_per_plugin
    MaxRuns,  \* bound on the runs of the plugin in one process
    MaxMade,  \* bound on the instances made with this id
    Postgres, \* there is a database for plugins
    Null

ASSUME BoundsAssumption ==
    /\ {PoolSize, MaxConns, MaxMade} \subseteq Nat \ {0}
    /\ MaxRuns \in Nat /\ Postgres \in BOOLEAN

VARIABLES
    pc,      \* of the instance
    type,    \* the database type of its loader
    engine,  \* its database_engine, a column of its row
    db,      \* inst_db: its kind and its run, Null if none
    made,    \* instances made with this id so far
    store,   \* the instance whose data the file or the schema holds, 0 for none
    run,     \* runs of the plugin in this process so far
    permits, \* _conn_sema of each run's proxy
    default, \* _default_search_path of each run's proxy
    drain,   \* permits the drain in progress has yet to take
    conns,   \* the idle connections of the pool: how many have which search path
    task,    \* the scheduled tasks
    history  \* what the properties remember

proxy == <<permits, default>>
vars == <<pc, type, engine, db, made, store, run, proxy, drain, conns, task, history>>

Runs == 1..MaxRuns

Databases == [kind : {"sqlite", "postgres"}, run : Runs]

ASSUME NullAssumption == Null \notin {"sqlite", "postgres"} \cup Databases

Paths == {"default", "schema"}

NewPool == [p \in Paths |-> IF p = "default" THEN PoolSize ELSE 0]

NoTask == [run |-> 0, st |-> "none", loop |-> FALSE, pool |-> FALSE, stray |-> FALSE,
           cancel |-> "no", path |-> "default"]

\* What a task does: sleep, wait for a permit or for a connection, set the search
\* path, use the connection, reset the path.  A cancellation was asked for, and
\* then thrown into the function; path is that of the connection it has.  No stop
\* of the scheduler will reach a stray task.
TaskType == [run : 0..MaxRuns,
             st : {"none", "sleep", "permit", "conn", "set", "use", "reset"},
             loop : BOOLEAN, pool : BOOLEAN, stray : BOOLEAN,
             cancel : {"no", "asked", "thrown"}, path : Paths]

\* The tasks that have a connection.
HasConn == {"set", "use", "reset"}
Busy == \E t \in Tasks : task[t].st \in HasConn

-----------------------------------------------------------------------------
(* The database                                                            *)

\* Mutant: an existing SQLite file does not count.
ForgetfulEngine ==
    IF engine # Null THEN engine
    ELSE IF type = "asyncpg" /\ Postgres THEN "postgres" ELSE "sqlite"

\* The engine start_database() uses and writes to the row.  The legacy interface
\* has SQLite only; otherwise a file from before the column existed decides.
Engine ==
    IF engine # Null THEN engine
    ELSE IF type = "asyncpg" /\ Postgres /\ store["sqlite"] = 0 THEN "postgres"
    ELSE "sqlite"

\* start_database() raises before it changes anything; the instance is disabled.
Unusable ==
    engine = "postgres" /\ (type = "sqlalchemy" \/ ~Postgres)

\* start() as far as the plugin object.  The proxy asks a connection of the pool
\* for the default search path and makes the schema; that may raise, when the
\* row and inst_db are already set.
StartDatabase ==
    /\ pc = "stopped" /\ run < MaxRuns
    /\ ~Unusable
    /\ engine' = Engine
    /\ run' = run + 1
    /\ db' = [kind |-> Engine, run |-> run + 1]
    /\ permits' = [permits EXCEPT ![run + 1] = MaxConns]
    /\ \/ pc' = "stopped" /\ UNCHANGED <<store, default, history>>
       \/ /\ pc' = "starting"
          /\ store' = [store EXCEPT ![Engine] = IF @ = 0 THEN made ELSE @]
          /\ history' = [history EXCEPT !.home = IF @ = Null THEN Engine ELSE @]
          /\ IF Engine = "postgres"
             THEN \E p \in Paths : conns[p] > 0 /\ default' = [default EXCEPT ![run + 1] = p]
             ELSE UNCHANGED default
    /\ UNCHANGED <<type, made, drain, conns, task>>

\* A hook raises: the tasks of the run, if any, go on.
Strayed ==
    [t \in Tasks |-> IF task[t].st # "none" /\ task[t].run = run
                     THEN [task[t] EXCEPT !.stray = TRUE] ELSE task[t]]

\* internal_start() returns, or raises: then nothing of the run is undone.
Started ==
    /\ pc = "starting"
    /\ \/ pc' = "running" /\ UNCHANGED task
       \/ pc' = "stopped" /\ task' = Strayed
    /\ UNCHANGED <<type, engine, db, made, store, run, proxy, drain, conns, history>>

\* Mutant: the drain gives up the last permit.
ShortDrain == IF db.kind = "postgres" THEN MaxConns - 1 ELSE 0

\* stop_database(): the permits stop() of the proxy goes for.
Drain == IF db.kind = "postgres" THEN MaxConns ELSE 0

DrainOne ==
    /\ pc \in {"draining", "deleting"} /\ drain > 0
    /\ permits[db.run] > 0
    /\ permits' = [permits EXCEPT ![db.run] = @ - 1]
    /\ drain' = drain - 1
    /\ history' = IF drain = 1 THEN [history EXCEPT !.drained = @ \cup {db.run}] ELSE history
    /\ UNCHANGED <<pc, type, engine, db, made, store, run, default, conns, task>>

\* Mutant: the drain waits for the connections as long as it takes.
PatientTimeout == FALSE /\ UNCHANGED vars

\* Three seconds without a permit: the drain is given up.
DrainTimeout ==
    /\ pc \in {"draining", "deleting"} /\ drain > 0
    /\ permits[db.run] = 0
    /\ drain' = 0
    /\ UNCHANGED <<pc, type, engine, db, made, store, run, proxy, conns, task, history>>

\* The end of stop().
Drained ==
    /\ pc = "draining" /\ drain = 0
    /\ pc' = "stopped"
    /\ UNCHANGED <<type, engine, db, made, store, run, proxy, drain, conns, task, history>>

\* Where delete_database() looks for the data: it goes by the type of the loader
\* the instance has now.
Place == IF type = "sqlalchemy" THEN "sqlite" ELSE db.kind

\* The places where data is, for the next instance of the id.
Leftovers == {s \in DOMAIN store : store'[s] # 0}

\* delete_database() ends: the data is gone, or removing it failed, which is
\* only logged or answered with an error when the row is already deleted.
Deleted(s) ==
    /\ pc = "deleting" /\ drain = 0 /\ Place = s
    /\ pc' = "absent" /\ db' = Null
    /\ store' = [store EXCEPT ![s] = 0] \/ UNCHANGED store
    /\ history' = [history EXCEPT !.left = Leftovers]
    /\ UNCHANGED <<type, engine, made, run, proxy, drain, conns, task>>

DeleteFile == Deleted("sqlite")

\* DROP SCHEMA needs a connection of the pool.
DropSchema == (\E p \in Paths : conns[p] > 0) /\ Deleted("postgres")

-----------------------------------------------------------------------------
(* The instance                                                            *)

\* An instance is made, with the column empty.
Create ==
    /\ pc = "absent" /\ made < MaxMade
    /\ pc' = "stopped" /\ made' = made + 1
    /\ engine' = Null /\ db' = Null
    /\ history' = [history EXCEPT !.home = Null]
    /\ \E t \in {"sqlalchemy", "asyncpg"} : type' = t
    /\ UNCHANGED <<store, run, proxy, drain, conns, task>>

\* update_type() of a stopped instance
SwitchType ==
    /\ pc = "stopped"
    /\ \E t \in {"sqlalchemy", "asyncpg"} : type' = t
    /\ UNCHANGED <<pc, engine, db, made, store, run, proxy, drain, conns, task, history>>

\* Mutant: the scheduler is not stopped.
UnstoppedScheduler == task

\* BasicScheduler.stop(): every registered task is cancelled.
SchedulerStopped ==
    [t \in Tasks |-> IF task[t].st # "none" /\ task[t].run = run
                     THEN [task[t] EXCEPT !.cancel = "asked"] ELSE task[t]]

\* stop() and internal_stop() up to the plugin's own stop(): the scheduler is
\* stopped, unless pre_stop() raises.
Stop ==
    /\ pc = "running"
    /\ \/ /\ pc' = "stopping"
          /\ task' = SchedulerStopped
          /\ UNCHANGED drain
       \/ /\ pc' = "draining" /\ drain' = Drain
          /\ task' = Strayed
    /\ UNCHANGED <<type, engine, db, made, store, run, proxy, conns, history>>

\* The plugin's own stop() returned or raised; stop_database().
StopHook ==
    /\ pc = "stopping"
    /\ pc' = "draining" /\ drain' = Drain
    /\ UNCHANGED <<type, engine, db, made, store, run, proxy, conns, task, history>>

\* delete() of a stopped instance: its data goes only if the plugin ran in this
\* process.
Delete ==
    /\ pc = "stopped"
    /\ UNCHANGED <<type, engine, db, made, store, run, proxy, conns, task>>
    /\ IF db # Null
       THEN pc' = "deleting" /\ drain' = Drain /\ UNCHANGED history
       ELSE /\ pc' = "absent" /\ drain' = drain
            /\ history' = [history EXCEPT !.left = Leftovers]

\* The process ends and starts again: the row and the data are left.
Restart ==
    /\ pc' = IF pc \in {"absent", "deleting"} THEN "absent" ELSE "stopped"
    /\ db' = Null /\ run' = 0 /\ drain' = 0
    /\ permits' = [r \in Runs |-> 0] /\ default' = [r \in Runs |-> "default"]
    /\ conns' = NewPool
    /\ task' = [t \in Tasks |-> NoTask]
    /\ UNCHANGED <<type, engine, made, store>>
    /\ history' = [home |-> history.home, drained |-> {}, cut |-> FALSE,
                   left |-> IF pc = "deleting" THEN Leftovers ELSE history.left]

-----------------------------------------------------------------------------
(* The scheduler and acquire_direct()                                      *)

Others == <<pc, type, engine, db, made, store, run, default, drain>>
Rest == <<Others, history>>

Set(t, r) == task' = [task EXCEPT ![t] = r]

\* The cancellation reaches the task where it waits.
Hit(t) == task[t].cancel = "asked"

\* run_later() and run_periodically(), called by the plugin while it runs, and
\* even by its stop().
Schedule(t) ==
    /\ pc \in {"starting", "running", "stopping"}
    /\ task[t].st = "none"
    /\ \E loop \in BOOLEAN :
         Set(t, [NoTask EXCEPT !.run = run, !.st = "sleep", !.loop = loop,
                               !.pool = db.kind = "postgres", !.stray = pc = "stopping"])
    /\ UNCHANGED <<Rest, permits, conns>>

\* The sleep is over: the function asks for a connection or does without.  A
\* loop with run_task_in_background registers a task of its own for it.
Wake(t) ==
    /\ task[t].st = "sleep" /\ ~Hit(t)
    /\ LET works == IF task[t].pool THEN "permit" ELSE "sleep" IN
       \/ Set(t, IF works = "sleep" /\ ~task[t].loop THEN NoTask ELSE [task[t] EXCEPT !.st = works])
       \/ \E s \in Tasks \ {t} :
            /\ task[t].loop /\ task[s].st = "none"
            /\ Set(s, [task[t] EXCEPT !.loop = FALSE, !.st = works])
    /\ UNCHANGED <<Rest, permits, conns>>

\* The function returns: a loop sleeps again.
Returned(t) ==
    IF task[t].loop /\ task[t].cancel = "no"
    THEN [task[t] EXCEPT !.st = "sleep", !.path = "default"] ELSE NoTask

\* async with self._conn_sema
TakePermit(t) ==
    /\ task[t].st = "permit" /\ ~Hit(t)
    /\ permits[task[t].run] > 0
    /\ permits' = [permits EXCEPT ![task[t].run] = @ - 1]
    /\ Set(t, [task[t] EXCEPT !.st = "conn"])
    /\ UNCHANGED <<Rest, conns>>

\* async with self._underlying_pool.acquire_direct()
TakeConn(t) ==
    /\ task[t].st = "conn" /\ ~Hit(t)
    /\ \E p \in Paths :
         /\ conns[p] > 0
         /\ conns' = [conns EXCEPT ![p] = @ - 1]
         /\ Set(t, [task[t] EXCEPT !.st = "set", !.path = p])
    /\ UNCHANGED <<Rest, permits>>

\* The connection goes back with search path p, then the permit; the task is r.
GiveBack(t, p, r) ==
    /\ conns' = [conns EXCEPT ![p] = @ + 1]
    /\ permits' = [permits EXCEPT ![task[t].run] = @ + 1]
    /\ Set(t, r)

\* SET search_path; if that raises, the connection goes back as it was.
SetPath(t) ==
    /\ task[t].st = "set" /\ ~Hit(t)
    /\ \/ Set(t, [task[t] EXCEPT !.st = "use", !.path = "schema"]) /\ UNCHANGED <<permits, conns>>
       \/ GiveBack(t, task[t].path, Returned(t))
    /\ UNCHANGED Rest

\* The function is done with the connection, raised or was cancelled.  The pool
\* opens a new connection in the place of one that was closed.
Leave(t) ==
    /\ task[t].st = "use"
    /\ \/ /\ Set(t, [task[t] EXCEPT !.st = "reset", !.cancel = IF @ = "no" THEN @ ELSE "thrown"])
          /\ UNCHANGED <<permits, conns>>
       \/ GiveBack(t, "default", Returned(t))
    /\ UNCHANGED Rest

\* Mutant: a connection whose search path could not be reset goes back anyway.
KeptConn(r) == {default[r], "schema"}

\* finally: the search path is reset; if that raises the connection is closed.
ResetConn(r) == {default[r], "default"}

Release(t) ==
    /\ task[t].st = "reset" /\ ~Hit(t)
    /\ \E p \in ResetConn(task[t].run) : GiveBack(t, p, Returned(t))
    /\ UNCHANGED Rest

\* A cancelled task ends where it waits.
Cancelled(t) ==
    /\ Hit(t) /\ task[t].st \in {"sleep", "permit", "conn"}
    /\ permits' = IF task[t].st = "conn" THEN [permits EXCEPT ![task[t].run] = @ + 1] ELSE permits
    /\ Set(t, NoTask)
    /\ UNCHANGED <<Rest, conns>>

\* It waits for the server to set or to reset the path.  The first is not in the
\* try statement, and the second catches Exception, which a CancelledError is not:
\* the connection goes back, with the path it had or the one it was to have.
CutShort(t) ==
    /\ Hit(t) /\ task[t].st \in {"set", "reset"}
    /\ \E p \in {task[t].path, IF task[t].st = "set" THEN "schema" ELSE default[task[t].run]} :
         /\ GiveBack(t, p, NoTask)
         /\ history' = [history EXCEPT !.cut = @ \/ p = "schema"]
    /\ UNCHANGED Others

-----------------------------------------------------------------------------
\* No instance yet, or one from before the column existed, with its file.
Init ==
    /\ \/ pc = "absent" /\ made = 0 /\ store = [s \in {"sqlite", "postgres"} |-> 0]
       \/ pc = "stopped" /\ made = 1 /\ store = [s \in {"sqlite", "postgres"} |->
                                                    IF s = "sqlite" THEN 1 ELSE 0]
    /\ type = "asyncpg" /\ engine = Null /\ db = Null /\ run = 0 /\ drain = 0
    /\ permits = [r \in Runs |-> 0] /\ default = [r \in Runs |-> "default"]
    /\ conns = NewPool
    /\ task = [t \in Tasks |-> NoTask]
    /\ history = [home |-> IF made = 0 THEN Null ELSE "sqlite", left |-> {}, cut |-> FALSE,
                  drained |-> {}]

Lifecycle ==
    \/ StartDatabase \/ Started \/ Stop \/ StopHook
    \/ DrainOne \/ DrainTimeout \/ Drained \/ DeleteFile \/ DropSchema
    \/ Create \/ SwitchType \/ Delete \/ Restart

TaskSteps(t) ==
    \/ Schedule(t) \/ Wake(t) \/ TakePermit(t) \/ TakeConn(t) \/ SetPath(t)
    \/ Leave(t) \/ Release(t) \/ Cancelled(t) \/ CutShort(t)

Next ==
    \/ Lifecycle
    \/ \E t \in Tasks : TaskSteps(t)

Spec == Init /\ [][Next]_vars

\* The hooks of the plugin return, and within three seconds a drain has a permit
\* or gives up.  DROP SCHEMA waits for a connection and for the locks of those who
\* have one; it goes on when nobody has.  Nothing is assumed of the tasks.
FairSpec ==
    /\ Spec
    /\ WF_vars(StopHook) /\ WF_vars(DrainOne \/ DrainTimeout) /\ WF_vars(Drained)
    /\ WF_vars(DeleteFile) /\ WF_vars(~Busy /\ DropSchema)

-----------------------------------------------------------------------------
(* Properties                                                              *)

\* The state has its type.  In particular a proxy never has more permits than
\* postgres_max_conns_per_plugin and the pool no more connections than its size,
\* however tasks are cancelled while they wait.
TypeOK ==
    /\ pc \in {"absent", "stopped", "starting", "running", "stopping", "draining", "deleting"}
    /\ type \in {"sqlalchemy", "asyncpg"}
    /\ engine \in {"sqlite", "postgres", Null}
    /\ db \in Databases \cup {Null}
    /\ made \in 0..MaxMade /\ run \in 0..MaxRuns /\ drain \in 0..MaxConns
    /\ store \in [{"sqlite", "postgres"} -> 0..MaxMade]
    /\ permits \in [Runs -> 0..MaxConns] /\ default \in [Runs -> Paths]
    /\ conns \in [Paths -> 0..PoolSize]
    /\ task \in [Tasks -> TaskType]
    /\ history \in [home : {"sqlite", "postgres", Null}, left : SUBSET {"sqlite", "postgres"},
                    cut : BOOLEAN, drained : SUBSET Runs]

\* A connection the pool may hand to maubot or to another plugin has the default
\* search path or is closed, and a proxy never takes a plugin's schema for the
\* default, whatever raised or was cancelled while this plugin had it; but for a
\* cancellation that cut the setting or the resetting of the path short since the
\* process started.  Then a proxy may read the wrong default and spread it.
PathClean ==
    ~history.cut => conns["schema"] = 0 /\ \A r \in Runs : default[r] = "default"

\* A proxy that was drained to the end is out of use for good: no task of that
\* run has a connection or can get one, so none stands in the way when the schema
\* is dropped.  No proxy ever has more permits than it began with (TypeOK).
DrainedIsFinal ==
    /\ TypeOK
    /\ \A r \in history.drained :
          /\ permits[r] = 0
          /\ \A t \in Tasks : task[t].run = r => task[t].st \notin {"conn"} \cup HasConn

\* Once stop() is past the plugin's own stop(), what is left of its scheduled
\* tasks is cancelled; but for the stray ones, scheduled after the scheduler was
\* stopped or there when a hook raised.
NoStrayTasks ==
    \A t \in Tasks :
        task[t].st # "none" /\ (task[t].run < run \/ pc \in {"draining", "stopped", "deleting"}) =>
            task[t].cancel # "no" \/ task[t].stray

\* A plugin that runs works on the data of its own instance, and always in the
\* place where that instance began, through restarts and changes of the type.
\* What it finds there of an earlier instance of its id was left when that one was
\* deleted: by a delete that skipped the database because the plugin had not run,
\* looked in the other place, failed to remove the data, or did not come to it.
OwnData ==
    pc \in {"starting", "running"} =>
        /\ engine = history.home
        /\ store[engine] = made \/ engine \in history.left

\* stop() ends however long the tasks of the plugin keep their connections, and so
\* does delete(), unless one has a connection after the drain: DROP SCHEMA waits for
\* it without a timeout.
StopEnds ==
    /\ (pc \in {"stopping", "draining"}) ~> (pc \in {"stopped", "absent"})
    /\ (pc = "deleting") ~> (pc = "absent" \/ (drain = 0 /\ Busy))
=============================================================================

--------------------------- MODULE PluginInstance ---------------------------
(***************************************************************************)
(* One PluginInstance object of maubot/instance.py: its columns, the       *)
(* plugin object it runs, its database handle and web app, its             *)
(* back-references in the client and the plugin loader, and every          *)
(* coroutine the management API, the loaders and the plugin itself run on  *)
(* it.                                                                     *)
(*                                                                         *)
(* The program is one asyncio event loop.  A task is a coroutine in        *)
(* progress; frame[t] says where it is.  Code between two suspensions is   *)
(* atomic: while a task is at a Hot label only that task may step.  The    *)
(* other labels are awaits that really suspend (a database call or a       *)
(* plugin hook), where any other task may run.                             *)
(***************************************************************************)
EXTENDS Naturals, FiniteSets

CONSTANTS
    Tasks,      \* coroutines that may be in progress at the same time
    Users,      \* Matrix user ids of clients
    Types,      \* plugin ids
    Configs,    \* config strings
    Engines,    \* database engines
    Metas,      \* the combinations of meta flags plugins come with
    MaxStarts,  \* bound on the start attempts that get past loader.load()
    Overlap,    \* FALSE: every call runs to its end before the next begins
    Null        \* Python's None

ASSUME MaxStartsAssumption == MaxStarts \in Nat \ {0}
ASSUME MetasAssumption == Metas \subseteq [database : BOOLEAN, webapp : BOOLEAN]
ASSUME OverlapAssumption == Overlap \in BOOLEAN
ASSUME NullAssumption ==
    /\ Null \notin Users \cup Types \cup Engines
    /\ Null \notin [enabled : BOOLEAN, primary_user : Users, type : Types,
                    config : Configs, database_engine : Engines \cup {Null}]

Attempts == 1..MaxStarts    \* start attempts; 0 stands for "no object"

VARIABLES
    col,        \* the database columns, as attributes of the object
    row,        \* the row of the instance table, Null once deleted
    deleted,    \* PluginInstance.delete() dropped the object
    started, client, loader, plugin, inst_db,
    webapp,     \* inst_webapp is not None
    clientRefs, \* clients whose references contain this instance
    loaderRefs, \* loaders whose references contain this instance
    plugins,    \* the loader of each plugin id: absent, installed or deleted
    meta,       \* the meta flags of each plugin
    attempts,   \* start attempts so far
    built,      \* what the plugin object of an attempt was constructed with
    registered, \* attempts whose plugin has event handlers in its client
    routes,     \* attempts whose plugin has routes in the web app
    open,       \* attempts whose database handle is started and not stopped
    faulty,     \* attempts one of whose hooks or database calls raised
    unsaved,    \* an exception kept an assigned column from the row
    lapses,     \* what happened to the references and links of the object
    frame       \* the coroutines in progress

columns == <<col, row, unsaved>>
links   == <<client, loader, clientRefs, loaderRefs, deleted, lapses>>
runtime == <<started, plugin, inst_db>>
web     == <<webapp, routes>>
objects == <<attempts, built, registered, open, faulty>>
server  == <<plugins, meta>>
vars    == <<columns, links, runtime, web, objects, server, frame>>

Columns == [enabled : BOOLEAN, primary_user : Users, type : Types,
            config : Configs, database_engine : Engines \cup {Null}]
Built   == [client : Users, type : Types, db : 0..MaxStarts, webapp : BOOLEAN]
Reloads == [type : Types, meta : Metas]

\* "unreferenced": load() ended after it linked the loader, without a
\* reference.  "overtaken": its client replaced one linked while it was looked
\* up.  "bypassed": a reload of the plugin did not reach the running instance.
Lapses == {"unreferenced", "overtaken", "bypassed"}

Hot   == {"load", "reference", "start", "loaded", "mkdb", "mkplugin", "stop",
          "stopped", "switchuser", "switchtype", "drop", "reload"}
Await == {"getclient", "getuser", "dbstart", "prestart", "pluginstart",
          "prestop", "pluginstop", "dbstop", "notify", "save", "rowdelete",
          "dropdbstop", "dropdb"}

NoFrame == [pc |-> "idle", ret |-> "idle", arg |-> Null, obj |-> 0,
            snap |-> Null]

Frames == [pc : Hot \cup Await \cup {"idle"},
           ret : {"idle", "start", "loaded", "mkdb", "switchuser",
                  "switchtype", "drop", "reload"},
           arg : Users \cup Types \cup Reloads \cup {Null},
           obj : 0..MaxStarts,
           snap : Columns \cup {Null}]

AllIdle == \A t \in Tasks : frame[t].pc = "idle"

-----------------------------------------------------------------------------
(* The event loop and the calls                                            *)

\* Task t is at label l and the event loop may run it.
Runs(t, l) ==
    /\ frame[t].pc = l
    /\ \A s \in Tasks \ {t} : frame[s].pc \notin Hot

\* A new coroutine may begin.  A request that looked the object up before
\* delete() dropped it may still use it.
Call(t) ==
    /\ Runs(t, "idle")
    /\ Overlap \/ (AllIdle /\ ~deleted)

Begin(t, l, r, a) ==
    frame' = [frame EXCEPT ![t] = [NoFrame EXCEPT !.pc = l, !.ret = r,
                                                  !.arg = a]]

Goto(t, l) == frame' = [frame EXCEPT ![t].pc = l]

GotoWith(t, l, n) == frame' = [frame EXCEPT ![t].pc = l, ![t].obj = n]

\* Return to the caller's label, or end the coroutine.
Return(t) ==
    frame' = [frame EXCEPT ![t] =
        IF frame[t].ret = "idle" THEN NoFrame
        ELSE [@ EXCEPT !.pc = frame[t].ret, !.ret = "idle", !.obj = 0]]

\* The coroutine ends, by returning or by an exception nobody catches.
Finish(t) == frame' = [frame EXCEPT ![t] = NoFrame]

\* Instance.update(): the values are read now, the UPDATE commits later.
Save(t, c, r) ==
    /\ col' = c
    /\ frame' = [frame EXCEPT ![t].pc = "save", ![t].ret = r, ![t].snap = c]

\* update_enabled(False), the last thing every failing path of start() does.
Disable(t) ==
    IF col.enabled THEN Save(t, [col EXCEPT !.enabled = FALSE], "idle")
    ELSE Finish(t) /\ UNCHANGED col

\* The UPDATE commits.  It matches no row once the row is deleted.
Saved(t) ==
    /\ Runs(t, "save")
    /\ row' = IF row = Null THEN Null ELSE frame[t].snap
    /\ unsaved' = FALSE
    /\ frame' = [frame EXCEPT ![t] =
           IF frame[t].ret = "idle" THEN NoFrame
           ELSE [@ EXCEPT !.pc = frame[t].ret, !.ret = "idle", !.snap = Null]]
    /\ UNCHANGED <<col, links, runtime, web, objects, server>>

\* The UPDATE raises (a lost database, a client deleted meanwhile).  Only
\* the try of start() around start_database() catches it.
SaveRaises(t) ==
    /\ Runs(t, "save")
    /\ unsaved' = TRUE
    /\ IF frame[t].ret = "mkdb" THEN Disable(t) ELSE Finish(t) /\ UNCHANGED col
    /\ UNCHANGED <<row, links, runtime, web, objects, server>>

-----------------------------------------------------------------------------
(* load() and start()                                                      *)

CallLoad(t) ==
    /\ Call(t)
    /\ Begin(t, "load", "idle", Null)
    /\ UNCHANGED <<columns, links, runtime, web, objects, server>>

\* load() up to Client.get(): the loader is linked, its reference comes later.
\* A client of the cache is found at once, which is the case where no other
\* coroutine steps in between; at boot, and after a DELETE of the client that
\* the database refused, Client.get() reads the table.
Load(t) ==
    /\ Runs(t, "load")
    /\ loader # Null \/ plugins[col.type] = "installed"
    /\ loader' = IF loader = Null THEN col.type ELSE loader
    /\ frame' = [frame EXCEPT
           ![t].pc = IF client = Null THEN "getclient" ELSE "reference",
           ![t].arg = col.primary_user]
    /\ UNCHANGED <<columns, client, clientRefs, loaderRefs, deleted, lapses,
                   runtime, web, objects, server>>

\* PluginLoader.find() raises KeyError: the instance disables itself.
LoadMissing(t) ==
    /\ Runs(t, "load")
    /\ loader = Null /\ plugins[col.type] # "installed"
    /\ Disable(t)
    /\ UNCHANGED <<row, unsaved, links, runtime, web, objects, server>>

\* Client.get() answers load(), whatever was linked while it read.
GotClient(t) ==
    /\ Runs(t, "getclient")
    /\ client' = frame[t].arg
    /\ lapses' = IF client \in {Null, frame[t].arg} THEN lapses
                 ELSE lapses \cup {"overtaken"}
    /\ Goto(t, "reference")
    /\ UNCHANGED <<columns, loader, clientRefs, loaderRefs, deleted, runtime,
                   web, objects, server>>

\* There is no such client: load() assigns None and disables the instance.
\* The foreign key keeps the client the row names.
NoClient(t) ==
    /\ Runs(t, "getclient")
    /\ row # Null => row.primary_user # frame[t].arg
    /\ client' = Null
    /\ lapses' = lapses \cup {"unreferenced"}
                  \cup IF client = Null THEN {} ELSE {"overtaken"}
    /\ Disable(t)
    /\ UNCHANGED <<row, unsaved, loader, clientRefs, loaderRefs, deleted,
                   runtime, web, objects, server>>

\* load() adds the instance to the references of both and returns.
Reference(t) ==
    /\ Runs(t, "reference")
    /\ plugins[loader] = "installed"
    /\ webapp' = (webapp \/ meta[loader].webapp)
    /\ loaderRefs' = loaderRefs \cup {loader}
    /\ clientRefs' = clientRefs \cup {client}
    /\ lapses' = lapses \ {"unreferenced"}
    /\ Return(t)
    /\ UNCHANGED <<columns, client, loader, deleted, runtime, routes, objects,
                   server>>

\* load() raises: in Client.get(), or because loader.meta is None once the
\* plugin is deleted.
LoadRaises(t) ==
    /\ \/ Runs(t, "getclient")
       \/ Runs(t, "reference") /\ plugins[loader] # "installed"
    /\ lapses' = lapses \cup {"unreferenced"}
    /\ Finish(t)
    /\ UNCHANGED <<columns, client, loader, clientRefs, loaderRefs, deleted,
                   runtime, web, objects, server>>

CallStart(t) ==
    /\ Call(t)
    /\ Begin(t, "start", "idle", Null)
    /\ UNCHANGED <<columns, links, runtime, web, objects, server>>

StartIgnored(t) ==
    /\ Runs(t, "start")
    /\ started \/ ~col.enabled
    /\ Finish(t)
    /\ UNCHANGED <<columns, links, runtime, web, objects, server>>

StartLoads(t) ==
    /\ Runs(t, "start")
    /\ ~started /\ col.enabled
    /\ client = Null \/ loader = Null
    /\ frame' = [frame EXCEPT ![t].pc = "load", ![t].ret = "loaded"]
    /\ UNCHANGED <<columns, links, runtime, web, objects, server>>

\* start() from loader.load(), which returns the class, to the first
\* suspension: the web app follows the meta flag, and start_database()
\* begins.  An instance without an engine chooses one and saves it first.
StartBody(t) ==
    /\ plugins[loader] = "installed"
    /\ attempts < MaxStarts
    /\ attempts' = attempts + 1
    /\ webapp' = meta[loader].webapp
    /\ routes' = IF meta[loader].webapp THEN routes ELSE {}
    /\ IF meta[loader].database /\ col.database_engine = Null
       THEN \E e \in Engines :
              /\ col' = [col EXCEPT !.database_engine = e]
              /\ frame' = [frame EXCEPT ![t].pc = "save", ![t].ret = "mkdb",
                                        ![t].obj = attempts + 1,
                                        ![t].snap = col']
       ELSE /\ GotoWith(t, IF meta[loader].database THEN "mkdb"
                           ELSE "mkplugin", attempts + 1)
            /\ UNCHANGED col
    /\ UNCHANGED <<row, unsaved, links, runtime, built, registered, open,
                   faulty, server>>

\* start() with its dependencies: it had them, or load() returned.  What
\* load() took so long for is not looked at again.
Ready(t) ==
    \/ /\ Runs(t, "start")
       /\ ~started /\ col.enabled
       /\ client # Null /\ loader # Null
    \/ Runs(t, "loaded")

Start(t) == Ready(t) /\ StartBody(t)

\* loader.load() raises; nothing in start() catches it.
LoaderRaises(t) ==
    /\ Ready(t)
    /\ Finish(t)
    /\ UNCHANGED <<columns, links, runtime, web, objects, server>>

\* start_database() creates the handle and awaits its start.
MakeDb(t) ==
    /\ Runs(t, "mkdb")
    /\ inst_db' = frame[t].obj
    /\ Goto(t, "dbstart")
    /\ UNCHANGED <<columns, links, started, plugin, web, objects, server>>

DbStarted(t) ==
    /\ Runs(t, "dbstart")
    /\ open' = open \cup {frame[t].obj}
    /\ Goto(t, "mkplugin")
    /\ UNCHANGED <<columns, links, runtime, web, attempts, built, registered,
                   faulty, server>>

\* start_database() raises, before it made the handle (the engine does not
\* suit the plugin) or while the handle starts.
DbFailed(t) ==
    /\ Runs(t, "mkdb") \/ Runs(t, "dbstart")
    /\ Disable(t)
    /\ UNCHANGED <<row, unsaved, links, runtime, web, objects, server>>

\* cls(...): the plugin object gets whatever the attributes hold now.
MakePlugin(t) ==
    /\ Runs(t, "mkplugin")
    /\ client # Null
    /\ plugin' = frame[t].obj
    /\ built' = [built EXCEPT ![frame[t].obj] =
                    [client |-> client, type |-> loader, db |-> inst_db,
                     webapp |-> webapp]]
    /\ Goto(t, "prestart")
    /\ UNCHANGED <<columns, links, started, inst_db, web, attempts,
                   registered, open, faulty, server>>

\* The config class or the constructor raises, or self.client is None;
\* nothing catches it.
MakePluginRaises(t) ==
    /\ Runs(t, "mkplugin")
    /\ faulty' = faulty \cup {frame[t].obj}
    /\ Finish(t)
    /\ UNCHANGED <<columns, links, runtime, web, attempts, built, registered,
                   open, server>>

\* pre_start() returns: register_handler_class adds handlers and routes.
PreStarted(t) ==
    /\ Runs(t, "prestart")
    /\ registered' = registered \cup {frame[t].obj}
    /\ routes' = IF built[frame[t].obj].webapp /\ webapp
                 THEN routes \cup {frame[t].obj} ELSE routes
    /\ Goto(t, "pluginstart")
    /\ UNCHANGED <<columns, links, runtime, webapp, attempts, built, open,
                   faulty, server>>

PluginStarted(t) ==
    /\ Runs(t, "pluginstart")
    /\ started' = TRUE
    /\ Finish(t)
    /\ UNCHANGED <<columns, links, plugin, inst_db, web, objects, server>>

\* pre_start() or start() of the plugin raises: disabled, nothing undone.
PluginStartRaises(t) ==
    /\ Runs(t, "prestart") \/ Runs(t, "pluginstart")
    /\ faulty' = faulty \cup {frame[t].obj}
    /\ Disable(t)
    /\ UNCHANGED <<row, unsaved, links, runtime, web, attempts, built,
                   registered, open, server>>

-----------------------------------------------------------------------------
(* stop()                                                                  *)

CallStop(t) ==
    /\ Call(t)
    /\ Begin(t, "stop", "idle", Null)
    /\ UNCHANGED <<columns, links, runtime, web, objects, server>>

StopIgnored(t) ==
    /\ Runs(t, "stop")
    /\ ~started
    /\ Return(t)
    /\ UNCHANGED <<columns, links, runtime, web, objects, server>>

\* self.plugin may be None here: the AttributeError is caught.
Stop(t) ==
    /\ Runs(t, "stop")
    /\ started
    /\ started' = FALSE
    /\ GotoWith(t, IF plugin = 0 THEN "stopped" ELSE "prestop", plugin)
    /\ UNCHANGED <<columns, links, plugin, inst_db, web, objects, server>>

\* Mutant: the handlers of the stopped plugin stay.
PreStoppedKeepingHandlers(t) ==
    /\ Runs(t, "prestop")
    /\ routes' = IF built[frame[t].obj].webapp THEN {} ELSE routes
    /\ Goto(t, "pluginstop")
    /\ UNCHANGED <<columns, links, runtime, webapp, objects, server>>

\* pre_stop() returns: handlers and routes go, then the plugin's stop().
PreStopped(t) ==
    /\ Runs(t, "prestop")
    /\ registered' = registered \ {frame[t].obj}
    /\ routes' = IF built[frame[t].obj].webapp THEN {} ELSE routes
    /\ Goto(t, "pluginstop")
    /\ UNCHANGED <<columns, links, runtime, webapp, attempts, built, open,
                   faulty, server>>

\* pre_stop() raises: the rest of internal_stop() is skipped.
PreStopRaises(t) ==
    /\ Runs(t, "prestop")
    /\ faulty' = faulty \cup {frame[t].obj}
    /\ Goto(t, "stopped")
    /\ UNCHANGED <<columns, links, runtime, web, attempts, built, registered,
                   open, server>>

PluginStopped(t) ==
    /\ Runs(t, "pluginstop")
    /\ Goto(t, "stopped")
    /\ UNCHANGED <<columns, links, runtime, web, objects, server>>

\* Mutant: stop_database() is called without a handle.
StoppedUnchecked(t) ==
    /\ Runs(t, "stopped")
    /\ plugin' = 0
    /\ GotoWith(t, "dbstop", inst_db)
    /\ UNCHANGED <<columns, links, started, inst_db, web, objects, server>>

\* self.plugin = None, and the database handle of the moment is stopped.
Stopped(t) ==
    /\ Runs(t, "stopped")
    /\ plugin' = 0
    /\ IF inst_db = 0 THEN Return(t) ELSE GotoWith(t, "dbstop", inst_db)
    /\ UNCHANGED <<columns, links, started, inst_db, web, objects, server>>

DbStopped(t) ==
    /\ Runs(t, "dbstop")
    /\ open' = open \ {frame[t].obj}
    /\ Return(t)
    /\ UNCHANGED <<columns, links, runtime, web, attempts, built, registered,
                   faulty, server>>

DbStopRaises(t) ==
    /\ Runs(t, "dbstop")
    /\ faulty' = faulty \cup {frame[t].obj}
    /\ Return(t)
    /\ UNCHANGED <<columns, links, runtime, web, attempts, built, registered,
                   open, server>>

-----------------------------------------------------------------------------
(* The update_*() methods and the plugin's own config saves                *)

UpdateEnabled(t, b) ==
    /\ Call(t)
    /\ b # col.enabled
    /\ Save(t, [col EXCEPT !.enabled = b], "idle")
    /\ UNCHANGED <<row, unsaved, links, runtime, web, objects, server>>

UpdateConfig(t, c) ==
    /\ Call(t)
    /\ c # col.config
    /\ IF started /\ plugin # 0
       THEN /\ col' = [col EXCEPT !.config = c]
            /\ Begin(t, "notify", "idle", Null)
       ELSE Save(t, [col EXCEPT !.config = c], "idle")
    /\ UNCHANGED <<row, unsaved, links, runtime, web, objects, server>>

\* Mutant: the row is not saved after the plugin was told.
NotifiedUnsaved(t) ==
    /\ Runs(t, "notify")
    /\ Finish(t)
    /\ UNCHANGED <<columns, links, runtime, web, objects, server>>

\* on_external_config_update() returns, and the row is saved.
Notified(t) ==
    /\ Runs(t, "notify")
    /\ Save(t, col, "idle")
    /\ UNCHANGED <<row, unsaved, links, runtime, web, objects, server>>

\* on_external_config_update() raises: update() is never reached.
NotifyRaises(t) ==
    /\ Runs(t, "notify")
    /\ unsaved' = TRUE
    /\ Finish(t)
    /\ UNCHANGED <<col, row, links, runtime, web, objects, server>>

\* save_config(), called by the config object of a plugin: the row is saved
\* by a background task.
SaveConfig(t, c) ==
    /\ Call(t)
    /\ attempts # 0
    /\ c # col.config
    /\ Save(t, [col EXCEPT !.config = c], "idle")
    /\ UNCHANGED <<row, unsaved, links, runtime, web, objects, server>>

\* update_primary_user() begins with Client.get() of the new user.
UpdatePrimaryUser(t, u) ==
    /\ Call(t)
    /\ u # col.primary_user
    /\ Begin(t, "getuser", "idle", u)
    /\ UNCHANGED <<columns, links, runtime, web, objects, server>>

\* Mutant: the primary user is switched without stopping the plugin.
GotUserRunning(t) ==
    /\ Runs(t, "getuser")
    /\ Goto(t, "switchuser")
    /\ UNCHANGED <<columns, links, runtime, web, objects, server>>

GotUser(t) ==
    /\ Runs(t, "getuser")
    /\ frame' = [frame EXCEPT ![t].pc = "stop", ![t].ret = "switchuser"]
    /\ UNCHANGED <<columns, links, runtime, web, objects, server>>

\* Client.get() finds no such client, or raises.
NoUser(t) ==
    /\ Runs(t, "getuser")
    /\ Finish(t)
    /\ UNCHANGED <<columns, links, runtime, web, objects, server>>

\* Mutant: the old client or loader keeps its reference.
RereferenceKeeping(refs, old, new) == refs \cup {new}

\* references.remove(self) on the old object, references.add(self) on the new.
Rereference(refs, old, new) == (refs \ {old}) \cup {new}

\* After stop(): move the reference to the new client, save, start().
\* set.remove raises KeyError if there is no reference: another coroutine
\* took it away, or load() failed before it was added.
SwitchUser(t) ==
    LET c == [col EXCEPT !.primary_user = frame[t].arg] IN
    /\ Runs(t, "switchuser")
    /\ IF client = Null \/ client \in clientRefs
       THEN /\ clientRefs' = Rereference(clientRefs, client, frame[t].arg)
            /\ client' = frame[t].arg
            /\ Save(t, c, "start")
            /\ UNCHANGED unsaved
       ELSE /\ col' = c
            /\ unsaved' = TRUE
            /\ Finish(t)
            /\ UNCHANGED <<client, clientRefs>>
    /\ UNCHANGED <<row, loader, loaderRefs, deleted, lapses, runtime, web,
                   objects, server>>

UpdateType(t, ty) ==
    /\ Call(t)
    /\ ty # col.type
    /\ plugins[ty] = "installed"
    /\ Begin(t, "stop", "switchtype", ty)
    /\ UNCHANGED <<columns, links, runtime, web, objects, server>>

\* After stop(): the loader found before it may have been deleted since, and
\* reading loader.meta.id then raises before anything is assigned.
SwitchType(t) ==
    LET c == [col EXCEPT !.type = frame[t].arg] IN
    /\ Runs(t, "switchtype")
    /\ IF /\ plugins[frame[t].arg] = "installed"
          /\ loader = Null \/ loader \in loaderRefs
       THEN /\ loaderRefs' = Rereference(loaderRefs, loader, frame[t].arg)
            /\ loader' = frame[t].arg
            /\ Save(t, c, "start")
            /\ UNCHANGED unsaved
       ELSE /\ col' = IF plugins[frame[t].arg] = "installed" THEN c ELSE col
            /\ unsaved' = (unsaved \/ plugins[frame[t].arg] = "installed")
            /\ Finish(t)
            /\ UNCHANGED <<loader, loaderRefs>>
    /\ UNCHANGED <<row, client, clientRefs, deleted, lapses, runtime, web,
                   objects, server>>

-----------------------------------------------------------------------------
(* DELETE /instance/{id}: stop() if started, then delete()                 *)

DeleteInstance(t) ==
    /\ Call(t)
    /\ IF started THEN Begin(t, "stop", "drop", Null)
       ELSE Begin(t, "drop", "idle", Null)
    /\ UNCHANGED <<columns, links, runtime, web, objects, server>>

\* The references go first; without one of them delete() fails on set.remove.
Drop(t) ==
    /\ Runs(t, "drop")
    /\ IF (loader = Null \/ loader \in loaderRefs) /\
          (client = Null \/ client \in clientRefs)
       THEN /\ loaderRefs' = loaderRefs \ {loader}
            /\ clientRefs' = clientRefs \ {client}
            /\ deleted' = TRUE
            /\ Goto(t, "rowdelete")
       ELSE /\ Finish(t)
            /\ UNCHANGED <<loaderRefs, clientRefs, deleted>>
    /\ UNCHANGED <<columns, client, loader, lapses, runtime, web, objects,
                   server>>

RowDeleted(t) ==
    /\ Runs(t, "rowdelete")
    /\ row' = Null
    /\ IF inst_db = 0
       THEN Finish(t) /\ webapp' = FALSE /\ routes' = {}
       ELSE GotoWith(t, "dropdbstop", inst_db) /\ UNCHANGED web
    /\ UNCHANGED <<col, unsaved, links, runtime, objects, server>>

DropDbStopped(t) ==
    /\ Runs(t, "dropdbstop")
    /\ open' = open \ {frame[t].obj}
    /\ Goto(t, "dropdb")
    /\ UNCHANGED <<columns, links, runtime, web, attempts, built, registered,
                   faulty, server>>

DbDeleted(t) ==
    /\ Runs(t, "dropdb")
    /\ inst_db' = 0
    /\ webapp' = FALSE
    /\ routes' = {}
    /\ Finish(t)
    /\ UNCHANGED <<columns, links, started, plugin, objects, server>>

\* stop_database() or delete_database() raises out of delete().
DropRaises(t) ==
    /\ Runs(t, "dropdbstop") \/ Runs(t, "dropdb")
    /\ faulty' = faulty \cup {frame[t].obj}
    /\ Finish(t)
    /\ UNCHANGED <<columns, links, runtime, web, attempts, built, registered,
                   open, server>>

-----------------------------------------------------------------------------
(* The plugin loaders                                                      *)

\* Between coroutines of the event loop, for the calls of other objects.
Elsewhere ==
    /\ \A t \in Tasks : frame[t].pc \notin Hot
    /\ Overlap \/ AllIdle

UploadNew(ty, m) ==
    /\ Elsewhere
    /\ plugins[ty] = "absent"
    /\ plugins' = [plugins EXCEPT ![ty] = "installed"]
    /\ meta' = [meta EXCEPT ![ty] = m]
    /\ UNCHANGED <<columns, links, runtime, web, objects, frame>>

\* Mutant: the references are not checked.
DeletePluginInUse(ty) ==
    /\ Elsewhere
    /\ plugins[ty] = "installed"
    /\ plugins' = [plugins EXCEPT ![ty] = "deleted"]
    /\ UNCHANGED <<columns, links, runtime, web, objects, meta, frame>>

\* DELETE /plugin/{id} is refused while the loader has references.
DeletePlugin(ty) ==
    /\ Elsewhere
    /\ plugins[ty] = "installed"
    /\ ty \notin loaderRefs
    /\ plugins' = [plugins EXCEPT ![ty] = "deleted"]
    /\ UNCHANGED <<columns, links, runtime, web, objects, meta, frame>>

\* POST /plugin/{id}/reload: stop_instances(), reload(), start_instances().
ReloadPlugin(t, ty, m) ==
    /\ Runs(t, "idle")
    /\ Overlap \/ AllIdle
    /\ plugins[ty] = "installed"
    /\ IF ty \in loaderRefs /\ started
       THEN Begin(t, "stop", "reload", [type |-> ty, meta |-> m])
       ELSE Begin(t, "reload", "idle", [type |-> ty, meta |-> m])
    /\ UNCHANGED <<columns, links, runtime, web, objects, server>>

\* The meta of the new version is read.
NewMeta(t) ==
    LET ty == frame[t].arg.type IN
    /\ plugins[ty] = "installed"
    /\ meta' = [meta EXCEPT ![ty] = frame[t].arg.meta]
    /\ lapses' = IF started /\ loader = ty /\ ty \notin loaderRefs
                 THEN lapses \cup {"bypassed"} ELSE lapses

Reloaded(t) ==
    /\ Runs(t, "reload")
    /\ NewMeta(t)
    /\ IF frame[t].arg.type \in loaderRefs /\ col.enabled
       THEN Begin(t, "start", "idle", Null) ELSE Finish(t)
    /\ UNCHANGED <<columns, client, loader, clientRefs, loaderRefs, deleted,
                   runtime, web, objects, plugins>>

\* reload() raises, before or after it read the new meta: no instance of the
\* plugin is started again.
ReloadFails(t) ==
    /\ Runs(t, "reload")
    /\ NewMeta(t) \/ UNCHANGED <<meta, lapses>>
    /\ Finish(t)
    /\ UNCHANGED <<columns, client, loader, clientRefs, loaderRefs, deleted,
                   runtime, web, objects, plugins>>

-----------------------------------------------------------------------------
\* A row of the table, freshly read or inserted: postinit().
Init ==
    /\ col \in Columns
    /\ row = col
    /\ started = FALSE /\ plugin = 0 /\ inst_db = 0
    /\ client = Null /\ loader = Null
    /\ clientRefs = {} /\ loaderRefs = {} /\ deleted = FALSE /\ lapses = {}
    /\ webapp = FALSE /\ routes = {}
    /\ plugins \in [Types -> {"absent", "installed"}]
    /\ meta \in [Types -> Metas]
    /\ attempts = 0
    /\ built = [n \in Attempts |-> Null]
    /\ registered = {} /\ open = {} /\ faulty = {} /\ unsaved = FALSE
    /\ frame = [t \in Tasks |-> NoFrame]

Calls(t) ==
    \/ CallLoad(t) \/ CallStart(t) \/ CallStop(t) \/ DeleteInstance(t)
    \/ \E b \in BOOLEAN : UpdateEnabled(t, b)
    \/ \E c \in Configs : UpdateConfig(t, c) \/ SaveConfig(t, c)
    \/ \E u \in Users : UpdatePrimaryUser(t, u)
    \/ \E ty \in Types : UpdateType(t, ty)
    \/ \E ty \in Types, m \in Metas : ReloadPlugin(t, ty, m)

Steps(t) ==
    \/ Saved(t) \/ SaveRaises(t)
    \/ Load(t) \/ LoadMissing(t) \/ GotClient(t) \/ NoClient(t)
    \/ Reference(t) \/ LoadRaises(t) \/ GotUser(t) \/ NoUser(t)
    \/ StartIgnored(t) \/ StartLoads(t) \/ Start(t) \/ LoaderRaises(t)
    \/ MakeDb(t) \/ DbStarted(t) \/ DbFailed(t)
    \/ MakePlugin(t) \/ MakePluginRaises(t)
    \/ PreStarted(t) \/ PluginStarted(t) \/ PluginStartRaises(t)
    \/ StopIgnored(t) \/ Stop(t) \/ PreStopped(t) \/ PreStopRaises(t)
    \/ PluginStopped(t) \/ Stopped(t) \/ DbStopped(t) \/ DbStopRaises(t)
    \/ Notified(t) \/ NotifyRaises(t) \/ SwitchUser(t) \/ SwitchType(t)
    \/ Drop(t) \/ RowDeleted(t) \/ DropDbStopped(t) \/ DbDeleted(t)
    \/ DropRaises(t) \/ Reloaded(t) \/ ReloadFails(t)

Next ==
    \/ \E t \in Tasks : Calls(t) \/ Steps(t)
    \/ \E ty \in Types : DeletePlugin(ty) \/ \E m \in Metas : UploadNew(ty, m)

Spec == Init /\ [][Next]_vars

-----------------------------------------------------------------------------
(* Properties                                                              *)

\* The attributes of the object have the types the code gives them.  A built
\* plugin has a client and a loader, and start and stop of a database are
\* called on a handle there is: the attempts they concern are never 0.
TypeOK ==
    /\ col \in Columns
    /\ row \in Columns \cup {Null}
    /\ deleted \in BOOLEAN /\ started \in BOOLEAN
    /\ webapp \in BOOLEAN /\ unsaved \in BOOLEAN
    /\ client \in Users \cup {Null}
    /\ loader \in Types \cup {Null}
    /\ plugin \in 0..MaxStarts
    /\ inst_db \in 0..MaxStarts
    /\ clientRefs \in SUBSET Users
    /\ loaderRefs \in SUBSET Types
    /\ lapses \in SUBSET Lapses
    /\ plugins \in [Types -> {"absent", "installed", "deleted"}]
    /\ meta \in [Types -> Metas]
    /\ attempts \in 0..MaxStarts
    /\ built \in [Attempts -> Built \cup {Null}]
    /\ registered \in SUBSET Attempts /\ routes \in SUBSET Attempts
    /\ open \in SUBSET Attempts /\ faulty \in SUBSET Attempts
    /\ frame \in [Tasks -> Frames]

\* A load() has linked the loader and waits for the client, or goes on.
Linking == \E t \in Tasks : frame[t].pc = "reference"
Loading == Linking \/ \E t \in Tasks : frame[t].pc = "getclient"

\* References follow links, however calls overlap.  An instance that delete()
\* has not dropped is in the references of no loader but its own, and of no
\* client but its own unless Client.get() answered load() when another call
\* had linked a client.  It is in the references of its loader unless a load()
\* waits for the client or the last one ended too early, and in those of its
\* client at every suspension, with the same exception for a load() that
\* failed.  The guards of DELETE /client and DELETE /plugin rest on this.
RefsMatch ==
    ~deleted =>
        /\ loaderRefs \subseteq {loader}
        /\ clientRefs \subseteq {client} \/ "overtaken" \in lapses
        /\ \/ loader \in loaderRefs \cup {Null}
           \/ Loading \/ "unreferenced" \in lapses
        /\ \/ client \in clientRefs \cup {Null}
           \/ Linking \/ "unreferenced" \in lapses

\* The loader of a live instance is never a deleted plugin, although
\* update_type() looks the new loader up before it awaits stop(), unless a
\* load() waits for its client between the link and the reference, or the
\* last load() ended there.
LoaderInstalled ==
    ~deleted /\ loader # Null =>
        \/ plugins[loader] = "installed"
        \/ Loading \/ "unreferenced" \in lapses

\* A started instance runs a plugin object that still has its handlers and
\* that was built for the client, loader and database the instance has now.
\* A plugin with a database has it open, unless a reload that added the
\* database passed the instance by, for want of a reference.
RunningWired ==
    started =>
        /\ plugin \in registered
        /\ built[plugin].client = client
        /\ built[plugin].type = loader
        /\ built[plugin].db = inst_db
        /\ meta[loader].database => inst_db \in open \/ "bypassed" \in lapses

\* An object other than the running plugin keeps handlers or an open
\* database only if one of its own hooks or calls raised: switching user or
\* type, reloading and restarting leave nothing behind.
LeaksOnlyAfterFailure ==
    AllIdle =>
        /\ \A n \in registered : n \in faulty \/ (started /\ n = plugin)
        /\ \A n \in open : n \in faulty \/ (started /\ n = inst_db)

\* Between calls the row holds the columns of the object, unless an exception
\* came between an assignment and its UPDATE: on_external_config_update, a
\* set.remove or the UPDATE itself raised, and none has succeeded since.
RowMatchesMemory ==
    AllIdle /\ row # Null /\ ~unsaved => row = col

-----------------------------------------------------------------------------
(* Refinement                                                              *)

Life == INSTANCE InstanceLife WITH
    status <- IF deleted THEN "deleted" ELSE IF started THEN "running"
              ELSE "stopped",
    user   <- client,
    type   <- loader,
    object <- IF started THEN plugin ELSE 0,
    made   <- attempts

\* Calls that do not overlap make an instance that changes its client and its
\* plugin only while it is stopped, is deleted only while it is stopped, and
\* never runs a plugin object again that update_*(), a reload or a failed
\* start put aside: every step of the coroutines is a step of InstanceLife or
\* leaves it alone.
ImplementsLife == Life!Spec
=============================================================================

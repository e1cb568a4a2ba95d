# A TLA+ model of maubot

maubot runs Matrix bots. One asyncio process keeps *clients* (Matrix accounts),
*plugins* (zip files that are loaded as Python modules) and *instances* (a
plugin running with a client as its primary user), and a management API that
creates, changes and deletes them while they run. This directory models the
parts of that process that keep state across awaits, checks them with TLC and
proves every safety property it checks with TLAPS.

All source paths below are relative to `src/maubot/`.

## Inventory

| Component | State | Operations | Hard because |
|---|---|---|---|
| Plugin instance (`instance.py`, `plugin_base.py`, `management/api/instance.py`) | the row's columns, `started`, `plugin`, `inst_db`, `inst_webapp`, links to client and loader | load, start, stop, update_config/primary_user/type/enabled, save_config, delete, rename | every operation awaits hooks of the plugin or the database, there is no lock, and each hook may raise |
| Client (`client.py`, `management/api/client.py`) | columns, `started`, the matrix client object, its sync loop, encryption, references | start with retries, stop, clear_cache, update_access_details, PUT, DELETE | retries sleep for minutes in background tasks; the client object is swapped while calls wait for the homeserver |
| Plugin files and loader (`loader/zip.py`, `loader/abc.py`, `lib/zipimport.py`, `management/api/plugin_upload.py`, `plugin.py`) | files on disk, loader caches, the zip directory cache, the loaded class | upload, replace with rollback, reload, delete, load_all at boot | failure at each step of an update, crashes between write and trash, caches that outlive files |
| Registry (`client.py`, `instance.py`, `db/`, `management/api/`) | `cache` of both classes, the two tables with their foreign key | get with a getter lock, all, create, rename, delete | lookups race with deletions; `update_id` changes hash and key |
| Startup and shutdown (`__main__.py`) | none of its own | load and start all, stop all | gathers over everything |
| Web server (`server.py`, `plugin_server.py`, `handlers/web.py`) | path to web app table | get/remove subapp, route a request | shared with instances |
| Plugin database (`lib/plugin_db.py`, `instance.py`) | the engine of an instance, its file or schema, a semaphore, the search path of pooled connections | start, acquire, release, stop with a drain, delete | connections held over a stop; a pool shared with maubot itself |
| Scheduler (`scheduler.py`) | the task pool | run periodically or later, stop | cancellation anywhere |
| Command handlers (`handlers/command.py`), responses (`matrix.py`) | decorator data | match arguments, dispatch subcommands, respond, reply, edit | many combinations, splitting of texts |
| Login (`management/api/client_auth.py`) | SSO waiters | register, log in, begin, wait for and complete a single sign-on, hand over to the client | waits are cancelled, repeated and completed in any order |
| Authentication (`management/api/auth.py`, `middleware.py`, `login.py`, `config.py`) | the secret, the administrators | log in, check a token | tokens outlive what they were issued for |
| Log socket (`management/api/log.py`) | bounded deque, listeners, sockets | emit, send, open, authenticate, time out, stop all | lists that change under loops with awaits |
| Standalone mode (`standalone/`) | sync position, device id | main, stop, sync | crashes and interrupts at every await |
| Responses of the API, client proxy, instance database API, CLI, frontend, testing | little or none | | |

How they interact: the management API calls methods of instances, clients and
loaders; an instance is in the `references` of its client and of its loader;
a loader stops and starts its instances around a reload, a client around its
own start and stop; `DELETE` of a client or plugin is refused while it has
references. All of it shares one event loop: a coroutine runs alone until it
suspends. The homeserver, the database and plugin code are outside.

What makes each correct:

* an instance runs one plugin object, built for the client, loader and
  database it has now; nothing of a stopped plugin stays behind; the row
  follows the object; references agree with links;
* a started client is the account it should be, syncs exactly when asked, with
  one loop, and its retries end;
* a plugin has one file on disk, the running code is that file, no failed
  update and no crash loses the plugin;
* an id has one object in the process and its table row; deletions and
  shutdown reach it;
* what a plugin is lent (connections, tasks, a database) comes back, and its
  data stays its own;
* a command gives the plugin the whole message, and the sender an answer;
* a device is only made for an administrator, and a client is given the device
  of its token;
* a listener of the log misses no line without a known reason;
* a standalone bot handles no event twice over crashes, and loses none without
  a known reason.

## Modules

The models of the life cycles, `Registry` included, use the same picture of asyncio. `frame[t]` is a coroutine in
progress with a program counter. A *Hot* label is a place between two
suspensions: while a task is at one, only that task may step, so that a
handler may call another (stop() inside update_primary_user()) without giving
up the event loop. The other labels are awaits that really suspend, and any
task may run there. `Overlap = FALSE` lets a call begin only when no other one
is in progress: it separates what is wrong by itself from what goes wrong only
when calls overlap.

* **`PluginInstance`** - one `PluginInstance` object. `col` holds the database
  columns of the object and `row` those of the table; `update()` takes a
  snapshot and commits it later. Each start attempt has a number which stands
  for the plugin object and the database handle it makes; `registered`,
  `routes` and `open` say which of these objects have handlers in the client,
  routes in the web app and an open database. `faulty` collects attempts with
  a hook that raised. Plugin loaders are reduced to installed / deleted and
  their meta flags. `load()` links the loader, waits for `Client.get()`
  (`getclient`) and adds the references after it (`Load`, `GotClient`,
  `Reference`); it may end without them (`NoClient`, `LoadRaises`), and a
  `start()` that called it goes on at `loaded` without looking at anything
  again. `lapses` remembers what came of that await, for the properties that
  name it. The UPDATE of a row may raise (`SaveRaises`). Simplifications:
  `Client.get()` of a cached client is the interleaving where nobody else steps
  in between; clients are told apart by their user id (two objects of one id
  are the matter of `Registry`); starting and stopping the legacy SQLAlchemy
  engine is given the same awaits as the asyncpg one, which only adds
  interleavings; a plugin id that was deleted is not uploaded again
  (`PluginUpload` does that); rename is in `Registry`.
* **`ClientLifecycle`** - one `Client` object. `gen` numbers the matrix client
  objects; `syncing` is the set of those whose loop runs, `verified` those for
  which whoami answered with the right user and device. A retry is a task that
  sleeps. The plugins of the client are the awaits of `start_plugins` and
  `stop_plugins`, which do not raise out of the client. Encryption is a
  constant; the filter id is present or empty; display name, avatar and the
  profile are awaits that may raise.
* **`PluginUpload`** - one plugin id. A file is a version, a kind (good, main
  class missing, import raises, main module does not compile) and a build. A
  path is a version and a timestamp. The loader has its path, version, loaded
  content, and the importer with the directory it read. Reading a file with
  the directory of another one succeeds by luck, raises ZipImportError or
  raises something else: a choice. `late` are starts which go on after the
  `gather()` they belong to raised. `born` tells apart a deleted loader object
  and the one a later upload makes. An instance is reduced to the content it
  runs, and creating, starting or deleting it is one step; whether it is
  enabled is a choice. A file is written in one step: a crash in the middle of
  a write is not modelled. When the boot fails, files listed before the one
  that raises may already be in the trash; the model stops there.
* **`InstanceLife`** - what an instance promises without its coroutines:
  stopped, running or deleted; linked to a client and a plugin, which change
  only while it is stopped; running the newest plugin object. `PluginInstance`
  implements it when calls do not overlap (`ImplementsLife`, with the mapping
  in `PluginInstance`).
* **`Registry`** - several clients and instances. Both classes are kept the
  same way, so one table and one cache are indexed by user and instance ids.
  Objects are numbered, because an id may come to have two of them. A client
  object keeps `refs`, each with the hash it was added under: `Unref` fails
  after a rename, as `set.remove` does. `LockFree` is mautrix's getter lock.
  The life cycles are reduced to `started` and the awaits of `stop()`. Boot
  loads every row and starts the clients, shutdown stops what the cache holds.
  `spoiled` names the keys after a rename, a refused DELETE or a read of a row
  that was being deleted; the properties exclude these by name, so that they
  show there is no other way. An object remembers whether it was dropped and the
  ids it had (`dropped`, `old`), for the same reason: `Disturbed` holds of an id
  that an object was dropped under, or renamed from or to.
* **`PluginRuntime`** - one instance: which database it uses, the semaphore and
  the drain of its proxy, the search path of the pooled connections, and the
  scheduled tasks that use them. Requests to the instance are not concurrent
  here (`PluginInstance` does that), the tasks of the plugin are. Each await of
  `acquire_direct()` is a state of a task: the permit, the connection, the SET,
  the use, the reset; each may raise, and a cancellation is delivered at any of
  them (`Cancelled`, `CutShort`). Removing the data may fail, which the code
  logs (`Deleted`), and `DROP SCHEMA` needs a connection of the shared pool.
  asyncpg may reset a session when it is released; the model does not rely on
  it. A function that swallows the CancelledError is not modelled.
* **`Commands`** - a message on its way through a handler. Texts are sequences
  of characters, since what the code splits at is what the properties are
  about. A regular expression or parser is the set of texts it accepts, with
  what its value is made of (the text, the groups, the result) and what the
  parser does with other texts (None, ValueError, another exception).
  `RegexArgument` puts `^` and `$` around the expression without a group, so one
  with alternatives may take the beginning of a word: `Match` is then the set of
  what it may take (`whole` is FALSE). A callable for the aliases takes the
  place of the name. `respond()` is what relations it sets on a fresh content.
* **`ClientAuth`** - one Matrix account. The homeserver numbers its devices, and
  the number of a device is also its access token; token 0 belongs to another
  account. A management token is a user and the secret it was signed with.
  `Unnamed` are the tokens for which whoami answers without a device id, which
  the code then does not compare.
* **`LogSocket`** - the collector, `send()`, the coroutine and the timer of each
  connection. The model follows one line, any of an unbounded number; the
  others push it out of the deque. `excused` are the listeners that cannot
  expect it: `send()` was done with the line when or while their history was
  sent, or was past a listener that left, which shortens the list.
* **`Standalone`** - `main()`, `stop()` and the sync loop, over several runs of
  the process with the rows that persist. An interrupt during startup ends
  `run_until_complete(main())`, but the task of `main()` may go on under
  `run_until_complete(stop())`. A legacy SQLAlchemy database is opened without
  an await and is the same as none. The UPDATE of the sync position may raise,
  with or without effect, and mautrix's loop goes on (`PutNextBatch`); the
  response in hand is dispatched or, by the two ignore flags of the config,
  skipped (`Dispatch`); whoami may not name a device, as for the token of an
  appservice (`named`).
* **`MCPluginInstance`, `MCClientLifecycle`, `MCPluginUpload`, `MCRegistry`,
  `MCCommands`, `MCStandalone`** - constants for TLC: meta flags, files, messages and handlers,
  and the symmetry of tasks, users and ids. The other modules are run directly;
  symmetry is not sound for liveness.
* **`PluginInstanceProofs`, `ClientLifecycleProofs`, `PluginUploadProofs`,
  `RegistryProofs`, `PluginRuntimeProofs`, `LogSocketProofs`,
  `ClientAuthProofs`, `StandaloneProofs`** - the theorems about the module each
  extends; `StandaloneProofs` extends `Commands` too, and has its theorems.

How they compose: `Registry` puts clients and instances together at the level
of identity; `PluginInstance` has one instance with reduced clients and
loaders, `ClientLifecycle` one client with reduced instances, `PluginUpload` one
loader with reduced instances, `PluginRuntime` what an instance uses while it
runs. `InstanceLife` is the reduction of an instance the others rely on, shown
by refinement.

Definitions named "Mutant" in a comment are faulty versions of the definition
after them; replacing the definition by them makes the property violated that
`PROJECT.json` names.

## Runs

| Run | Checks | Instance |
|---|---|---|
| `InstanceSerial` | `TypeOK`, `RunningWired`, `LeaksOnlyAfterFailure`, `RowMatchesMemory`, `ImplementsLife` (refinement) | calls one after the other, 2 users, 2 plugins, 2 start attempts, at most 2 failures |
| `InstanceOverlap` | `RefsMatch`, `LoaderInstalled` | 2 overlapping calls, 2 users, 2 plugins, 1 start attempt, at most 1 lapse of a load() |
| `ClientSerial` | `TypeOK`, `SyncsWhenAsked`, `Settles` (liveness) | 3 calls one after the other, the 8 retries of the code sleeping between them |
| `ClientOverlap` | `StartedVerified`, `OneSyncLoop` | 2 coroutines, 3 calls, 1 swap of the client |
| `UploadSerial` | `OneFile`, `RunsWhatIsStored`, `PluginSurvives` | 2 instances, 3 uploads, 4 files, crashes anywhere |
| `UploadAnything` | `TypeOK` | 2 overlapping requests, all kinds of files |
| `Registry` | `OneObjectPerKey`, `InUse`, `CacheIsTables` | 2 users, 2 instance ids, 2 overlapping requests in each run of the process, 4 objects |
| `Commands` | `WholeMessage`, `ValuesFit`, `RespondsAsDocumented`, `Answered` (liveness) | every text of up to 2 characters and every `!c`, `!C`, `!v` with up to 4 more, out of 7 characters; 7 handlers |
| `PluginRuntime` | `PathClean`, `DrainedIsFinal`, `NoStrayTasks`, `OwnData`, `StopEnds` (liveness) | 2 tasks, 2 permits, a pool of 1 connection, 2 runs in each process, 2 instances of one id |
| `LogSocket` | `ListenersLive`, `NothingLost`, `StrangersLeave` (liveness) | 2 connections, a deque of 1 |
| `ClientAuth` | `LoginsAuthorised`, `DeviceOfToken`, `AcknowledgedKept`, `SessionEnds` (liveness) | 2 overlapping requests of 3, 1 session, 3 devices, one of them unnamed, 1 restart |
| `Standalone` | `EventsOnce`, `EventsAccounted`, `StopComplete`, `OwnKeys`, `Settles` (liveness) | every configuration without a sync loop, every pair of ignore flags, and all with encryption and a database; 2 events, 2 runs of the process |

`TypeOK` of `Registry`, `PluginRuntime`, `LogSocket` and `ClientAuth` is a
conjunct of the first invariant of identity or bounds of each
(`OneObjectPerKey`, `DrainedIsFinal`, `ListenersLive`, `DeviceOfToken`).

Bounds. `MaxStarts` 2 is the least number at which an old and a new plugin
object coexist, which is what the instance properties relate; two users and
two plugins are what a switch needs. `InstanceSerial` explores a state further
only with at most two faulty attempts, or one unsaved column, or one lapse of
`load()` (`TwoFaults`); `InstanceOverlap` with one lapse (`OneLapse`), the
plugins without a database, and takes states for the same that differ only in
what no guard reads and neither property mentions (`Control`). The theorems have
none of these bounds. Two tasks are enough for every pair of
operations to interleave at every await. `MaxSwaps` 1 gives an old and a new
matrix client. `MaxUploads` 3 allows install, replace and a second replacement
or a reinstallation. `ClientSerial` uses the number of tries in the code; the
other client run uses 1, so that both a retry and a last failure happen.
Four objects in `Registry` are two rows with a second object each, or one of
each id; the tables persist over shutdowns, so that the bound on requests in
one run of the process is not one on what the tables can hold. Four characters
after the command hold two arguments with a separator of one or two
characters, or a subcommand with its argument. Two permits and two tasks let a
drain succeed in part while a task waits and another one holds; with one
connection, `DROP SCHEMA` and the next start meet the one a task left behind. A deque of one
line is the shortest way for a line to be pushed out, and two listeners are
what a loop over a list that shrinks needs. One session with two waits on it,
and three devices, are what the races of `ClientAuth` are about. Two events let a
crash fall between them, two runs are a crash and what follows.
`CHECK_DEADLOCK FALSE` is set throughout: with the bounds used up and no
request coming in, the server rightly does nothing.

Fairness is what asyncio, timers and timeouts give; no call from outside is
ever assumed to happen.

* `ClientSerial`: weak fairness of each coroutine's next step. The event loop
  runs every ready task, HTTP requests and database calls have timeouts, and
  the plugin hooks in the path are assumed to return.
* `Commands`: weak fairness of the handler, which waits for nothing but its own
  replies.
* `PluginRuntime`: the stop hook returns, and within its three seconds a drain
  has a permit or gives up. Removing a file ends; `DROP SCHEMA` ends when no
  task has a connection, and otherwise waits for it and its locks, without a
  timeout. Nothing is assumed of the plugin's tasks: that is the point of
  `StopEnds`, which therefore says of `delete()` that it ends or a task keeps a
  connection.
* `LogSocket`: timers fire, and a coroutine whose websocket is closed is woken.
  A peer need not read.
* `ClientAuth`: a request goes on once what it awaits is there. Nobody has to
  wait for a session or complete it.
* `Standalone`: what `main()`, `stop()` and the sync loop await ends, and one of
  the unbounded tries of whoami is answered (strong fairness; without it the
  code retries for ever, as it should).

Further behaviour of the code that the models contain and that a reader of the
properties should know, because a property excludes it by name or is only
checked without it:

* two `start()` calls that overlap both build a plugin and register handlers,
  since `started` is set at the end; a `stop()` that overlaps a `start()` loses
  the new object (`Start`, `Stop` of `PluginInstance`);
* `load()` sets `self.loader` and adds the reference only after `Client.get()`.
  Meanwhile a DELETE of the plugin finds no reference and deletes it; a switch
  of the user may link a client that `load()` then replaces, so that the
  instance stays in the references of both. If `load()` ends there, the links
  stay without references, and deleting or switching the instance raises
  KeyError from `set.remove` (`LoadRaises`, `NoClient`, `Drop`, `SwitchUser`);
  a reload passes such an instance by (`NewMeta`). `RefsMatch`,
  `LoaderInstalled` and `RunningWired` name these cases;
* a UPDATE that raises, a hook of `update_config()` that raises, or such a
  KeyError leaves a column that was assigned unsaved until the next UPDATE
  (`unsaved`);
* a plugin whose new version has no database any more is still handed the
  stopped handle of the old one (`inst_db`);
* overlapping UPDATEs of one row write the columns as they were when each was
  called, so the older values may win (`RowMatchesMemory` is for serial calls);
* `pre_stop()` raises: `internal_stop()` has not cleared the web app yet and
  the routes of the stopped plugin stay (`PreStopRaises`);
* `PUT /instance/{id}` looks the object up before it reads the request body;
  when the instance is deleted in between, `start()` brings the dropped object
  up again (`Call` with `deleted`);
* new access details start the loop of a stopped client; turning sync off then
  does not stop it, and the client is later started with its flag off and its
  loop on. `clear_cache()` of a stopped client starts its loop, and a deletion
  after it does not call `stop()` (`Resync`, `DeleteClient`);
* access details given in part leave None in the other column (`SwapClient`),
  and the UPDATE is refused (`SaveRefused`);
* a request that both enables and starts a disabled client does not start it,
  because `update_started` comes before `update_enabled` (`UpdateStarted`);
* a start that fails after whoami is not retried although the client stays
  enabled (`StartRaises`);
* the directory cached for a path outlives its file: upload, replace, delete
  and upload another build under the first name, and the loader refuses it;
* one instance fails to start after an update while another is still starting:
  `gather()` does not wait for it, and after the rollback it runs the new
  version (`LateStart`);
* a main module that does not compile raises an exception neither the upload
  nor `load_all()` expects: the file stays and the next boot fails on it;
* two updates of one plugin that overlap have different ideas of the old file:
  when the first rolls back, two versions stay on disk until the next boot
  (`UploadReplacement`, `Rollback`); an update whose loader is deleted
  meanwhile leaves its new file (`LoaderGone`);
* two DELETEs of one client overlap, and the later one takes a client out of
  the cache that was created after the first: it goes on without being found
  by `get()` or by the shutdown (`Drop`);
* the foreign key refuses the DELETE of a client after it left the cache: the
  row stays without an object until the next `get()` (`DeleteRow`);
* a rename leaves the cache and the references under the old id, so that the
  old id still finds the object and a later deletion raises (`Rename`, `Unref`);
* deleting an instance that has no database handle leaves its data to the next
  instance of that id; so does a `DROP SCHEMA` that fails, which is logged, a
  file that cannot be removed, and a type switched between the two kinds of
  database, by which `delete_database()` looks in the other place (`Place`,
  `history.left`); a query on a stopped Postgres instance waits for a permit of
  the drained semaphore, for ever;
* a task that is cancelled while the server sets or resets the search path
  gives its connection back as it is: the SET is outside the try statement, and
  `except Exception` does not catch a CancelledError (`CutShort`). The next user
  of the connection works in the plugin's schema, and a proxy that starts on it
  takes that schema for the default. `PathClean` names it (`history.cut`);
* a task that is scheduled after `Scheduler.stop()` runs (`stray`);
* a regular expression with alternatives takes part of a word, and the next
  argument gets the rest of it; an argument of a name that was already used
  overwrites the value (`Strict` excludes both); a command whose name has an
  upper-case letter never matches, since the text is made lower case (`Lower`);
  a parser that raises something else than ValueError ends the call without an
  answer (`Answered` names these);
* `stop_all()` iterates over the list from which closed sockets remove
  themselves, and passes over some of them (`StopNext`); a listener that leaves
  during `send()` makes it pass over the next one (`Left`);
* `POST /client/new` stores the device id it is given without comparing it
  (`CreateWhoami`), and `Client.get()` returns a client made meanwhile and
  ignores the new details (`Make`); neither that nor an update compares the
  device when whoami does not name one (`Unnamed`); a session nobody waits for
  is never removed, and a restart loses the sessions with the login tokens that
  were acknowledged (`Restart`, `AcknowledgedKept`);
* an interrupt during the startup of a standalone bot may leave `main()`
  running along `stop()`, which starts what `stop()` has already passed
  (`InterruptStartup`); events that arrive before the plugin is built find no
  handlers (`missed`);
* with the default `ignore_first_sync: true` the first response of every run is
  committed and not dispatched: what arrived while the bot was down is skipped
  (`Ignored`). If the commit of a position raises, the events are dispatched all
  the same and come again after a restart (`unsaved` of `Standalone`).

The properties that hold for calls one after the other (`RunningWired`,
`LeaksOnlyAfterFailure`, `RowMatchesMemory`, `ImplementsLife`,
`SyncsWhenAsked`, `OneFile`, `RunsWhatIsStored`, `PluginSurvives`) do not hold
when calls overlap: the code has no locks around these operations.
`UploadSerial` has one build for each version, because two builds under one
version meet the stale directory, and no file whose main module does not
compile, because the boot fails on it.

## Proofs

The theorems hold for every value of the constants: any number of tasks,
users, plugins, connections or events, and any bound. They rest on the named
assumptions of the modules (the bounds are naturals, the flags Booleans, `Null`
is not an element of the other sets, a file has one of the kinds) and, where
it is said below, on a hypothesis of the theorem. Each inductive invariant was
checked with TLC, as an invariant of the run of its module, before it was
proved. Each proof has the same shape: the initial states satisfy the
invariant, every action preserves it (one step or lemma for each action or
group of like actions), it implies the property, and PTL combines the three.

**`PluginInstanceProofs`**, under any overlap of calls:

* `Typing` - `Spec => []TypeOK`. Not only types: building
  a plugin records its client and loader in `built`, whose type has no Null,
  so it says that no interleaving reaches the constructor without both. The
  invariant is `TypeOK` and the fact that a task past the checks of `start()`
  leaves `client` and `loader` set, and that frames which carry an argument or
  a snapshot carry one of the right kind.
* `References` and `Installed` - `Spec => [](RefsMatch /\ LoaderInstalled)`.
  The two are proved together, relative to the typing invariant:
  `LoaderInstalled` rests on `RefsMatch`, since only a plugin that is not in
  the references can be deleted, and a switch of the type adds the reference in
  the same step that sets the link, after looking whether the plugin is still
  there. `load()` does not: the invariant says that the link is without its
  reference only while some coroutine is at `getclient` or `reference`, or after
  one ended there. Both are conditional on `~deleted`: a coroutine that is
  still in `load()` or in a switch may run on the dropped object and leave its
  references apart from its links, but nothing un-deletes an object.

With the hypothesis `Overlap = FALSE`:

* `Wiring` (`RunningWired`), `NoLeaks` (`LeaksOnlyAfterFailure`) and `RowSaved`
  (`RowMatchesMemory`). The invariant `SInv` says that one coroutine is in
  progress (`Alone`), that a started instance is linked and wired (`Wired`),
  and for the coroutine in progress, by its label: whether the instance is
  stopped there and how much of the new plugin object is in place
  (`Progress`), which objects may have handlers or an open database (`Leaks`),
  and that what is being saved is what the columns hold (`Saves`). With no
  coroutine in progress these say what the properties say. The lemmas `Before`
  and `After` reduce a step to the frame that moves.
* `Implementation` - `Spec => ImplementsLife`, the refinement. `load()` is
  `Link` twice, for the loader and for the client (or a stutter of an instance
  that is linked already),
  the step past `loader.load()` is `Attempt`, the return of the plugin's
  `start()` is `Run`, the first step of `stop()` is `Stop`, the switches are
  `Switch`, taking the references away is `Delete`; every other step is a
  stutter. `Run` needs `Progress`: the plugin object is that of the newest
  attempt.

**`ClientLifecycleProofs`**:

* under any overlap, `Typing`, `Identity` (`StartedVerified`) and `SyncLoop`
  (`OneSyncLoop`). One inductive invariant serves the three. It adds to them
  that every client object but the first was confirmed before it was put to use
  (`SwappedVerified`), and that a coroutine of `start()` between the answer of
  whoami and `started = True` finds the client of that moment confirmed: a swap
  in between brings in a confirmed one, and a whoami that was sent with an
  older object answers when `gen` is no longer 1.
* with `Overlap = FALSE`, `Syncing` (`SyncsWhenAsked`). Retries may sleep
  meanwhile. The invariant says that the coroutine in progress has either cut
  the loop and will start it again (`Cut`), or the property holds already; that
  the client is not started inside `start()` and `stop()`; and that the loop
  runs when `start()` is about to set `started`.

**`PluginUploadProofs`**: `Typing` under any overlap and for all files, where
an update in progress has its two files (`UpdateKnows`). Under `Orderly` (no
two requests overlap, every main module compiles, and a version has one build;
without these the properties fail, as said above), `SingleFile` (`OneFile`),
`Code` (`RunsWhatIsStored`) and `Survival` (`PluginSurvives`). The invariant
says that names, files, cached directories and the importer agree on versions
(`Versioned`), the loader has a file and has loaded nothing else
(`LoaderStored`), and whatever wants a loader has one (`LoaderNeeded`); between
requests there is one file and every instance runs it (`AtRest`); and inside
one (`Working`), by its label, which of the two files the loader has, who may
still run, and what is started. Crashes and boots are steps like any other.

**`RegistryProofs`**, under any overlap of requests and over any number of runs
of the process: `OneObject` (`OneObjectPerKey`), `InstancesInUse` (`InUse`) and
`CacheAndTables` (`CacheIsTables`). The assumption on the constants is that
users and instance ids are finite and apart, and that the bounds let a boot
give each instance row an object and a task. One inductive invariant, `IInv`:

* `TInv` - types, with what the types of the code say but TLA+ does not: a
  cache holds objects of its own class, an instance's `client` is a client, a
  frame that goes on at a label carries the objects and ids that label uses;
* `LockInv` - one coroutine is inside `get()` for a key, and the key is not
  cached meanwhile. This is what the getter lock and the look at the cache
  under it give, and why the object made at the end of `get()` is the only one;
* `OwnInv` - an object whose id was neither deleted nor renamed is the cached
  one. It gives `OneObjectPerKey`. It is not enough to look at the ids objects
  have now: a request may rename an object that another one has dropped, and
  the id whose cache entry went is then one it had before, hence `old`;
* `DropInv`, `CachedInv`, `RowInv` - an object that waits for its DELETE is not
  cached; what is cached has a row; what has a row is cached, or a coroutine
  is between the two, before its DELETE or after its INSERT. With no request in
  progress the last two are `CacheIsTables`;
* `InUse` - it is inductive once the types are there: `Ref` adds the instance or
  finds an equal one, which has the same id, and `Unref` takes out only what
  was added under the id of the instance;
* `LoadInv` - `start()` only reads: no coroutine of it deletes, renames or
  inserts, so `Client.all()` finds every object cached.

Every step of a request is of one of six kinds (`Calm`, `Drops`, `Publishes`,
`Inserts`, `Deletes`, `Renames`), defined by what it does to objects, cache and
rows. A lemma for each action says of which kind it is, a lemma for each kind
that it keeps the invariant. `all()` numbers the rows with `SetToSeq`, about
which `SetToSeqIs` says that it lists each member once.

**`PluginRuntimeProofs`**: `Clean` (`PathClean`), `Final` (`DrainedIsFinal`),
`Strays` (`NoStrayTasks`), `Data` (`OwnData`). The invariant counts: the
permits of a run that are free or held never exceed the limit, and are zero
once it is drained; free and used connections never exceed the pool
(`CountOK`). A task past the stop of its run has one of the named excuses
(`TasksOK`). Data lies where the instance began, and what is there of an
earlier instance is among what its deletion left (`DataOK`).

**`LogSocketProofs`**: `Live` (`ListenersLive`), `Lossless` (`NothingLost`).
The two lists hold exactly their members, each once (`ListOK`); lemmas say what
`list.append` and `list.remove` do to such a list, the latter that the members
after the removed one move down, which is what makes `send()` pass over one.

**`ClientAuthProofs`**: `Authorised` (`LoginsAuthorised`), `Devices`
(`DeviceOfToken`), `Acknowledged` (`AcknowledgedKept`). The invariant follows
who asked from the middleware through the session to the device, and says that
past whoami a request has a token of the account and a device that passed the
comparison, which is that of the token unless the token is in `Unnamed`.

**`StandaloneProofs`**: `Once` (`EventsOnce`), `Accounted` (`EventsAccounted`),
`Stopped` (`StopComplete`), `Keys` (`OwnKeys`). The position in memory is ahead
of the committed one only between a response and its commit, or by events whose
commit failed, and nothing else after the committed position has been handled
(`PositionOK`); nothing starts again behind `stop()` (`StopOK`); the store has
the configured device, and whoami confirmed it or named none, before the plugin
runs (`KeysOK`).

**`StandaloneProofs`** also proves, of `Commands`, `CommandsWholeMessage`
(`WholeMessage`), `CommandsValuesFit` (`ValuesFit`) and `CommandsRespond`
(`RespondsAsDocumented`), for every message and everything a plugin may
declare. (`Commands` calls its specification `CommandSpec`, so that one module
can extend both.) What a plugin may declare is a hypothesis, `Declared(H, A)`:
its handlers are in `H`, their subcommands in `H` and their arguments in `A`, a
name or alias is a nonempty text without white space, a word that a callable
accepts too, texts are sequences of characters, and `Null` is none of these. `MCCommands` assumes the same of its
constants, so that TLC evaluates the hypothesis on the run.

* The invariant `CommandInv` says that while all the handlers entered refuse
  text that is left over, none has an argument that takes parts of words, and
  no value is overwritten (`Strict`), the words and values given so far followed by the words of `rest` are the
  words of the message, the first in lower case (`WholeSoFar`); that nothing
  but white space is left when the function is called (`NothingLeft`); and that
  each value given is one its argument accepts (`FitIn`).
* `Words` is defined from the places where words begin and end, with no order
  of evaluation. Lemmas say that there is one such sequence, that `Strip` does
  not change the words, and that those of a text are those before its first
  blank followed by those after it. From these, each action moves words from
  `rest` to `given`.
* Three lemmas would be inductions over data: a run without white space ends
  (`RunEnds`), and the function that `FlattenSeq` chooses exists and is the only
  one (`FlattensExists`, `FlattensUnique`). The induction theorems of the library
  cannot be instantiated here, so these argue from a least counterexample: a
  nonempty set of numbers has a least member, since their order is well-founded
  (`LeastNat`).
* `CommandsRespond` needs that a message does not change while it is handled,
  and that it is known of each whether it is in a thread.

Only model-checked are the liveness properties (`Settles` twice, `Answered`,
`StopEnds`, `StrangersLeave`, `SessionEnds`): fairness is beyond the prover.

## Plan

The models are done, and every safety property the runs check is proved. A
change to the code is followed by the change of its definition, the run, and
the proof of the lemma for that action.

## Not modelled

* `passive()` commands and the copies of handlers that `__get__` binds to an
  instance: a decorator and a memo without awaits;
* tombstone and invite handlers, autojoin and online flags, verification,
  display name and avatar beyond the fact that they are awaits;
* requests to the web apps of instances (`server.py`, `plugin_server.py`): the
  registration of routes is modelled, aiohttp's routing is not;
* events pushed by an appservice in standalone mode and the sharing of its
  keys, autojoin there, and the filter's limit of 50 events per room, which lets
  the homeserver leave out older ones;
* the parsing of zip archives in `lib/zipimport.py`, reading of files, rendering
  of markdown, cryptographic signatures, SQL upgrades: conversions of data with
  no state of their own;
* the instance database API (arbitrary SQL of an administrator), the client
  proxy (forwards HTTP), `responses.py` (constants), `dev_open`, the command
  line tool, the frontend, the testing helpers.

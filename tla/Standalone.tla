----------------------------- MODULE Standalone -----------------------------
(***************************************************************************)
(* Standalone mode: main() and stop() of standalone/__main__.py, the sync  *)
(* position of standalone/database.py, and restarts of the process.        *)
(*                                                                         *)
(* An interrupt makes run_until_complete(main()) raise. If it hit main()   *)
(* itself, main() is over; otherwise the task of main() stays in the loop  *)
(* and goes on while run_until_complete(stop()) runs.                      *)
(***************************************************************************)
EXTENDS Naturals, FiniteSets

CONSTANTS
    MaxEvents,  \* bound on events of the homeserver
    MaxRuns,    \* bound on runs of the process
    Sample      \* the configurations looked at

ASSUME BoundsAssumption == MaxEvents \in Nat \ {0} /\ MaxRuns \in Nat \ {0}

VARIABLES
    conf,       \* the config and the meta of the plugin
    runs,       \* runs of the process so far
    phase,      \* of the process
    clean,      \* no crash, second interrupt or error outside stop()
    main,       \* main(): what it awaits
    stop,       \* stop(): what it awaits
    early,      \* the interrupt came before main() was over
    up,         \* what is open: the database, the web server
    bot,        \* the plugin object
    sync,       \* the sync loop
    nb,         \* the sync position in memory, 0 for the empty one
    fresh,      \* the next response is the initial, the first or a later one
    batch,      \* the events of the response in hand
    latest,     \* the position of the homeserver
    saved,      \* the row of standalone_next_batch: position and filter
    device,     \* the device id in the crypto store
    handled,    \* how often the plugin was given each event
    missed,     \* events dispatched when the plugin had no handlers
    cut,        \* events whose dispatch an exit or a cancellation prevented
    skipped,    \* events of a response that the config says to ignore
    unsaved     \* events dispatched though put_next_batch() had raised

proc == <<runs, phase, clean, early>>
position == <<nb, fresh, batch>>
hist == <<handled, missed, cut, skipped, unsaved>>
vars == <<conf, proc, main, stop, up, bot, sync, position, latest, saved, device,
          hist>>

Events == 1..MaxEvents

Configs == [crypto : BOOLEAN, web : BOOLEAN, sync : BOOLEAN,
            database : {"none", "asyncpg", "unsupported"},
            device : {"right", "wrong"}, named : BOOLEAN,
            ignore : SUBSET {"first_sync", "initial_sync"}]

ASSUME SampleAssumption == Sample \subseteq Configs

-----------------------------------------------------------------------------
(* main()                                                                  *)

Going == phase \in {"startup", "stopping"}

At(l) == Going /\ main = l

\* The awaits of main(), in their order, as far as the config has them.
Goto(l) ==
    main' = IF l = "crypto" /\ conf.crypto THEN "crypto"
            ELSE IF l \in {"crypto", "web"}
            THEN IF conf.web THEN "web" ELSE "whoami"
            ELSE l

\* The end of main() by an exception, which in the startup calls stop().
Over ==
    /\ main' = "over"
    /\ IF phase = "startup" THEN phase' = "stopping" /\ stop' = "bot"
       ELSE UNCHANGED <<phase, stop>>

StartDatabase ==
    /\ At("db")
    /\ up' = up \cup {"db"}
    /\ Goto("load")
    /\ UNCHANGED <<conf, proc, stop, bot, sync, position, latest, saved, device, hist>>

\* NextBatch.load(), which inserts a missing row.
LoadNextBatch ==
    /\ At("load") /\ "db" \in up
    /\ saved' = IF saved.row THEN saved ELSE [saved EXCEPT !.row = TRUE]
    /\ nb' = saved'.next_batch
    /\ Goto("crypto")
    /\ UNCHANGED <<conf, proc, stop, up, bot, sync, fresh, batch, latest, device,
                   hist>>

\* Mutant: the id in the store is not compared.
UncheckedCrypto ==
    /\ At("crypto") /\ "db" \in up
    /\ device' = IF device = "none" THEN conf.device ELSE device
    /\ Goto("web")
    /\ UNCHANGED <<conf, proc, stop, up, bot, sync, position, latest, saved, hist>>

\* An empty store is given the configured id before whoami confirms it.
OpenCrypto ==
    /\ At("crypto") /\ "db" \in up
    /\ IF device \in {"none", conf.device}
       THEN device' = conf.device /\ Goto("web") /\ UNCHANGED <<phase, stop>>
       ELSE Over /\ UNCHANGED device
    /\ UNCHANGED <<conf, runs, clean, early, up, bot, sync, position, latest, saved,
                   hist>>

StartWeb ==
    /\ At("web")
    /\ up' = up \cup {"web"}
    /\ Goto("whoami")
    /\ UNCHANGED <<conf, proc, stop, bot, sync, position, latest, saved, device, hist>>

WhoamiFails ==
    /\ At("whoami")
    /\ Goto("sleep")
    /\ UNCHANGED <<conf, proc, stop, up, bot, sync, position, latest, saved, device,
                   hist>>

\* Mutant: the next try is not made.
UnretriedSleep ==
    /\ At("sleep")
    /\ Goto("sleep")
    /\ UNCHANGED <<conf, proc, stop, up, bot, sync, position, latest, saved, device,
                   hist>>

Sleep ==
    /\ At("sleep")
    /\ Goto("whoami")
    /\ UNCHANGED <<conf, proc, stop, up, bot, sync, position, latest, saved, device,
                   hist>>

\* client.start(): the first response of the loop is the initial one when the
\* position is empty.
StartSync == sync' = "poll" /\ fresh' = IF nb = 0 THEN "initial" ELSE "first"

\* The identity is compared, the device only if whoami names one (it does not
\* for the token of an appservice). With a filter there is no await before the
\* sync loop starts.
WhoamiAnswers ==
    /\ At("whoami")
    /\ IF conf.named /\ conf.device = "wrong" THEN Over /\ UNCHANGED <<sync, fresh>>
       ELSE /\ Goto(IF conf.sync /\ ~saved.filter_id THEN "filter" ELSE "profile")
            /\ IF conf.sync /\ saved.filter_id THEN StartSync
               ELSE UNCHANGED <<sync, fresh>>
            /\ UNCHANGED <<phase, stop>>
    /\ UNCHANGED <<conf, runs, clean, early, up, bot, nb, batch, latest, saved,
                   device, hist>>

PutFilter ==
    /\ At("filter") /\ "db" \in up
    /\ saved' = [saved EXCEPT !.filter_id = TRUE]
    /\ StartSync
    /\ Goto("profile")
    /\ UNCHANGED <<conf, proc, stop, up, bot, nb, batch, latest, device, hist>>

\* The plugin is built and internal_start() awaits pre_start().
Construct == bot' = "built" /\ Goto("prestart")

\* Display name and avatar are set; a database type that is not supported
\* ends the startup.
SetProfile ==
    /\ At("profile")
    /\ \/ conf.database = "unsupported" /\ Over /\ UNCHANGED bot
       \/ conf.database = "asyncpg" /\ Goto("plugindb")
          /\ UNCHANGED <<bot, phase, stop>>
       \/ conf.database = "none" /\ Construct /\ UNCHANGED <<phase, stop>>
    /\ UNCHANGED <<conf, runs, clean, early, up, sync, position, latest, saved,
                   device, hist>>

UpgradePluginDatabase ==
    /\ At("plugindb") /\ "db" \in up
    /\ Construct
    /\ UNCHANGED <<conf, proc, stop, up, sync, position, latest, saved, device, hist>>

\* internal_start() registers the handlers and awaits start().
Register ==
    /\ At("prestart")
    /\ bot' = "started"
    /\ Goto("start")
    /\ UNCHANGED <<conf, proc, stop, up, sync, position, latest, saved, device, hist>>

\* main() returns and the loop runs forever.
Started ==
    /\ At("start")
    /\ main' = "over"
    /\ phase' = IF phase = "startup" THEN "running" ELSE phase
    /\ UNCHANGED <<conf, runs, clean, early, stop, up, bot, sync, position, latest,
                   saved, device, hist>>

\* Any await of main() but whoami may raise, and those that need the database
\* do so once it is stopped.
MainRaises ==
    /\ Going
    /\ main \notin {"over", "whoami", "sleep"}
    /\ Over
    /\ UNCHANGED <<conf, runs, clean, early, up, bot, sync, position, latest, saved,
                   device, hist>>

-----------------------------------------------------------------------------
(* The sync loop (mautrix) and the events                                  *)

EventSent ==
    /\ latest < MaxEvents
    /\ latest' = latest + 1
    /\ UNCHANGED <<conf, proc, main, stop, up, bot, sync, position, saved, device,
                   hist>>

Alive == phase # "exited"

\* A response with the events after the position, and put_next_batch(). One
\* without events makes a difference only if it is the first.
SyncPoll ==
    /\ Alive /\ sync = "poll"
    /\ \E n \in nb..latest :
           /\ n > nb \/ (fresh # "later" /\ nb > 0)
           /\ nb' = n
           /\ batch' = (nb + 1)..n
    /\ sync' = "put"
    /\ UNCHANGED <<conf, proc, main, stop, up, bot, fresh, latest, saved, device,
                   hist>>

Put(n) == saved' = [saved EXCEPT !.next_batch = n]

\* Mutant: the position stays in memory.
ForgetfulPut ==
    /\ Alive /\ sync = "put"
    /\ sync' = "handle"
    /\ UNCHANGED <<conf, proc, main, stop, up, bot, position, latest, saved, device,
                   hist>>

\* Mutant: the position of the homeserver is taken for that of the response.
HastyPut ==
    /\ Alive /\ sync = "put" /\ "db" \in up
    /\ Put(latest)
    /\ sync' = "handle"
    /\ UNCHANGED <<conf, proc, main, stop, up, bot, position, latest, device, hist>>

\* The UPDATE of put_next_batch(). It may raise, whether or not it took effect,
\* and does once the database is stopped; the loop logs that and goes on.
PutNextBatch ==
    /\ Alive /\ sync = "put"
    /\ sync' = "handle"
    /\ \/ "db" \in up /\ Put(nb) /\ unsaved' \in {unsaved, unsaved \cup batch}
       \/ UNCHANGED saved /\ unsaved' = unsaved \cup batch
    /\ UNCHANGED <<conf, proc, main, stop, up, bot, position, latest, device,
                   handled, missed, cut, skipped>>

\* ignore_first_sync and ignore_initial_sync.
Ignored ==
    \/ fresh # "later" /\ "first_sync" \in conf.ignore
    \/ fresh = "initial" /\ "initial_sync" \in conf.ignore

\* The events of the response go to the handlers, unless it is ignored.
Dispatch ==
    /\ Alive /\ sync = "handle"
    /\ sync' = "poll"
    /\ fresh' = "later"
    /\ batch' = {}
    /\ \/ /\ Ignored
          /\ skipped' = skipped \cup batch
          /\ UNCHANGED <<handled, missed>>
       \/ /\ ~Ignored /\ bot = "started"
          /\ handled' = [e \in Events |-> handled[e] + (IF e \in batch THEN 1 ELSE 0)]
          /\ UNCHANGED <<missed, skipped>>
       \/ /\ ~Ignored /\ bot # "started"
          /\ missed' = missed \cup batch
          /\ UNCHANGED <<handled, skipped>>
    /\ UNCHANGED <<conf, proc, main, stop, up, bot, nb, latest, saved, device, cut,
                   unsaved>>

\* The sync loop ends wherever it is. An UPDATE that was under way may still
\* take effect.
Cut ==
    \/ sync = "put" /\ "db" \in up /\ Put(nb) /\ cut' = cut \cup batch
    \/ /\ cut' = IF sync = "handle" THEN cut \cup batch ELSE cut
       /\ UNCHANGED saved

-----------------------------------------------------------------------------
(* The end of the process                                                  *)

\* SIGINT or SIGTERM during the startup: main() is hit, or goes on.
InterruptStartup ==
    /\ phase = "startup"
    /\ phase' = "stopping"
    /\ stop' = "bot"
    /\ early' = TRUE
    /\ main' \in {main, "over"}
    /\ UNCHANGED <<conf, runs, clean, up, bot, sync, position, latest, saved, device,
                   hist>>

InterruptRunning ==
    /\ phase = "running"
    /\ phase' = "stopping"
    /\ stop' = "bot"
    /\ UNCHANGED <<conf, runs, clean, early, main, up, bot, sync, position, latest,
                   saved, device, hist>>

Stopping(l) == phase = "stopping" /\ stop = l

\* client.stop(), and internal_stop() if there is a plugin.
StopClient ==
    /\ Stopping("bot")
    /\ sync' = "off"
    /\ Cut
    /\ stop' = IF bot \in {"built", "started"} THEN "botstop" ELSE "web"
    /\ UNCHANGED <<conf, proc, main, up, bot, position, latest, device, handled,
                   missed, skipped, unsaved>>

\* An error of its hooks is caught.
StopBot ==
    /\ Stopping("botstop")
    /\ bot' \in {"stopped", "failed"}
    /\ stop' = "web"
    /\ UNCHANGED <<conf, proc, main, up, sync, position, latest, saved, device, hist>>

\* Mutant: a RuntimeError of the web server skips db.stop().
HastyStopWeb ==
    /\ Stopping("web")
    /\ \/ stop' = "db" /\ phase' = phase
       \/ "web" \in up /\ phase' = "exited" /\ stop' = "no"
    /\ up' = up \ {"web"}
    /\ UNCHANGED <<conf, runs, clean, early, main, bot, sync, position, latest, saved,
                   device, hist>>

\* shutdown() and cleanup(); a RuntimeError still leads to db.stop().
StopWeb ==
    /\ Stopping("web")
    /\ up' \in {up \ {"web"}, up}
    /\ stop' = "db"
    /\ UNCHANGED <<conf, proc, main, bot, sync, position, latest, saved, device, hist>>

\* The process ends, with whatever is still running in it.
Halt == phase' = "exited" /\ stop' = "no" /\ Cut

StopDatabase ==
    /\ Stopping("db")
    /\ up' = up \ {"db"}
    /\ stop' = "end"
    /\ UNCHANGED <<conf, proc, main, bot, sync, position, latest, saved, device, hist>>

Exit ==
    /\ Stopping("end")
    /\ Halt
    /\ UNCHANGED <<conf, runs, clean, early, main, up, bot, sync, position, latest,
                   device, handled, missed, skipped, unsaved>>

\* A crash, a second interrupt, or an error that ends run_forever().
Crash ==
    /\ Alive
    /\ clean' = FALSE
    /\ Halt
    /\ UNCHANGED <<conf, runs, early, main, up, bot, sync, position, latest, device,
                   handled, missed, skipped, unsaved>>

\* The process is started again; the operator may have corrected the device.
Restart ==
    /\ phase = "exited"
    /\ runs < MaxRuns
    /\ runs' = runs + 1
    /\ phase' = "startup"
    /\ clean' = TRUE
    /\ early' = FALSE
    /\ main' = "db"
    /\ up' = {}
    /\ bot' = "none"
    /\ sync' = "off"
    /\ nb' = 0 /\ fresh' = "later" /\ batch' = {}
    /\ \E d \in {"right", "wrong"} : conf' = [conf EXCEPT !.device = d]
    /\ UNCHANGED <<stop, latest, saved, device, hist>>

-----------------------------------------------------------------------------

Init ==
    /\ conf \in Sample
    /\ runs = 1
    /\ phase = "startup"
    /\ clean = TRUE
    /\ main = "db"
    /\ stop = "no"
    /\ early = FALSE
    /\ up = {}
    /\ bot = "none"
    /\ sync = "off"
    /\ nb = 0 /\ fresh = "later" /\ batch = {}
    /\ latest = 1
    /\ saved = [row |-> FALSE, next_batch |-> 0, filter_id |-> FALSE]
    /\ device = "none"
    /\ handled = [e \in Events |-> 0]
    /\ missed = {} /\ cut = {} /\ skipped = {} /\ unsaved = {}

Main ==
    \/ StartDatabase \/ LoadNextBatch \/ OpenCrypto \/ StartWeb \/ WhoamiFails
    \/ Sleep \/ WhoamiAnswers \/ PutFilter \/ SetProfile
    \/ UpgradePluginDatabase \/ Register \/ Started \/ MainRaises

Sync == SyncPoll \/ PutNextBatch \/ Dispatch

Stop == StopClient \/ StopBot \/ StopWeb \/ StopDatabase \/ Exit

Next ==
    \/ Main \/ EventSent \/ Sync \/ Stop
    \/ InterruptStartup \/ InterruptRunning \/ Crash \/ Restart

Spec == Init /\ [][Next]_vars

\* What main(), stop() and the sync loop await comes to an end, hooks of the
\* plugin included, and one of the tries of whoami is answered in the end.
Fairness ==
    WF_vars(Main) /\ WF_vars(Stop) /\ WF_vars(Sync) /\ SF_vars(WhoamiAnswers)

FairSpec == Spec /\ Fairness

-----------------------------------------------------------------------------
(* Properties                                                              *)

\* Over any number of crashes and restarts the plugin is given no event twice,
\* but for those of a response whose position put_next_batch() failed to store:
\* the commit comes before the dispatch, and the loop outlives its failure.
EventsOnce == \A e \in Events : handled[e] <= 1 \/ e \in unsaved

AccountedFor(e) ==
    \/ handled[e] > 0
    \/ e \in missed \cup cut
    \/ e \in skipped /\ conf.ignore # {}
    \/ sync = "handle" /\ e \in batch

\* Every event up to the committed position reached the plugin, is about to be
\* dispatched, or is lost in one of four ways: it was dispatched before the
\* plugin had its handlers or after it lost them, an exit or a cancellation cut
\* it off, or it came in a response the config says to ignore (by default the
\* first one of every run).
EventsAccounted == \A e \in 1..saved.next_batch : AccountedFor(e)

\* A process that ends by itself or by a signal, not by a crash, has stopped
\* its database, its sync loop and its plugin, whichever of these were there
\* and whatever failed; but for a startup that was interrupted, where main()
\* may have gone on behind the back of stop().
StopComplete ==
    phase = "exited" /\ clean /\ ~early =>
        /\ "db" \notin up
        /\ sync = "off"
        /\ bot \in {"none", "stopped", "failed"}

\* A plugin that runs with encryption has the keys of the configured device,
\* also after runs with another device id in the config; it is the device of the
\* token if whoami names that one.
OwnKeys ==
    bot = "started" /\ conf.crypto =>
        device = conf.device /\ (conf.named => device = "right")

\* A startup leads to a running plugin or to an exit, and so does a stop, as
\* long as the homeserver answers one of the tries.
Settles == phase \in {"startup", "stopping"} ~> phase \in {"running", "exited"}
=============================================================================

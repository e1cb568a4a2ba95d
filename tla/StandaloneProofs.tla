-------------------------- MODULE StandaloneProofs --------------------------
(***************************************************************************)
(* Proofs about what hands events to a plugin: Standalone and Commands.    *)
(*                                                                         *)
(* Standalone, for any number of events and runs: over crashes, restarts   *)
(* and failing commits it is known which events are handled twice and      *)
(* which are lost, a stop is complete, and a plugin runs with the keys of  *)
(* the configured device.                                                  *)
(*                                                                         *)
(* Commands, for any declarations and messages: the words of a message are *)
(* those of the call it leads to, a value is what its argument accepts,    *)
(* and a response relates to what it answers as respond() documents.       *)
(***************************************************************************)
EXTENDS Standalone, Commands, FiniteSetTheorems, SequenceTheorems, TLAPS

Early   == {"db", "load", "crypto", "web", "whoami", "sleep", "filter"}
Loaded  == {"crypto", "web", "whoami", "sleep", "filter"}
Checked == {"filter", "profile", "plugindb", "prestart", "start"}
Labels  == Early \cup Checked \cup {"over"}

\* Every part of the state has its shape.
TypeOK ==
    /\ conf \in Configs
    /\ phase \in {"startup", "running", "stopping", "exited"}
    /\ clean \in BOOLEAN /\ early \in BOOLEAN
    /\ main \in Labels
    /\ stop \in {"no", "bot", "botstop", "web", "db", "end"}
    /\ up \subseteq {"db", "web"}
    /\ bot \in {"none", "built", "started", "stopped", "failed"}
    /\ sync \in {"off", "poll", "put", "handle"}
    /\ nb \in 0..MaxEvents
    /\ fresh \in {"initial", "first", "later"}
    /\ latest \in 1..MaxEvents
    /\ saved \in [row : BOOLEAN, next_batch : 0..MaxEvents,
                  filter_id : BOOLEAN]
    /\ device \in {"none", "right", "wrong"}
    /\ handled \in [Events -> Nat]
    /\ batch \subseteq Events /\ unsaved \subseteq Events
    /\ missed \subseteq Events /\ cut \subseteq Events /\ skipped \subseteq Events

\* The sync loop runs from the position that main() loaded and is never behind
\* the committed one. What it has passed is accounted for, the response in hand
\* aside, and what the plugin was given beyond the committed position is of a
\* response whose position could not be stored.
PositionOK ==
    /\ main \in Early => sync = "off"
    /\ main \in Loaded => nb = saved.next_batch
    /\ sync # "off" /\ phase # "exited" =>
           /\ saved.next_batch <= nb
           /\ \A e \in 1..nb : AccountedFor(e) \/ (sync = "put" /\ e \in batch)
    /\ sync = "put" /\ phase # "exited" =>
           \A e \in batch : saved.next_batch < e /\ e <= nb
    /\ sync = "handle" =>
           \A e \in batch : /\ e <= saved.next_batch \/ e \in unsaved
                            /\ handled[e] = 0 \/ e \in unsaved
    /\ phase = "exited" /\ sync = "handle" => batch \subseteq cut
    /\ \A e \in Events : /\ e > saved.next_batch => handled[e] = 0 \/ e \in unsaved
                         /\ handled[e] <= 1 \/ e \in unsaved
    /\ skipped # {} => conf.ignore # {}

\* Nothing starts again behind stop(), unless the startup was interrupted.
StopOK ==
    /\ phase = "running" => main = "over"
    /\ phase = "stopping" /\ stop = "botstop" => bot \in {"built", "started"}
    /\ phase = "stopping" /\ ~early => main = "over"
    /\ phase = "stopping" /\ ~early =>
           /\ stop \in {"botstop", "web", "db", "end"} => sync = "off"
           /\ stop \in {"web", "db", "end"} =>
                  bot \in {"none", "stopped", "failed"}
           /\ stop = "end" => "db" \notin up
           /\ stop # "no"

\* The crypto store has the configured device id once it is open, whoami has
\* confirmed that id before anything of the plugin runs.
KeysOK ==
    /\ main \in Labels \ {"db", "load", "crypto", "over"} /\ conf.crypto =>
           device = conf.device
    /\ main \in Checked /\ conf.named => conf.device = "right"
    /\ main \in Early \cup {"profile", "plugindb"} => bot = "none"

\* The inductive invariant.
IInv ==
    /\ TypeOK /\ PositionOK /\ EventsAccounted
    /\ StopOK /\ StopComplete
    /\ KeysOK /\ OwnKeys

\* The invariant contains the property that the plugin is given no event twice.
LEMMA IInvImplies == IInv => EventsOnce
BY DEF IInv, PositionOK, EventsOnce

LEMMA InitIInv == Init => IInv
<1> SUFFICES ASSUME Init PROVE IInv
  OBVIOUS
<1>1. TypeOK
  <2>1. clean \in BOOLEAN /\ early \in BOOLEAN
    BY DEF Init
  <2>2. saved \in [row : BOOLEAN, next_batch : 0..MaxEvents,
                  filter_id : BOOLEAN]
    BY BoundsAssumption DEF Init
  <2>3. handled \in [Events -> Nat]
    BY DEF Init
  <2>4. conf \in Configs
    BY SampleAssumption DEF Init
  <2> QED
    BY <2>1, <2>2, <2>3, <2>4, BoundsAssumption
       DEF Init, TypeOK, Labels, Early, Checked
<1>2. PositionOK /\ EventsAccounted
  <2>1. saved.next_batch = 0 /\ \A e \in Events : handled[e] = 0
    BY DEF Init
  <2> QED
    BY <2>1, BoundsAssumption
       DEF Init, PositionOK, EventsAccounted, Early, Loaded, Events
<1>3. StopOK /\ StopComplete /\ KeysOK /\ OwnKeys
  BY DEF Init, StopOK, StopComplete, KeysOK, OwnKeys, Labels, Early, Checked
<1> QED
  BY <1>1, <1>2, <1>3 DEF IInv

\* Where main() is next, when the config has no encryption or no web server.
LEMMA GotoIs ==
    ASSUME conf \in Configs, NEW l \in Labels, Goto(l)
    PROVE  /\ main' \in Labels
           /\ main' = l \/ (l \in {"crypto", "web"} /\ main' \in {"web", "whoami"})
           /\ l = "crypto" /\ main' # l => ~conf.crypto
BY DEF Goto, Labels, Early, Checked

\* A step of main() or stop() that leaves the sync loop and its records alone.
LEMMA PositionKept ==
    ASSUME PositionOK, EventsAccounted,
           UNCHANGED <<conf, sync, nb, batch, saved, hist>>,
           phase' = "exited" <=> phase = "exited",
           main' \in Early => main \in Early,
           main' \in Loaded => main \in Loaded
    PROVE  PositionOK' /\ EventsAccounted'
BY DEF PositionOK, EventsAccounted, AccountedFor, hist

\* The end of the sync loop, or of the process, keeps the record of the events.
LEMMA CutIs ==
    ASSUME TypeOK, PositionOK, EventsAccounted, Cut, phase # "exited", main' = main,
           sync' = "off" \/ (sync' = sync /\ phase' = "exited"),
           UNCHANGED <<conf, nb, batch, handled, missed, skipped, unsaved>>
    PROVE  /\ PositionOK' /\ EventsAccounted' /\ cut' \subseteq Events
           /\ saved' \in [row : BOOLEAN, next_batch : 0..MaxEvents, filter_id : BOOLEAN]
<1>1. /\ saved \in [row : BOOLEAN, next_batch : 0..MaxEvents, filter_id : BOOLEAN]
      /\ nb \in 0..MaxEvents /\ batch \subseteq Events /\ cut \subseteq Events
      /\ saved.next_batch \in Nat /\ nb \in Nat
  BY DEF TypeOK
<1>2. main \in Early \/ main \in Loaded => sync = "off"
  BY DEF PositionOK, Early, Loaded
<1>3. CASE sync = "put" /\ saved' = [saved EXCEPT !.next_batch = nb] /\ cut' = cut \cup batch
  <2>1. /\ saved' \in [row : BOOLEAN, next_batch : 0..MaxEvents, filter_id : BOOLEAN]
        /\ saved'.next_batch = nb /\ cut' \subseteq Events
    BY <1>1, <1>3
  <2>2. saved.next_batch <= nb /\ \A e \in 1..nb : AccountedFor(e) \/ e \in batch
    BY <1>3 DEF PositionOK
  <2>3. \A e : AccountedFor(e) \/ e \in batch => AccountedFor(e)'
    BY <1>3 DEF AccountedFor
  <2>4. EventsAccounted'
    BY <2>1, <2>2, <2>3 DEF EventsAccounted
  <2>5. \A e \in Events : e > saved'.next_batch => e > saved.next_batch
    BY <1>1, <2>1, <2>2 DEF Events
  <2> QED
    BY <1>2, <1>3, <2>1, <2>4, <2>5 DEF PositionOK
<1>4. CASE saved' = saved /\ cut' = IF sync = "handle" THEN cut \cup batch ELSE cut
  <2>1. cut \subseteq cut' /\ (sync = "handle" => batch \subseteq cut') /\ cut' \subseteq Events
    BY <1>1, <1>4
  <2>2. \A e : AccountedFor(e) => AccountedFor(e)'
    BY <2>1 DEF AccountedFor
  <2>3. EventsAccounted'
    BY <1>4, <2>2 DEF EventsAccounted
  <2> QED
    BY <1>1, <1>2, <1>4, <2>1, <2>3 DEF PositionOK
<1> QED
  BY <1>3, <1>4 DEF Cut, Put

\* Every step keeps the invariant.
LEMMA StepIInv == IInv /\ [Next]_vars => IInv'
<1> SUFFICES ASSUME IInv, [Next]_vars PROVE IInv'
  OBVIOUS
<1>0. /\ TypeOK /\ PositionOK /\ EventsAccounted /\ StopOK /\ StopComplete
      /\ KeysOK /\ OwnKeys /\ conf \in Configs
  BY DEF IInv, TypeOK
<1>1. CASE StartDatabase
  <2>1. TypeOK'
    BY <1>0, <1>1, GotoIs, BoundsAssumption DEF StartDatabase, At, Going,
       proc, hist, position, TypeOK, Labels, Early, Checked, Configs, Events
  <2>2. PositionOK' /\ EventsAccounted'
    BY <1>0, <1>1, GotoIs, PositionKept DEF StartDatabase, At, Labels, Early,
       Loaded, Checked, proc, hist, position
  <2>3. StopOK' /\ StopComplete'
    BY <1>0, <1>1, GotoIs DEF StartDatabase, At, Going, proc, hist, position, StopOK,
       StopComplete, TypeOK, Labels, Early, Checked
  <2>4. KeysOK' /\ OwnKeys'
    BY <1>0, <1>1, GotoIs DEF StartDatabase, At, Going, proc, hist, position, KeysOK,
       OwnKeys, TypeOK, Labels, Early, Checked, Configs
  <2> QED
    BY <2>1, <2>2, <2>3, <2>4 DEF IInv
<1>2. CASE LoadNextBatch
  <2>1. TypeOK'
    <3>1. saved' \in [row : BOOLEAN, next_batch : 0..MaxEvents,
                     filter_id : BOOLEAN]
      BY <1>0, <1>2 DEF LoadNextBatch, TypeOK
    <3>2. main' \in Labels
      BY <1>0, <1>2, GotoIs DEF LoadNextBatch, Labels, Early, Checked
    <3>3. saved'.next_batch \in 0..MaxEvents
      BY <3>1
    <3> QED
      BY <1>0, <1>2, <3>1, <3>2, <3>3 DEF LoadNextBatch, TypeOK, proc, hist, position
  <2>2. PositionOK' /\ EventsAccounted'
    <3>1. /\ sync = "off" /\ sync' = "off" /\ nb' = saved'.next_batch
          /\ UNCHANGED <<conf, phase, batch, hist>>
      BY <1>0, <1>2 DEF LoadNextBatch, At, PositionOK, Early, proc
    <3>2. saved'.next_batch = saved.next_batch
      BY <1>0, <1>2 DEF LoadNextBatch, TypeOK
    <3> QED
      BY <1>0, <3>1, <3>2 DEF PositionOK, EventsAccounted, AccountedFor, hist
  <2>3. StopOK' /\ StopComplete'
    BY <1>0, <1>2, GotoIs DEF LoadNextBatch, At, Going, proc, hist, position, StopOK,
       StopComplete, TypeOK, Labels, Early, Checked
  <2>4. KeysOK' /\ OwnKeys'
    BY <1>0, <1>2, GotoIs DEF LoadNextBatch, At, Going, proc, hist, position, KeysOK,
       OwnKeys, TypeOK, Labels, Early, Checked, Configs
  <2> QED
    BY <2>1, <2>2, <2>3, <2>4 DEF IInv
<1>3. CASE OpenCrypto
  <2>1. TypeOK'
    BY <1>0, <1>3, GotoIs, BoundsAssumption DEF OpenCrypto, Over, At, Going,
       proc, hist, position, TypeOK, Labels, Early, Checked, Configs, Events
  <2>2. PositionOK' /\ EventsAccounted'
    BY <1>0, <1>3, GotoIs, PositionKept DEF OpenCrypto, At, Over, Labels, Early,
       Loaded, Checked, proc, hist, position
  <2>3. StopOK' /\ StopComplete'
    BY <1>0, <1>3, GotoIs DEF OpenCrypto, Over, At, Going, proc, hist, position, StopOK,
       StopComplete, TypeOK, Labels, Early, Checked
  <2>4. KeysOK' /\ OwnKeys'
    BY <1>0, <1>3, GotoIs DEF OpenCrypto, Over, At, Going, proc, hist, position, KeysOK,
       OwnKeys, TypeOK, Labels, Early, Checked, Configs
  <2> QED
    BY <2>1, <2>2, <2>3, <2>4 DEF IInv
<1>4. CASE StartWeb
  <2>1. TypeOK'
    BY <1>0, <1>4, GotoIs, BoundsAssumption DEF StartWeb, At, Going, proc,
       hist, position, TypeOK, Labels, Early, Checked, Configs, Events
  <2>2. PositionOK' /\ EventsAccounted'
    BY <1>0, <1>4, GotoIs, PositionKept DEF StartWeb, At, Labels, Early, Loaded,
       Checked, proc, hist, position
  <2>3. StopOK' /\ StopComplete'
    BY <1>0, <1>4, GotoIs DEF StartWeb, At, Going, proc, hist, position, StopOK,
       StopComplete, TypeOK, Labels, Early, Checked
  <2>4. KeysOK' /\ OwnKeys'
    BY <1>0, <1>4, GotoIs DEF StartWeb, At, Going, proc, hist, position, KeysOK,
       OwnKeys, TypeOK, Labels, Early, Checked, Configs
  <2> QED
    BY <2>1, <2>2, <2>3, <2>4 DEF IInv
<1>5. CASE WhoamiFails
  <2>1. TypeOK'
    BY <1>0, <1>5, GotoIs, BoundsAssumption DEF WhoamiFails, At, Going, proc,
       hist, position, TypeOK, Labels, Early, Checked, Configs, Events
  <2>2. PositionOK' /\ EventsAccounted'
    BY <1>0, <1>5, GotoIs, PositionKept DEF WhoamiFails, At, Labels, Early,
       Loaded, Checked, proc, hist, position
  <2>3. StopOK' /\ StopComplete'
    BY <1>0, <1>5, GotoIs DEF WhoamiFails, At, Going, proc, hist, position, StopOK,
       StopComplete, TypeOK, Labels, Early, Checked
  <2>4. KeysOK' /\ OwnKeys'
    BY <1>0, <1>5, GotoIs DEF WhoamiFails, At, Going, proc, hist, position, KeysOK,
       OwnKeys, TypeOK, Labels, Early, Checked, Configs
  <2> QED
    BY <2>1, <2>2, <2>3, <2>4 DEF IInv
<1>6. CASE Sleep
  <2>1. TypeOK'
    BY <1>0, <1>6, GotoIs, BoundsAssumption DEF Sleep, At, Going, proc, hist, position,
       TypeOK, Labels, Early, Checked, Configs, Events
  <2>2. PositionOK' /\ EventsAccounted'
    BY <1>0, <1>6, GotoIs, PositionKept DEF Sleep, At, Labels, Early, Loaded,
       Checked, proc, hist, position
  <2>3. StopOK' /\ StopComplete'
    BY <1>0, <1>6, GotoIs DEF Sleep, At, Going, proc, hist, position, StopOK,
       StopComplete, TypeOK, Labels, Early, Checked
  <2>4. KeysOK' /\ OwnKeys'
    BY <1>0, <1>6, GotoIs DEF Sleep, At, Going, proc, hist, position, KeysOK, OwnKeys,
       TypeOK, Labels, Early, Checked, Configs
  <2> QED
    BY <2>1, <2>2, <2>3, <2>4 DEF IInv
<1>7. CASE WhoamiAnswers
  <2>0. /\ main = "whoami" /\ main' \in {"over", "filter", "profile"}
        /\ phase' # "exited" /\ phase # "exited"
        /\ phase' \in {phase, "stopping"} /\ stop' \in {stop, "bot"}
        /\ sync' # "off" => sync' = sync \/ (sync' = "poll" /\ main' = "profile")
        /\ main' = "filter" => sync' = sync
        /\ fresh' \in {fresh, "initial", "first"} /\ sync' \in {sync, "poll"}
        /\ UNCHANGED <<conf, runs, clean, early, up, bot, nb, batch, latest, saved,
                      device, hist>>
    BY <1>7 DEF WhoamiAnswers, Over, StartSync, Goto, At, Going
  <2>1. TypeOK'
    <3>1. main' \in Labels
      BY <2>0 DEF Labels, Early, Checked
    <3>2. clean' \in BOOLEAN /\ early' \in BOOLEAN
      BY <1>0, <2>0 DEF TypeOK
    <3> QED
      BY <1>0, <2>0, <3>1, <3>2 DEF TypeOK, hist
  <2>2. PositionOK' /\ EventsAccounted'
    <3>1. sync = "off" /\ nb = saved.next_batch
      BY <1>0, <2>0 DEF PositionOK, Early, Loaded
    <3>2. sync' \in {"off", "poll"}
      BY <2>0, <3>1
    <3>3. nb' = saved'.next_batch /\ saved' = saved /\ saved.next_batch \in Nat
      BY <1>0, <2>0, <3>1 DEF TypeOK
    <3>4. main' \in Early => sync' = "off"
      BY <2>0, <3>1 DEF Early
    <3>5. \A e : AccountedFor(e)' <=> AccountedFor(e)
      BY <2>0, <3>1, <3>2 DEF AccountedFor, hist
    <3> QED
      BY <1>0, <2>0, <3>1, <3>2, <3>3, <3>4, <3>5 DEF PositionOK, EventsAccounted, hist
  <2>3. StopOK' /\ StopComplete'
    BY <1>0, <1>7, GotoIs DEF WhoamiAnswers, Over, At, Going, proc, hist, position,
       StopOK, StopComplete, TypeOK, Labels, Early, Checked
  <2>4. KeysOK' /\ OwnKeys'
    BY <1>0, <1>7, GotoIs DEF WhoamiAnswers, Over, At, Going, proc, hist, position,
       KeysOK, OwnKeys, TypeOK, Labels, Early, Checked, Configs
  <2> QED
    BY <2>1, <2>2, <2>3, <2>4 DEF IInv
<1>8. CASE PutFilter
  <2>0. /\ main = "filter" /\ main' = "profile" /\ sync' = "poll"
        /\ fresh' \in {"initial", "first"}
        /\ saved' = [saved EXCEPT !.filter_id = TRUE]
        /\ UNCHANGED <<conf, proc, stop, up, bot, nb, batch, latest, device, hist>>
    BY <1>8 DEF PutFilter, StartSync, Goto, At, Going
  <2>1. TypeOK'
    <3>1. saved' \in [row : BOOLEAN, next_batch : 0..MaxEvents,
                     filter_id : BOOLEAN]
      BY <1>0, <2>0 DEF TypeOK
    <3>2. main' \in Labels
      BY <2>0 DEF Labels, Checked
    <3> QED
      BY <1>0, <2>0, <3>1, <3>2 DEF TypeOK, proc, hist
  <2>2. PositionOK' /\ EventsAccounted'
    <3>1. sync = "off" /\ nb = saved.next_batch /\ saved'.next_batch = saved.next_batch
          /\ nb \in Nat
      BY <1>0, <2>0 DEF PositionOK, Early, Loaded, TypeOK
    <3>2. \A e : AccountedFor(e)' <=> AccountedFor(e)
      BY <2>0, <3>1 DEF AccountedFor, hist
    <3>3. main' \notin Early
      BY <2>0 DEF Early
    <3> QED
      BY <1>0, <2>0, <3>1, <3>2, <3>3 DEF PositionOK, EventsAccounted, hist, proc
  <2>3. StopOK' /\ StopComplete'
    BY <1>0, <1>8, GotoIs DEF PutFilter, At, Going, proc, hist, position, StopOK,
       StopComplete, TypeOK, Labels, Early, Checked
  <2>4. KeysOK' /\ OwnKeys'
    BY <1>0, <1>8, GotoIs DEF PutFilter, At, Going, proc, hist, position, KeysOK,
       OwnKeys, TypeOK, Labels, Early, Checked, Configs
  <2> QED
    BY <2>1, <2>2, <2>3, <2>4 DEF IInv
<1>9. CASE SetProfile
  <2>1. TypeOK'
    BY <1>0, <1>9, GotoIs, BoundsAssumption DEF SetProfile, Over, Construct,
       At, Going, proc, hist, position, TypeOK, Labels, Early, Checked, Configs, Events
  <2>2. PositionOK' /\ EventsAccounted'
    BY <1>0, <1>9, GotoIs, PositionKept DEF SetProfile, At, Over, Construct,
       Labels, Early, Loaded, Checked, proc, hist, position
  <2>3. StopOK' /\ StopComplete'
    BY <1>0, <1>9, GotoIs DEF SetProfile, Over, Construct, At, Going, proc,
       hist, position, StopOK, StopComplete, TypeOK, Labels, Early, Checked
  <2>4. KeysOK' /\ OwnKeys'
    BY <1>0, <1>9, GotoIs DEF SetProfile, Over, Construct, At, Going, proc,
       hist, position, KeysOK, OwnKeys, TypeOK, Labels, Early, Checked, Configs
  <2> QED
    BY <2>1, <2>2, <2>3, <2>4 DEF IInv
<1>10. CASE UpgradePluginDatabase
  <2>1. TypeOK'
    BY <1>0, <1>10, GotoIs, BoundsAssumption DEF UpgradePluginDatabase,
       Construct, At, Going, proc, hist, position, TypeOK, Labels, Early, Checked,
       Configs, Events
  <2>2. PositionOK' /\ EventsAccounted'
    BY <1>0, <1>10, GotoIs, PositionKept DEF UpgradePluginDatabase, At, Construct,
       Labels, Early, Loaded, Checked, proc, hist, position
  <2>3. StopOK' /\ StopComplete'
    BY <1>0, <1>10, GotoIs DEF UpgradePluginDatabase, Construct, At, Going,
       proc, hist, position, StopOK, StopComplete, TypeOK, Labels, Early, Checked
  <2>4. KeysOK' /\ OwnKeys'
    BY <1>0, <1>10, GotoIs DEF UpgradePluginDatabase, Construct, At, Going,
       proc, hist, position, KeysOK, OwnKeys, TypeOK, Labels, Early, Checked, Configs
  <2> QED
    BY <2>1, <2>2, <2>3, <2>4 DEF IInv
<1>11. CASE Register
  <2>1. TypeOK'
    BY <1>0, <1>11, GotoIs, BoundsAssumption DEF Register, At, Going, proc,
       hist, position, TypeOK, Labels, Early, Checked, Configs, Events
  <2>2. PositionOK' /\ EventsAccounted'
    BY <1>0, <1>11, GotoIs, PositionKept DEF Register, At, Labels, Early, Loaded,
       Checked, proc, hist, position
  <2>3. StopOK' /\ StopComplete'
    BY <1>0, <1>11, GotoIs DEF Register, At, Going, proc, hist, position, StopOK,
       StopComplete, TypeOK, Labels, Early, Checked
  <2>4. KeysOK' /\ OwnKeys'
    BY <1>0, <1>11, GotoIs DEF Register, At, Going, proc, hist, position, KeysOK,
       OwnKeys, TypeOK, Labels, Early, Checked, Configs
  <2> QED
    BY <2>1, <2>2, <2>3, <2>4 DEF IInv
<1>12. CASE Started
  <2>1. TypeOK'
    BY <1>0, <1>12, BoundsAssumption DEF Started, At, Going, proc, hist, position,
       TypeOK, Labels, Early, Checked, Configs, Events
  <2>2. PositionOK' /\ EventsAccounted'
    BY <1>0, <1>12, PositionKept DEF Started, At, Labels, Early, Loaded, Checked,
       proc, hist, position
  <2>3. StopOK' /\ StopComplete'
    BY <1>0, <1>12 DEF Started, At, Going, proc, hist, position, StopOK, StopComplete,
       TypeOK, Labels, Early, Checked
  <2>4. KeysOK' /\ OwnKeys'
    BY <1>0, <1>12 DEF Started, At, Going, proc, hist, position, KeysOK, OwnKeys,
       TypeOK, Labels, Early, Checked, Configs
  <2> QED
    BY <2>1, <2>2, <2>3, <2>4 DEF IInv
<1>13. CASE MainRaises
  <2>1. TypeOK'
    BY <1>0, <1>13, BoundsAssumption DEF MainRaises, Over, Going, proc, hist, position,
       TypeOK, Labels, Early, Checked, Configs, Events
  <2>2. PositionOK' /\ EventsAccounted'
    BY <1>0, <1>13, PositionKept DEF MainRaises, Over, Labels, Early, Loaded,
       Checked, proc, hist, position
  <2>3. StopOK' /\ StopComplete'
    BY <1>0, <1>13 DEF MainRaises, Over, Going, proc, hist, position, StopOK,
       StopComplete, TypeOK, Labels, Early, Checked
  <2>4. KeysOK' /\ OwnKeys'
    BY <1>0, <1>13 DEF MainRaises, Over, Going, proc, hist, position, KeysOK, OwnKeys,
       TypeOK, Labels, Early, Checked, Configs
  <2> QED
    BY <2>1, <2>2, <2>3, <2>4 DEF IInv
<1>14. CASE EventSent
  <2>1. TypeOK'
    BY <1>0, <1>14, BoundsAssumption DEF EventSent, proc, hist, position, TypeOK,
       Labels, Early, Checked, Configs, Events
  <2>2. PositionOK' /\ EventsAccounted'
    BY <1>0, <1>14, PositionKept DEF EventSent, proc, hist, position
  <2>3. StopOK' /\ StopComplete'
    BY <1>0, <1>14 DEF EventSent, proc, hist, position, StopOK, StopComplete, TypeOK,
       Labels, Early, Checked
  <2>4. KeysOK' /\ OwnKeys'
    BY <1>0, <1>14 DEF EventSent, proc, hist, position, KeysOK, OwnKeys, TypeOK, Labels,
       Early, Checked, Configs
  <2> QED
    BY <2>1, <2>2, <2>3, <2>4 DEF IInv
<1>15. CASE SyncPoll
  <2>0. PICK n \in nb..latest : nb' = n /\ batch' = (nb + 1)..n
    BY <1>15 DEF SyncPoll
  <2>a. /\ phase # "exited" /\ sync = "poll" /\ sync' = "put"
        /\ UNCHANGED <<conf, proc, main, stop, up, bot, fresh, latest, saved, device,
                      hist>>
    BY <1>15 DEF SyncPoll, Alive
  <2>b. nb \in Nat /\ n \in Nat /\ nb <= n /\ n <= MaxEvents /\ MaxEvents \in Nat
    BY <1>0, BoundsAssumption DEF TypeOK
  <2>1. TypeOK'
    <3>1. nb' \in 0..MaxEvents /\ batch' \subseteq Events
      BY <2>0, <2>b DEF Events
    <3> QED
      BY <1>0, <2>a, <3>1 DEF TypeOK, proc, hist
  <2>2. PositionOK' /\ EventsAccounted'
    <3>1. /\ saved.next_batch \in Nat /\ saved.next_batch <= nb
          /\ \A e \in 1..nb : AccountedFor(e)
      BY <1>0, <2>a DEF TypeOK, PositionOK
    <3>2. \A e : AccountedFor(e) => AccountedFor(e)'
      BY <2>a DEF AccountedFor, hist
    <3>3. \A e \in 1..n : AccountedFor(e)' \/ e \in batch'
      BY <2>0, <2>b, <3>1, <3>2
    <3>4. \A e \in batch' : saved.next_batch < e /\ e <= n
      BY <2>0, <2>b, <3>1
    <3>5. saved.next_batch <= n
      BY <2>b, <3>1
    <3>6. main \notin Early /\ main \notin Loaded
      BY <1>0, <2>a DEF PositionOK, Early, Loaded
    <3>7. EventsAccounted'
      BY <1>0, <2>a, <3>2 DEF EventsAccounted
    <3> QED
      BY <1>0, <2>0, <2>a, <3>3, <3>4, <3>5, <3>6, <3>7 DEF PositionOK, proc, hist
  <2>3. StopOK' /\ StopComplete'
    BY <1>0, <1>15 DEF SyncPoll, Alive, proc, hist, position, StopOK, StopComplete,
       TypeOK, Labels, Early, Checked
  <2>4. KeysOK' /\ OwnKeys'
    BY <1>0, <1>15 DEF SyncPoll, Alive, proc, hist, position, KeysOK, OwnKeys, TypeOK,
       Labels, Early, Checked, Configs
  <2> QED
    BY <2>1, <2>2, <2>3, <2>4 DEF IInv
<1>16. CASE PutNextBatch
  <2>0. /\ phase # "exited" /\ sync = "put" /\ sync' = "handle"
        /\ \/ saved' = [saved EXCEPT !.next_batch = nb]
           \/ saved' = saved /\ unsaved' = unsaved \cup batch
        /\ unsaved' \in {unsaved, unsaved \cup batch}
        /\ UNCHANGED <<conf, proc, main, stop, up, bot, nb, fresh, batch, latest, device,
                      handled, missed, cut, skipped>>
    BY <1>16 DEF PutNextBatch, Put, Alive, position
  <2>1. TypeOK'
    <3>1. saved' \in [row : BOOLEAN, next_batch : 0..MaxEvents, filter_id : BOOLEAN]
      <4>1. saved \in [row : BOOLEAN, next_batch : 0..MaxEvents, filter_id : BOOLEAN]
        BY <1>0 DEF TypeOK
      <4>2. nb \in 0..MaxEvents
        BY <1>0 DEF TypeOK
      <4> QED BY <2>0, <4>1, <4>2
    <3>2. unsaved' \subseteq Events
      BY <1>0, <2>0 DEF TypeOK
    <3> QED BY <1>0, <2>0, <3>1, <3>2 DEF TypeOK, proc
  <2>2. PositionOK' /\ EventsAccounted'
    <3>1. /\ saved.next_batch \in Nat /\ nb \in Nat /\ saved.next_batch <= nb
          /\ \A e \in 1..nb : AccountedFor(e) \/ e \in batch
          /\ \A e \in batch : saved.next_batch < e /\ e <= nb
          /\ batch \subseteq Events
      BY <1>0, <2>0 DEF TypeOK, PositionOK
    <3>2. \A e : AccountedFor(e) \/ e \in batch => AccountedFor(e)'
      BY <2>0 DEF AccountedFor
    <3>3. \A e \in 1..nb : AccountedFor(e)'
      BY <3>1, <3>2
    <3>4. saved'.next_batch = nb \/ (saved'.next_batch = saved.next_batch
                                     /\ unsaved' = unsaved \cup batch)
      BY <1>0, <2>0 DEF TypeOK
    <3>5. saved'.next_batch \in Nat /\ saved'.next_batch <= nb
          /\ saved.next_batch <= saved'.next_batch
      BY <3>1, <3>4
    <3>6. EventsAccounted'
      BY <3>1, <3>3, <3>5 DEF EventsAccounted
    <3>7. main \notin Early /\ main \notin Loaded
      BY <1>0, <2>0 DEF PositionOK, Early, Loaded
    <3>8. \A e \in batch : /\ e <= saved'.next_batch \/ e \in unsaved'
                           /\ handled[e] = 0 \/ e \in unsaved'
      <4> SUFFICES ASSUME NEW e \in batch
                   PROVE  /\ e <= saved'.next_batch \/ e \in unsaved'
                          /\ handled[e] = 0 \/ e \in unsaved'
        OBVIOUS
      <4>1. e \in Events /\ e > saved.next_batch /\ e <= nb
        BY <3>1 DEF Events
      <4>2. handled[e] = 0 \/ e \in unsaved
        BY <1>0, <4>1 DEF PositionOK
      <4> QED
        BY <2>0, <3>4, <4>1, <4>2
    <3>9. \A e \in Events : /\ e > saved'.next_batch => handled[e] = 0 \/ e \in unsaved'
                            /\ handled[e] <= 1 \/ e \in unsaved'
      <4> SUFFICES ASSUME NEW e \in Events
                   PROVE  /\ e > saved'.next_batch => handled[e] = 0 \/ e \in unsaved'
                          /\ handled[e] <= 1 \/ e \in unsaved'
        OBVIOUS
      <4>1. e \in Nat /\ (e > saved'.next_batch => e > saved.next_batch)
        BY <3>1, <3>5 DEF Events
      <4> QED
        BY <1>0, <2>0, <4>1 DEF PositionOK
    <3> QED
      BY <1>0, <2>0, <3>3, <3>5, <3>6, <3>7, <3>8, <3>9 DEF PositionOK, proc
  <2>3. StopOK' /\ StopComplete'
    BY <1>0, <1>16 DEF PutNextBatch, Alive, proc, hist, position, StopOK, StopComplete,
       TypeOK, Labels, Early, Checked
  <2>4. KeysOK' /\ OwnKeys'
    BY <1>0, <1>16 DEF PutNextBatch, Alive, proc, hist, position, KeysOK, OwnKeys,
       TypeOK, Labels, Early, Checked, Configs
  <2> QED
    BY <2>1, <2>2, <2>3, <2>4 DEF IInv
<1>17. CASE Dispatch
  <2>0. /\ phase # "exited" /\ sync = "handle" /\ sync' = "poll"
        /\ fresh' = "later" /\ batch' = {}
        /\ UNCHANGED <<conf, proc, main, stop, up, bot, nb, latest, saved, device, cut,
                      unsaved>>
    BY <1>17 DEF Dispatch, Alive
  <2>a. \/ Ignored /\ skipped' = skipped \cup batch /\ UNCHANGED <<handled, missed>>
        \/ /\ handled' = [e \in Events |-> handled[e] + (IF e \in batch THEN 1 ELSE 0)]
           /\ UNCHANGED <<missed, skipped>>
        \/ missed' = missed \cup batch /\ UNCHANGED <<handled, skipped>>
    BY <1>17 DEF Dispatch
  <2>b. /\ \A e \in Events : handled[e] \in Nat /\ handled'[e] \in Nat
        /\ \A e \in Events : handled[e] <= handled'[e] /\ handled'[e] <= handled[e] + 1
        /\ \A e \in Events \ batch : handled'[e] = handled[e]
        /\ handled' \in [Events -> Nat]
    <3>1. handled \in [Events -> Nat]
      BY <1>0 DEF TypeOK
    <3>2. CASE handled' = handled
      BY <3>1, <3>2
    <3>3. CASE handled' = [e \in Events |-> handled[e] + (IF e \in batch THEN 1 ELSE 0)]
      BY <3>1, <3>3
    <3> QED
      BY <2>a, <3>2, <3>3
  <2>1. TypeOK'
    <3>1. missed' \subseteq Events /\ skipped' \subseteq Events
      BY <1>0, <2>a DEF TypeOK
    <3> QED
      BY <1>0, <2>0, <2>b, <3>1 DEF TypeOK, proc
  <2>2. PositionOK' /\ EventsAccounted'
    <3>1. /\ saved.next_batch \in Nat /\ nb \in Nat /\ saved.next_batch <= nb
          /\ nb \in 0..MaxEvents /\ MaxEvents \in Nat /\ saved.next_batch \in 0..MaxEvents
          /\ \A e \in 1..nb : AccountedFor(e)
          /\ batch \subseteq Events
          /\ \A e \in batch : /\ e <= saved.next_batch \/ e \in unsaved
                              /\ handled[e] = 0 \/ e \in unsaved
      BY <1>0, <2>0, BoundsAssumption DEF TypeOK, PositionOK
    <3>2. skipped' # {} => conf.ignore # {}
      <4>1. Ignored => conf.ignore # {}
        BY DEF Ignored
      <4> QED
        BY <1>0, <2>a, <4>1 DEF PositionOK
    <3>3. \A e \in Events : AccountedFor(e) => AccountedFor(e)'
      <4> SUFFICES ASSUME NEW e \in Events, AccountedFor(e) PROVE AccountedFor(e)'
        OBVIOUS
      <4>1. CASE handled[e] > 0
        BY <2>b, <4>1 DEF AccountedFor
      <4>2. CASE e \in missed \cup cut
        BY <2>0, <2>a, <4>2 DEF AccountedFor
      <4>3. CASE e \in skipped /\ conf.ignore # {}
        BY <2>0, <2>a, <4>3 DEF AccountedFor
      <4>4. CASE e \in batch
        <5>1. CASE Ignored /\ skipped' = skipped \cup batch
          BY <2>0, <3>2, <4>4, <5>1 DEF AccountedFor
        <5>2. CASE handled' = [x \in Events |-> handled[x] + (IF x \in batch THEN 1 ELSE 0)]
          <6>1. handled'[e] = handled[e] + 1 /\ handled[e] \in Nat
            BY <2>b, <4>4, <5>2
          <6>2. handled'[e] > 0
            BY <6>1
          <6> QED
            BY <6>2 DEF AccountedFor
        <5>3. CASE missed' = missed \cup batch
          BY <4>4, <5>3 DEF AccountedFor
        <5> QED
          BY <2>a, <5>1, <5>2, <5>3
      <4> QED
        BY <4>1, <4>2, <4>3, <4>4 DEF AccountedFor
    <3>4. \A e \in 1..nb : e \in Events
      BY <3>1 DEF Events
    <3>5. \A e \in 1..nb : AccountedFor(e)'
      BY <3>1, <3>3, <3>4
    <3>6. EventsAccounted'
      BY <2>0, <3>1, <3>5 DEF EventsAccounted
    <3>7. main \notin Early /\ main \notin Loaded
      BY <1>0, <2>0 DEF PositionOK, Early, Loaded
    <3>8. ASSUME NEW e \in Events
          PROVE  /\ e > saved.next_batch => handled'[e] = 0 \/ e \in unsaved
                 /\ handled'[e] <= 1 \/ e \in unsaved
      <4>1. CASE e \in batch
        BY <2>b, <3>1, <4>1 DEF Events
      <4>2. CASE e \notin batch
        BY <1>0, <2>b, <4>2 DEF PositionOK
      <4> QED
        BY <4>1, <4>2
    <3> QED
      BY <1>0, <2>0, <3>1, <3>2, <3>5, <3>6, <3>7, <3>8 DEF PositionOK, proc
  <2>3. StopOK' /\ StopComplete'
    BY <1>0, <1>17 DEF Dispatch, Alive, proc, hist, position, StopOK, StopComplete,
       TypeOK, Labels, Early, Checked
  <2>4. KeysOK' /\ OwnKeys'
    BY <1>0, <1>17 DEF Dispatch, Alive, proc, hist, position, KeysOK, OwnKeys, TypeOK,
       Labels, Early, Checked, Configs
  <2> QED
    BY <2>1, <2>2, <2>3, <2>4 DEF IInv
<1>18. CASE StopClient
  <2>0. /\ PositionOK' /\ EventsAccounted' /\ cut' \subseteq Events
        /\ saved' \in [row : BOOLEAN, next_batch : 0..MaxEvents, filter_id : BOOLEAN]
    BY <1>0, <1>18, CutIs DEF StopClient, Stopping, proc, position
  <2>1. TypeOK'
    <3>1. clean' \in BOOLEAN /\ early' \in BOOLEAN
      BY <1>0, <1>18 DEF StopClient, TypeOK, proc
    <3> QED
      BY <1>0, <1>18, <2>0, <3>1 DEF StopClient, Stopping, proc, position, TypeOK
  <2>2. PositionOK' /\ EventsAccounted'
    BY <2>0
  <2>3. StopOK' /\ StopComplete'
    BY <1>0, <1>18 DEF StopClient, Stopping, Cut, proc, hist, position, StopOK,
       StopComplete, TypeOK, Labels, Early, Checked
  <2>4. KeysOK' /\ OwnKeys'
    BY <1>0, <1>18 DEF StopClient, Stopping, Cut, proc, hist, position, KeysOK, OwnKeys,
       TypeOK, Labels, Early, Checked, Configs
  <2> QED
    BY <2>1, <2>2, <2>3, <2>4 DEF IInv
<1>19. CASE StopBot
  <2>1. TypeOK'
    BY <1>0, <1>19, BoundsAssumption DEF StopBot, Stopping, proc, hist, position,
       TypeOK, Labels, Early, Checked, Configs, Events
  <2>2. PositionOK' /\ EventsAccounted'
    BY <1>0, <1>19, PositionKept DEF StopBot, Stopping, proc, hist, position
  <2>3. StopOK' /\ StopComplete'
    BY <1>0, <1>19 DEF StopBot, Stopping, proc, hist, position, StopOK, StopComplete,
       TypeOK, Labels, Early, Checked
  <2>4. KeysOK' /\ OwnKeys'
    BY <1>0, <1>19 DEF StopBot, Stopping, StopOK, KeysOK, OwnKeys, Early, Checked,
       proc
  <2> QED
    BY <2>1, <2>2, <2>3, <2>4 DEF IInv
<1>20. CASE StopWeb
  <2>1. TypeOK'
    BY <1>0, <1>20, BoundsAssumption DEF StopWeb, Stopping, proc, hist, position,
       TypeOK, Labels, Early, Checked, Configs, Events
  <2>2. PositionOK' /\ EventsAccounted'
    BY <1>0, <1>20, PositionKept DEF StopWeb, Stopping, proc, hist, position
  <2>3. StopOK' /\ StopComplete'
    BY <1>0, <1>20 DEF StopWeb, Stopping, proc, hist, position, StopOK, StopComplete,
       TypeOK, Labels, Early, Checked
  <2>4. KeysOK' /\ OwnKeys'
    BY <1>0, <1>20 DEF StopWeb, Stopping, proc, hist, position, KeysOK, OwnKeys, TypeOK,
       Labels, Early, Checked, Configs
  <2> QED
    BY <2>1, <2>2, <2>3, <2>4 DEF IInv
<1>21. CASE StopDatabase
  <2>1. TypeOK'
    BY <1>0, <1>21, BoundsAssumption DEF StopDatabase, Stopping, proc, hist, position,
       TypeOK, Labels, Early, Checked, Configs, Events
  <2>2. PositionOK' /\ EventsAccounted'
    BY <1>0, <1>21, PositionKept DEF StopDatabase, Stopping, proc, hist, position
  <2>3. StopOK' /\ StopComplete'
    BY <1>0, <1>21 DEF StopDatabase, Stopping, proc, hist, position, StopOK,
       StopComplete, TypeOK, Labels, Early, Checked
  <2>4. KeysOK' /\ OwnKeys'
    BY <1>0, <1>21 DEF StopDatabase, Stopping, proc, hist, position, KeysOK, OwnKeys,
       TypeOK, Labels, Early, Checked, Configs
  <2> QED
    BY <2>1, <2>2, <2>3, <2>4 DEF IInv
<1>22. CASE Exit
  <2>0. /\ PositionOK' /\ EventsAccounted' /\ cut' \subseteq Events
        /\ saved' \in [row : BOOLEAN, next_batch : 0..MaxEvents, filter_id : BOOLEAN]
    BY <1>0, <1>22, CutIs DEF Exit, Stopping, Halt, position
  <2>1. TypeOK'
    <3>1. clean' \in BOOLEAN /\ early' \in BOOLEAN
      BY <1>0, <1>22 DEF Exit, TypeOK, proc
    <3> QED
      BY <1>0, <1>22, <2>0, <3>1 DEF Exit, Stopping, Halt, position, TypeOK
  <2>2. PositionOK' /\ EventsAccounted'
    BY <2>0
  <2>3. StopOK' /\ StopComplete'
    BY <1>0, <1>22 DEF Exit, Stopping, Halt, Cut, proc, hist, position, StopOK,
       StopComplete, TypeOK, Labels, Early, Checked
  <2>4. KeysOK' /\ OwnKeys'
    BY <1>0, <1>22 DEF Exit, Stopping, Halt, Cut, proc, hist, position, KeysOK, OwnKeys,
       TypeOK, Labels, Early, Checked, Configs
  <2> QED
    BY <2>1, <2>2, <2>3, <2>4 DEF IInv
<1>23. CASE InterruptStartup
  <2>1. TypeOK'
    BY <1>0, <1>23, BoundsAssumption DEF InterruptStartup, proc, hist, position, TypeOK,
       Labels, Early, Checked, Configs, Events
  <2>2. PositionOK' /\ EventsAccounted'
    BY <1>0, <1>23, PositionKept DEF InterruptStartup, Labels, Early, Loaded,
       Checked, proc, hist, position
  <2>3. StopOK' /\ StopComplete'
    BY <1>0, <1>23 DEF InterruptStartup, proc, hist, position, StopOK, StopComplete,
       TypeOK, Labels, Early, Checked
  <2>4. KeysOK' /\ OwnKeys'
    BY <1>0, <1>23 DEF InterruptStartup, proc, hist, position, KeysOK, OwnKeys, TypeOK,
       Labels, Early, Checked, Configs
  <2> QED
    BY <2>1, <2>2, <2>3, <2>4 DEF IInv
<1>24. CASE InterruptRunning
  <2>1. TypeOK'
    BY <1>0, <1>24, BoundsAssumption DEF InterruptRunning, proc, hist, position, TypeOK,
       Labels, Early, Checked, Configs, Events
  <2>2. PositionOK' /\ EventsAccounted'
    BY <1>0, <1>24, PositionKept DEF InterruptRunning, proc, hist, position
  <2>3. StopOK' /\ StopComplete'
    BY <1>0, <1>24 DEF InterruptRunning, proc, hist, position, StopOK, StopComplete,
       TypeOK, Labels, Early, Checked
  <2>4. KeysOK' /\ OwnKeys'
    BY <1>0, <1>24 DEF InterruptRunning, proc, hist, position, KeysOK, OwnKeys, TypeOK,
       Labels, Early, Checked, Configs
  <2> QED
    BY <2>1, <2>2, <2>3, <2>4 DEF IInv
<1>25. CASE Crash
  <2>0. /\ PositionOK' /\ EventsAccounted' /\ cut' \subseteq Events
        /\ saved' \in [row : BOOLEAN, next_batch : 0..MaxEvents, filter_id : BOOLEAN]
    BY <1>0, <1>25, CutIs DEF Crash, Alive, Halt, position
  <2>1. TypeOK'
    <3>1. clean' \in BOOLEAN /\ early' \in BOOLEAN
      BY <1>0, <1>25 DEF Crash, TypeOK, proc
    <3> QED
      BY <1>0, <1>25, <2>0, <3>1 DEF Crash, Alive, Halt, position, TypeOK
  <2>2. PositionOK' /\ EventsAccounted'
    BY <2>0
  <2>3. StopOK' /\ StopComplete'
    BY <1>0, <1>25 DEF Crash, Alive, Halt, Cut, proc, hist, position, StopOK,
       StopComplete, TypeOK, Labels, Early, Checked
  <2>4. KeysOK' /\ OwnKeys'
    BY <1>0, <1>25 DEF Crash, Alive, Halt, Cut, proc, hist, position, KeysOK, OwnKeys,
       TypeOK, Labels, Early, Checked, Configs
  <2> QED
    BY <2>1, <2>2, <2>3, <2>4 DEF IInv
<1>26. CASE Restart
  <2>1. TypeOK'
    <3>1. conf' \in Configs
      BY <1>0, <1>26 DEF Restart, Configs
    <3>2. clean' \in BOOLEAN /\ early' \in BOOLEAN
      BY <1>26 DEF Restart
    <3> QED
      BY <1>0, <1>26, <3>1, <3>2, BoundsAssumption DEF Restart, TypeOK, Labels,
         Early, hist
  <2>2. PositionOK' /\ EventsAccounted'
    <3>1. /\ phase = "exited" /\ phase' = "startup" /\ main' = "db" /\ sync' = "off"
          /\ batch' = {} /\ conf'.ignore = conf.ignore /\ UNCHANGED <<saved, hist>>
      BY <1>0, <1>26 DEF Restart, Configs
    <3>2. main' \notin Loaded
      BY <3>1 DEF Loaded
    <3>3. \A e : AccountedFor(e) => AccountedFor(e)'
      BY <1>0, <3>1 DEF AccountedFor, PositionOK, hist
    <3> QED
      BY <1>0, <3>1, <3>2, <3>3 DEF PositionOK, EventsAccounted, hist
  <2>3. StopOK' /\ StopComplete'
    BY <1>0, <1>26 DEF Restart, proc, hist, position, StopOK, StopComplete, TypeOK,
       Labels, Early, Checked
  <2>4. KeysOK' /\ OwnKeys'
    BY <1>0, <1>26 DEF Restart, proc, hist, position, KeysOK, OwnKeys, TypeOK, Labels,
       Early, Checked, Configs
  <2> QED
    BY <2>1, <2>2, <2>3, <2>4 DEF IInv
<1>27. CASE UNCHANGED vars
  <2>1. TypeOK' /\ StopOK' /\ StopComplete' /\ KeysOK' /\ OwnKeys'
    BY <1>0, <1>27 DEF vars, proc, hist, position, TypeOK, StopOK, StopComplete, KeysOK,
       OwnKeys
  <2>2. PositionOK' /\ EventsAccounted'
    BY <1>0, <1>27, PositionKept DEF vars, proc, position
  <2> QED
    BY <2>1, <2>2 DEF IInv
<1> QED
  BY <1>1, <1>2, <1>3, <1>4, <1>5, <1>6, <1>7, <1>8, <1>9, <1>10, <1>11,
     <1>12, <1>13, <1>14, <1>15, <1>16, <1>17, <1>18, <1>19, <1>20, <1>21,
     <1>22, <1>23, <1>24, <1>25, <1>26, <1>27 DEF Next, Main, Sync, Stop

-----------------------------------------------------------------------------
(* The theorems                                                            *)

\* Over any crashes and restarts the plugin is given an event twice only if
\* put_next_batch() had raised for its response (the commit comes before the
\* dispatch).
THEOREM Once == Spec => []EventsOnce
BY InitIInv, StepIInv, IInvImplies, PTL DEF Spec

\* Every event up to the committed position reached the plugin, is in hand, or
\* was lost for one of the named reasons, the flags to ignore a sync included.
THEOREM Accounted == Spec => []EventsAccounted
<1>1. IInv => EventsAccounted
  BY DEF IInv
<1> QED
  BY <1>1, InitIInv, StepIInv, PTL DEF Spec

\* A stop that no interrupt of the startup preceded leaves nothing open
\* (stop() of standalone/__main__.py).
THEOREM Stopped == Spec => []StopComplete
<1>1. IInv => StopComplete
  BY DEF IInv
<1> QED
  BY <1>1, InitIInv, StepIInv, PTL DEF Spec

\* A plugin that runs with encryption has the keys of the configured device,
\* and that is the token's own wherever whoami names a device.
THEOREM Keys == Spec => []OwnKeys
<1>1. IInv => OwnKeys
  BY DEF IInv
<1> QED
  BY <1>1, InitIInv, StepIInv, PTL DEF Spec

-----------------------------------------------------------------------------
(* The command handlers of a plugin (Commands)                             *)
(*                                                                         *)
(* The theorems hold for every set H of handlers and A of arguments a      *)
(* plugin may declare: Declared(H, A).                                     *)
(*                                                                         *)
(* What was parsed and what is left are always the words of the message:   *)
(* first that Words() finds them, whatever blanks are between them; then   *)
(* that a word taken from the front of a text is the first of its words;   *)
(* then that each step of a call moves words from rest to given.           *)

-----------------------------------------------------------------------------
(* Numbers                                                                 *)

NatLess == {ss \in Nat \X Nat : ss[1] < ss[2]}

\* The order of the numbers is well-founded.
LEMMA NatLessWF == IsWellFoundedOn(NatLess, Nat)
BY NatLessThanWellFounded DEF NatLess, OpToRel

\* A set of numbers has a least one: what induction rests on below.
LEMMA LeastNat ==
    ASSUME NEW S, S \subseteq Nat, S # {}
    PROVE  \E n \in S : \A m \in S : n <= m
<1>1. PICK x \in S : \A y \in S : ~ (<<y, x>> \in NatLess)
  BY NatLessWF, WFMin
<1>2. \A y \in S : ~(y < x)
  BY <1>1 DEF NatLess
<1> QED BY <1>2

\* Min() of a set of numbers is its least member.
LEMMA MinOf ==
    ASSUME NEW S, S \subseteq Nat, S # {}
    PROVE  Min(S) \in S /\ \A m \in S : Min(S) <= m
BY LeastNat DEF Min

\* Max() of a bounded set of numbers is its greatest member.
LEMMA MaxOf ==
    ASSUME NEW N \in Nat, NEW S, S \subseteq 0..N, S # {}
    PROVE  Max(S) \in S /\ \A m \in S : m <= Max(S)
<1> DEFINE T == {n \in Nat : \E m \in S : n = N - m}
<1>1. T \subseteq Nat /\ T # {}
  <2>1. PICK m \in S : TRUE
    OBVIOUS
  <2>2. N - m \in T
    BY <2>1
  <2> QED BY <2>2
<1>2. PICK n \in T : \A m \in T : n <= m
  BY <1>1, LeastNat
<1>3. PICK x \in S : n = N - x
  BY <1>2
<1>4. \A y \in S : x >= y
  <2> TAKE y \in S
  <2>1. N - y \in T
    OBVIOUS
  <2> QED BY <2>1, <1>2, <1>3
<1>5. \E z \in S : \A y \in S : z >= y
  BY <1>4
<1> DEFINE P(z) == \A y \in S : z >= y
<1>6. \E z : z \in S /\ P(z)
  BY <1>5
<1>7. Max(S) \in S /\ P(Max(S))
  BY <1>6 DEF Max
<1> QED BY <1>7

-----------------------------------------------------------------------------
(* AllTexts                                                                   *)

\* A text is a function on its places.
LEMMA TextDomain ==
    ASSUME NEW s \in AllTexts
    PROVE  /\ Len(s) \in Nat /\ DOMAIN s = 1..Len(s)
           /\ \A i \in DOMAIN s : s[i] \in STRING
BY DEF AllTexts

\* A part of a text.
LEMMA SubText ==
    ASSUME NEW s \in AllTexts, NEW m \in Nat, NEW n \in Nat, 1 <= m, m <= n + 1, n <= Len(s)
    PROVE  /\ SubSeq(s, m, n) \in AllTexts /\ Len(SubSeq(s, m, n)) = n - m + 1
           /\ \A k \in 1..(n - m + 1) : SubSeq(s, m, n)[k] = s[m + k - 1]
<1>1. \A k \in m..n : s[k] \in STRING
  <2> TAKE k \in m..n
  <2>1. k \in DOMAIN s
    BY TextDomain
  <2> QED BY <2>1, TextDomain
<1>2. /\ SubSeq(s, m, n) \in Seq(STRING)
      /\ Len(SubSeq(s, m, n)) = IF m <= n THEN n - m + 1 ELSE 0
      /\ \A k \in 1..(n - m + 1) : SubSeq(s, m, n)[k] = s[m + k - 1]
  BY <1>1, SubSeqProperties
<1>3. (IF m <= n THEN n - m + 1 ELSE 0) = n - m + 1
  OBVIOUS
<1> QED BY <1>2, <1>3 DEF AllTexts

\* The end of a text.
LEMMA TailText ==
    ASSUME NEW s \in AllTexts, NEW p \in Nat, 1 <= p, p <= Len(s) + 1
    PROVE  \E u \in AllTexts :
              /\ u = SubSeq(s, p, Len(s)) /\ Len(u) = Len(s) - p + 1
              /\ \A k \in 1..(Len(s) - p + 1) : u[k] = s[p + k - 1]
<1>1. Len(s) \in Nat /\ Len(s) <= Len(s)
  BY TextDomain
<1>2. /\ SubSeq(s, p, Len(s)) \in AllTexts
      /\ Len(SubSeq(s, p, Len(s))) = Len(s) - p + 1
      /\ \A k \in 1..(Len(s) - p + 1) : SubSeq(s, p, Len(s))[k] = s[p + k - 1]
  BY <1>1, SubText
<1> QED BY <1>2

\* What strip() leaves out is white space; what it leaves is empty, or begins
\* and ends with something else.
LEMMA StripIs ==
    ASSUME NEW s \in AllTexts
    PROVE  \/ Strip(s) = <<>> /\ \A i \in DOMAIN s : s[i] \in Space
           \/ \E a \in DOMAIN s, b \in DOMAIN s :
                 /\ a <= b /\ Strip(s) = SubSeq(s, a, b)
                 /\ s[a] \notin Space
                 /\ \A i \in DOMAIN s : i < a \/ i > b => s[i] \in Space
<1> DEFINE I == {i \in DOMAIN s : s[i] \notin Space}
<1>1. CASE I = {}
  BY <1>1 DEF Strip
<1>2. CASE I # {}
  <2>1. I \subseteq 0..Len(s) /\ Len(s) \in Nat /\ I \subseteq Nat
    BY TextDomain
  <2>2. Min(I) \in I /\ \A m \in I : Min(I) <= m
    BY <2>1, <1>2, MinOf
  <2>3. Max(I) \in I /\ \A m \in I : m <= Max(I)
    <3> HIDE DEF I
    <3> QED BY <2>1, <1>2, MaxOf
  <2>4. Strip(s) = SubSeq(s, Min(I), Max(I))
    BY <1>2 DEF Strip
  <2>5. \A i \in DOMAIN s : i < Min(I) \/ i > Max(I) => s[i] \in Space
    <3> TAKE i \in DOMAIN s
    <3>1. i \in I => Min(I) <= i /\ i <= Max(I)
      BY <2>2, <2>3
    <3>2. i \in Nat /\ Min(I) \in Nat /\ Max(I) \in Nat
      BY <2>1, <2>2, <2>3, TextDomain
    <3> HIDE DEF I
    <3>3. i < Min(I) \/ i > Max(I) => i \notin I
      BY <3>1, <3>2
    <3> QED BY <3>3 DEF I
  <2> DEFINE a == Min(I)
             b == Max(I)
  <2>6. a \in DOMAIN s /\ b \in DOMAIN s /\ s[a] \notin Space
    BY <2>2, <2>3
  <2>7. a <= b
    BY <2>2, <2>3
  <2>8. /\ a <= b /\ Strip(s) = SubSeq(s, a, b)
        /\ s[a] \notin Space
        /\ \A i \in DOMAIN s : i < a \/ i > b => s[i] \in Space
    BY <2>4, <2>5, <2>6, <2>7
  <2> HIDE DEF a, b, I
  <2> QED BY <2>6, <2>8
<1> QED BY <1>1, <1>2

\* Where a text is split first.
LEMMA SplitIs ==
    ASSUME NEW s \in AllTexts, NEW S
    PROVE  \/ SplitAt(s, S) = <<s, <<>>>> /\ \A i \in DOMAIN s : s[i] \notin S
           \/ \E m \in 0..Len(s) :
                 /\ m < Len(s) /\ s[m + 1] \in S
                 /\ \A i \in 1..m : s[i] \notin S
                 /\ SplitAt(s, S) = <<SubSeq(s, 1, m), SubSeq(s, m + 2, Len(s))>>
<1> DEFINE I == {i \in DOMAIN s : s[i] \in S}
<1>1. CASE I = {}
  BY <1>1 DEF SplitAt
<1>2. CASE I # {}
  <2>1. I \subseteq Nat /\ Len(s) \in Nat /\ DOMAIN s = 1..Len(s)
    BY TextDomain
  <2>2. Min(I) \in I /\ \A m \in I : Min(I) <= m
    BY <2>1, <1>2, MinOf
  <2>3. SplitAt(s, S) = <<SubSeq(s, 1, Min(I) - 1), SubSeq(s, Min(I) + 1, Len(s))>>
    BY <1>2 DEF SplitAt
  <2> DEFINE m == Min(I) - 1
  <2>4. Min(I) \in 1..Len(s) /\ s[Min(I)] \in S
    BY <2>1, <2>2
  <2>5. m \in 0..Len(s) /\ m < Len(s) /\ m + 1 = Min(I) /\ m + 2 = Min(I) + 1
    BY <2>4, <2>1
  <2>6. \A i \in 1..m : s[i] \notin S
    <3> TAKE i \in 1..m
    <3>1. i \in DOMAIN s /\ ~(Min(I) <= i)
      BY <2>1, <2>5, <2>4
    <3> QED BY <3>1, <2>2
  <2>7. /\ m < Len(s) /\ s[m + 1] \in S
        /\ \A i \in 1..m : s[i] \notin S
        /\ SplitAt(s, S) = <<SubSeq(s, 1, m), SubSeq(s, m + 2, Len(s))>>
    BY <2>3, <2>4, <2>5, <2>6
  <2> HIDE DEF m, I
  <2> QED BY <2>5, <2>7
<1> QED BY <1>1, <1>2
-----------------------------------------------------------------------------
(* Words                                                                   *)

\* Where the words of a text begin, and how many begin before a place.
Begins(s) == {i \in DOMAIN s : s[i] \notin Space /\ (i = 1 \/ s[i - 1] \in Space)}
Rank(B, i) == Cardinality({k \in B : k < i})

\* The word of s from i on ends at j.
Run(s, i, j) ==
    /\ i <= j /\ \A k \in i..j : s[k] \notin Space
    /\ i = 1 \/ s[i - 1] \in Space
    /\ j = Len(s) \/ s[j + 1] \in Space

EndOf(s, i) == CHOOSE j \in DOMAIN s : Run(s, i, j)
WordAt(s, i) == SubSeq(s, i, EndOf(s, i))

\* Finitely many words begin in a text, each at one of its places.
LEMMA BeginsFinite ==
    ASSUME NEW s \in AllTexts
    PROVE  /\ Begins(s) \subseteq 1..Len(s) /\ Begins(s) \subseteq Nat
           /\ IsFiniteSet(Begins(s)) /\ Cardinality(Begins(s)) \in Nat
<1>1. Begins(s) \subseteq 1..Len(s) /\ Begins(s) \subseteq Nat
  BY TextDomain DEF Begins
<1>2. IsFiniteSet(1..Len(s))
  BY FS_Interval, TextDomain
<1> QED BY <1>1, <1>2, FS_Subset, FS_CardinalityType

\* A word that begins ends, at one place.
LEMMA RunEnds ==
    ASSUME NEW s \in AllTexts, NEW i \in Begins(s)
    PROVE  \E j \in DOMAIN s : Run(s, i, j)
<1> DEFINE J == {j \in DOMAIN s : i <= j /\ (j = Len(s) \/ s[j + 1] \in Space)}
<1>1. /\ Len(s) \in Nat /\ DOMAIN s = 1..Len(s) /\ i \in 1..Len(s)
      /\ s[i] \notin Space /\ (i = 1 \/ s[i - 1] \in Space)
  BY TextDomain DEF Begins
<1>2. J \subseteq Nat /\ J # {}
  <2>1. Len(s) \in J
    BY <1>1
  <2> QED BY <1>1, <2>1
<1>3. PICK j \in J : \A m \in J : j <= m
  <2> HIDE DEF J
  <2> QED BY <1>2, LeastNat
<1>4. \A k \in i..j : s[k] \notin Space
  <2> SUFFICES ASSUME NEW k \in i..j, s[k] \in Space PROVE FALSE
    OBVIOUS
  <2>1. k # i /\ k - 1 \in DOMAIN s /\ i <= k - 1 /\ (k - 1) + 1 = k
    BY <1>1
  <2>2. k - 1 \in J
    BY <2>1
  <2>3. j \in Nat /\ i \in Nat
    BY <1>1
  <2> HIDE DEF J
  <2>4. j <= k - 1
    BY <1>3, <2>2
  <2> QED BY <2>3, <2>4
<1>5. j \in DOMAIN s /\ i <= j /\ (j = Len(s) \/ s[j + 1] \in Space)
  BY <1>3
<1> HIDE DEF J
<1>6. Run(s, i, j)
  BY <1>1, <1>4, <1>5 DEF Run
<1> QED BY <1>5, <1>6

\* A word ends at one place only.
LEMMA RunUnique ==
    ASSUME NEW s \in AllTexts, NEW i \in DOMAIN s, NEW j \in DOMAIN s, NEW l \in DOMAIN s,
           Run(s, i, j), Run(s, i, l)
    PROVE  j = l
<1>1. Len(s) \in Nat /\ DOMAIN s = 1..Len(s)
  BY TextDomain
<1>2. CASE j < l
  <2>1. j + 1 \in i..l /\ j # Len(s)
    BY <1>1, <1>2 DEF Run
  <2> QED BY <2>1 DEF Run
<1>3. CASE l < j
  <2>1. l + 1 \in i..j /\ l # Len(s)
    BY <1>1, <1>3 DEF Run
  <2> QED BY <2>1 DEF Run
<1> QED BY <1>1, <1>2, <1>3

\* So that is where EndOf says.
LEMMA EndOfIs ==
    ASSUME NEW s \in AllTexts, NEW i \in Begins(s), NEW j \in DOMAIN s, Run(s, i, j)
    PROVE  EndOf(s, i) = j
<1>1. i \in DOMAIN s
  BY DEF Begins
<1>2. EndOf(s, i) \in DOMAIN s /\ Run(s, i, EndOf(s, i))
  BY DEF EndOf
<1> QED BY <1>1, <1>2, RunUnique

\* The word at a beginning is a text that ends there.
LEMMA WordAtIs ==
    ASSUME NEW s \in AllTexts, NEW i \in Begins(s)
    PROVE  /\ EndOf(s, i) \in DOMAIN s /\ Run(s, i, EndOf(s, i))
           /\ WordAt(s, i) \in AllTexts
<1>1. EndOf(s, i) \in DOMAIN s /\ Run(s, i, EndOf(s, i))
  BY RunEnds DEF EndOf
<1>2. i \in Int /\ EndOf(s, i) \in Int /\ \A k \in i..EndOf(s, i) : s[k] \in STRING
  BY <1>1, TextDomain, BeginsFinite
<1> QED BY <1>1, <1>2, SubSeqProperties DEF WordAt, AllTexts

\* A set that lacks a member of a finite one has fewer.
LEMMA StrictSubset ==
    ASSUME NEW S, IsFiniteSet(S), NEW T, T \subseteq S, NEW x \in S, x \notin T
    PROVE  Cardinality(T) < Cardinality(S) /\ Cardinality(T) \in Nat /\ Cardinality(S) \in Nat
<1>1. T \in SUBSET S /\ T # S
  OBVIOUS
<1>2. /\ IsFiniteSet(T) /\ Cardinality(T) <= Cardinality(S)
      /\ Cardinality(S) = Cardinality(T) => S = T
  BY <1>1, FS_Subset
<1>3. Cardinality(T) \in Nat /\ Cardinality(S) \in Nat
  BY <1>2, FS_CardinalityType
<1> QED BY <1>1, <1>2, <1>3

\* Beginnings are numbered: different ones differently, from 0 on without a gap.
LEMMA RankType ==
    ASSUME NEW B, B \subseteq Nat, IsFiniteSet(B), NEW i \in B
    PROVE  Rank(B, i) \in 0..(Cardinality(B) - 1)
<1> DEFINE L == {k \in B : k < i}
<1>1. L \subseteq B /\ i \notin L
  BY i \in Nat
<1>2. Cardinality(L) < Cardinality(B) /\ Cardinality(L) \in Nat /\ Cardinality(B) \in Nat
  <2> HIDE DEF L
  <2> QED BY <1>1, StrictSubset
<1> QED BY <1>2 DEF Rank

\* A later beginning has a higher number.
LEMMA RankMonotone ==
    ASSUME NEW B, B \subseteq Nat, IsFiniteSet(B), NEW i \in B, NEW j \in B, i < j
    PROVE  Rank(B, i) < Rank(B, j)
<1> DEFINE L == {k \in B : k < i}
           M == {k \in B : k < j}
<1>1. L \subseteq M
  <2>1. \A k \in B : k < i => k < j
    BY i \in Nat, j \in Nat
  <2> QED BY <2>1
<1>2. i \in M /\ i \notin L
  BY i \in Nat
<1>3. IsFiniteSet(M)
  BY FS_Subset, M \subseteq B
<1>4. Cardinality(L) < Cardinality(M)
  <2> HIDE DEF L, M
  <2> QED BY <1>1, <1>2, <1>3, StrictSubset
<1> QED BY <1>4 DEF Rank

\* Every number below that of all the beginnings is the number of one.
LEMMA RankOnto ==
    ASSUME NEW B, B \subseteq Nat, IsFiniteSet(B), NEW n \in 1..Cardinality(B)
    PROVE  \E i \in B : Rank(B, i) = n - 1
<1> DEFINE T == 0..(Cardinality(B) - 1)
           f == [i \in B |-> Rank(B, i)]
<1>1. Cardinality(B) \in Nat
  BY FS_CardinalityType
<1>2. IsFiniteSet(T) /\ Cardinality(T) = Cardinality(B)
  <2>1. \A N \in Nat : IsFiniteSet(0..(N - 1)) /\ Cardinality(0..(N - 1)) = N
    <3> TAKE N \in Nat
    <3>1. 0 \in Int /\ N - 1 \in Int
      OBVIOUS
    <3>2. /\ IsFiniteSet(0..(N - 1))
          /\ Cardinality(0..(N - 1)) = IF 0 > N - 1 THEN 0 ELSE (N - 1) - 0 + 1
      BY <3>1, FS_Interval
    <3> QED BY <3>2
  <2> QED BY <1>1, <2>1
<1>3. \A i \in B : Rank(B, i) \in T
  BY RankType
<1>4. \A i, j \in B : Rank(B, i) = Rank(B, j) => i = j
  <2> TAKE i \in B, j \in B
  <2>1. i \in Nat /\ j \in Nat /\ Rank(B, i) \in Nat /\ Rank(B, j) \in Nat
    BY <1>1, <1>3
  <2>2. CASE i < j
    <3>1. Rank(B, i) < Rank(B, j)
      BY <2>2, RankMonotone
    <3> QED BY <2>1, <3>1
  <2>3. CASE j < i
    <3>1. Rank(B, j) < Rank(B, i)
      BY <2>3, RankMonotone
    <3> QED BY <2>1, <3>1
  <2> QED BY <2>1, <2>2, <2>3
<1>5. f \in Injection(B, T)
  BY <1>3, <1>4 DEF Injection, IsInjective
<1>6. f \in Surjection(B, T)
  <2> HIDE DEF f, T
  <2> QED BY <1>2, <1>5, FS_Injection
<1>7. n - 1 \in T
  BY <1>1
<1> QED BY <1>6, <1>7 DEF Surjection

\* The words of a text are those that begin in it, in the order of their
\* beginnings.
LEMMA WordsAre ==
    ASSUME NEW s \in AllTexts
    PROVE  Words(s) = [n \in 1..Cardinality(Begins(s)) |->
                          WordAt(s, CHOOSE i \in Begins(s) : Rank(Begins(s), i) = n - 1)]
<1>1. Begins(s) = {i \in DOMAIN s : \E j \in DOMAIN s : Run(s, i, j)}
  <2>1. \A i \in DOMAIN s : i \in Begins(s) => \E j \in DOMAIN s : Run(s, i, j)
    BY RunEnds
  <2>2. \A i, j \in DOMAIN s : Run(s, i, j) => i \in Begins(s)
    BY TextDomain DEF Run, Begins
  <2> QED BY <2>1, <2>2 DEF Begins
<1>2. Words(s) =
        LET B == {i \in DOMAIN s : \E j \in DOMAIN s : Run(s, i, j)}
            Nth(n) == CHOOSE i \in B : Cardinality({k \in B : k < i}) = n - 1 IN
        [n \in 1..Cardinality(B) |->
            LET i == Nth(n) IN SubSeq(s, i, CHOOSE j \in DOMAIN s : Run(s, i, j))]
  BY Zenon DEF Words, Run
<1> QED BY <1>1, <1>2 DEF WordAt, EndOf, Rank

\* A sequence that has each word of s at its place is Words(s).
LEMMA WordsUnique ==
    ASSUME NEW s \in AllTexts, NEW f \in Seq(AllTexts), Len(f) = Cardinality(Begins(s)),
           \A i \in Begins(s) : f[Rank(Begins(s), i) + 1] = WordAt(s, i)
    PROVE  f = Words(s)
<1> DEFINE B == Begins(s)
           Nth(n) == CHOOSE i \in B : Rank(B, i) = n - 1
<1>1. B \subseteq Nat /\ IsFiniteSet(B) /\ Cardinality(B) \in Nat
  BY BeginsFinite
<1>2. \A n \in 1..Cardinality(B) : Nth(n) \in B /\ Rank(B, Nth(n)) = n - 1
  <2> TAKE n \in 1..Cardinality(B)
  <2> HIDE DEF B
  <2> QED BY <1>1, RankOnto
<1>3. \A n \in 1..Cardinality(B) : f[n] = WordAt(s, Nth(n))
  <2> TAKE n \in 1..Cardinality(B)
  <2> DEFINE i == Nth(n)
  <2>1. i \in B /\ Rank(B, i) = n - 1
    BY <1>2
  <2> HIDE DEF i
  <2>2. f[Rank(B, i) + 1] = WordAt(s, i) /\ Rank(B, i) + 1 = n
    BY <2>1, <1>1
  <2> QED BY <2>2 DEF i
<1>4. Words(s) = [n \in 1..Cardinality(B) |-> WordAt(s, Nth(n))]
  BY WordsAre
<1>5. f = [n \in 1..Len(f) |-> f[n]]
  OBVIOUS
<1> HIDE DEF Nth
<1> QED BY <1>3, <1>4, <1>5
\* Words(s) is a sequence of texts that has each word of s at its place.
LEMMA WordsType ==
    ASSUME NEW s \in AllTexts
    PROVE  /\ Words(s) \in Seq(AllTexts) /\ Len(Words(s)) = Cardinality(Begins(s))
           /\ \A i \in Begins(s) : Words(s)[Rank(Begins(s), i) + 1] = WordAt(s, i)
<1> DEFINE B == Begins(s)
           Nth(n) == CHOOSE i \in B : Rank(B, i) = n - 1
<1>1. B \subseteq Nat /\ IsFiniteSet(B) /\ Cardinality(B) \in Nat
  BY BeginsFinite
<1>2. \A n \in 1..Cardinality(B) : Nth(n) \in B /\ Rank(B, Nth(n)) = n - 1
  <2> TAKE n \in 1..Cardinality(B)
  <2> HIDE DEF B
  <2> QED BY <1>1, RankOnto
<1>3. \A n \in 1..Cardinality(B) : WordAt(s, Nth(n)) \in AllTexts
  BY <1>2, WordAtIs
<1>4. Words(s) = [n \in 1..Cardinality(B) |-> WordAt(s, Nth(n))]
  BY WordsAre
<1>5. \A i \in B : Rank(B, i) + 1 \in 1..Cardinality(B) /\ Nth(Rank(B, i) + 1) = i
  <2> TAKE i \in B
  <2>1. Rank(B, i) \in 0..(Cardinality(B) - 1)
    BY <1>1, RankType
  <2>2. PICK n \in 1..Cardinality(B) : n = Rank(B, i) + 1
    BY <1>1, <2>1
  <2>3. PICK j \in B : j = Nth(n) /\ Rank(B, j) = n - 1
    BY <1>2
  <2>4. Rank(B, j) = Rank(B, i) /\ Rank(B, i) \in Nat
    BY <2>1, <2>2, <2>3, <1>1
  <2>5. ~(i < j) /\ ~(j < i)
    <3>1. ASSUME i < j PROVE FALSE
      <4>1. Rank(B, i) < Rank(B, j)
        BY <1>1, <2>3, <3>1, RankMonotone
      <4> QED BY <4>1, <2>4
    <3>2. ASSUME j < i PROVE FALSE
      <4>1. Rank(B, j) < Rank(B, i)
        BY <1>1, <2>3, <3>2, RankMonotone
      <4> QED BY <4>1, <2>4
    <3> QED BY <3>1, <3>2
  <2>6. i \in Nat /\ j \in Nat
    BY <1>1, <2>3
  <2>7. i = j
    BY <2>5, <2>6
  <2>8. Nth(n) = i
    BY <2>3, <2>7
  <2> QED BY <2>2, <2>8
<1> HIDE DEF Nth
<1>6. Words(s) \in Seq(AllTexts) /\ Len(Words(s)) = Cardinality(B)
  BY <1>1, <1>3, <1>4
<1>7. \A i \in B : Words(s)[Rank(B, i) + 1] = WordAt(s, i)
  <2> TAKE i \in B
  <2> DEFINE n == Rank(B, i) + 1
  <2>1. n \in 1..Cardinality(B) /\ Nth(n) = i
    BY <1>5
  <2> HIDE DEF n
  <2>2. Words(s)[n] = WordAt(s, i)
    BY <1>4, <2>1
  <2> QED BY <2>2 DEF n
<1> QED BY <1>6, <1>7

\* A text of white space has no words.
LEMMA WordsEmpty ==
    ASSUME NEW s \in AllTexts, \A i \in DOMAIN s : s[i] \in Space
    PROVE  Words(s) = <<>>
<1>1. Begins(s) = {}
  BY DEF Begins
<1>2. Cardinality(Begins(s)) = 0
  BY <1>1, FS_EmptySet
<1> QED BY <1>2, WordsType

\* t is what s has after d characters, but for white space at the end, and no
\* word of s goes across its beginning.
Shifted(s, t, d) ==
    /\ Len(t) + d <= Len(s)
    /\ \A i \in DOMAIN t : t[i] = s[i + d]
    /\ d = 0 \/ s[d] \in Space \/ (t # <<>> => t[1] \in Space)
    /\ \A i \in DOMAIN s : i > Len(t) + d => s[i] \in Space

\* The words that begin in t are those that begin in s after d characters, and
\* they are the same words.
LEMMA ShiftBegins ==
    ASSUME NEW s \in AllTexts, NEW t \in AllTexts, NEW d \in Nat, Shifted(s, t, d)
    PROVE  /\ \A i \in Begins(s) : i > d => i - d \in Begins(t)
           /\ \A i \in Begins(t) :
                 /\ i + d \in Begins(s)
                 /\ WordAt(s, i + d) = WordAt(t, i)
<1>1. /\ Len(s) \in Nat /\ DOMAIN s = 1..Len(s)
      /\ Len(t) \in Nat /\ DOMAIN t = 1..Len(t) /\ Len(t) + d <= Len(s)
  BY TextDomain DEF Shifted
<1>2. ASSUME NEW i \in Begins(s), i > d PROVE i - d \in Begins(t)
  <2>1. i \in 1..Len(s) /\ s[i] \notin Space /\ (i = 1 \/ s[i - 1] \in Space)
    BY <1>1 DEF Begins
  <2>2. i - d \in 1..Len(t) /\ (i - d) + d = i
    <3>1. ~(i > Len(t) + d)
      BY <1>1, <2>1 DEF Shifted
    <3> QED BY <1>1, <1>2, <2>1, <3>1
  <2>3. t[i - d] \notin Space
    BY <1>1, <2>1, <2>2 DEF Shifted
  <2>4. CASE i - d = 1
    BY <1>1, <2>2, <2>3, <2>4 DEF Begins
  <2>5. CASE i - d # 1
    <3>1. (i - d) - 1 \in 1..Len(t) /\ ((i - d) - 1) + d = i - 1 /\ i # 1
      BY <1>1, <2>1, <2>2, <2>5
    <3>2. t[(i - d) - 1] \in Space
      BY <1>1, <3>1, <2>1 DEF Shifted
    <3> QED BY <1>1, <2>2, <2>3, <3>2 DEF Begins
  <2> QED BY <2>4, <2>5
<1>3. ASSUME NEW i \in Begins(t)
      PROVE  i + d \in Begins(s) /\ WordAt(s, i + d) = WordAt(t, i)
  <2>1. i \in 1..Len(t) /\ t[i] \notin Space /\ (i = 1 \/ t[i - 1] \in Space)
    BY <1>1 DEF Begins
  <2>2. i + d \in 1..Len(s) /\ s[i + d] \notin Space
    BY <1>1, <2>1 DEF Shifted
  <2>3. i + d = 1 \/ s[i + d - 1] \in Space
    <3>1. CASE i = 1
      <4>1. t # <<>> /\ t[1] \notin Space
        BY <2>1, <3>1
      <4>2. d = 0 \/ s[d] \in Space
        BY <4>1 DEF Shifted
      <4> QED BY <4>2, <3>1, i + d - 1 = d
    <3>2. CASE i # 1
      <4>1. i - 1 \in 1..Len(t) /\ i + d - 1 = (i - 1) + d
        BY <1>1, <2>1, <3>2
      <4> QED BY <1>1, <2>1, <3>2, <4>1 DEF Shifted
    <3> QED BY <3>1, <3>2
  <2>4. i + d \in Begins(s)
    <3>1. PICK x \in DOMAIN s : x = i + d
      BY <1>1, <2>2
    <3>2. i \in Nat
      BY <1>1, <2>1
    <3>3. i + d - 1 = x - 1
      BY <3>1, <3>2
    <3>4. s[x] \notin Space /\ (x = 1 \/ s[x - 1] \in Space)
      BY <2>2, <2>3, <3>1, <3>3
    <3> QED BY <3>1, <3>4 DEF Begins
  <2>5. PICK j \in 1..Len(t) : /\ j = EndOf(t, i) /\ Run(t, i, j)
                              /\ i <= j /\ (j = Len(t) \/ t[j + 1] \in Space)
    BY <1>1, WordAtIs, Zenon DEF Run
  <2>6. PICK e \in 1..Len(s) : e = i + d
    BY <2>2
  <2>7. PICK f \in 1..Len(s) : f = j + d /\ f \in Nat /\ f <= Len(s)
    BY <1>1, <2>1, <2>5
  <2>8. Run(s, e, f)
    <3>a. PICK m, n \in Nat : m = Len(t) /\ n = Len(s) /\ m + d <= n
      BY <1>1, Zenon
    <3>b. /\ i \in Nat /\ 1 <= i /\ j \in Nat /\ i <= j /\ j <= m
          /\ e = i + d /\ f = j + d /\ m + d <= n
      BY <2>1, <2>5, <2>6, <2>7, <3>a
    <3>1. e <= f
      BY <3>b
    <3>2. \A k \in e..f : s[k] \notin Space
      <4> TAKE k \in e..f
      <4>1. k - d \in i..j /\ k - d \in 1..m /\ (k - d) + d = k
        BY <3>b
      <4>2. t[k - d] \notin Space
        BY <4>1, <2>5 DEF Run
      <4> QED BY <1>1, <3>a, <4>1, <4>2 DEF Shifted
    <3>3. f = Len(s) \/ s[f + 1] \in Space
      <4>1. CASE j = m /\ f # n
        <5>1. f + 1 \in 1..n /\ f + 1 > m + d
          BY <3>b, <4>1
        <5> QED BY <1>1, <3>a, <5>1, Zenon DEF Shifted
      <4>2. CASE j # m
        <5>1. j + 1 \in 1..m /\ (j + 1) + d = f + 1
          BY <3>b, <4>2
        <5>2. t[j + 1] \in Space
          BY <2>5, <3>a, <4>2
        <5> QED BY <1>1, <3>a, <5>1, <5>2, Zenon DEF Shifted
      <4>3. CASE f = n
        BY <3>a, <4>3
      <4> QED BY <4>1, <4>2, <4>3, Zenon
    <3>4. e = 1 \/ s[e - 1] \in Space
      BY <1>1, <2>1, <2>3, <2>6
    <3> QED BY <3>1, <3>2, <3>3, <3>4 DEF Run
  <2>9. EndOf(s, e) = f
    BY <1>1, <2>4, <2>6, <2>8, EndOfIs
  <2>10. SubSeq(s, e, f) = SubSeq(t, i, j)
    <3>1. i <= j /\ i \in Nat /\ j \in Nat /\ 1 <= i /\ j <= Len(t) /\ i <= j + 1
      BY <2>5, <2>1, <1>1
    <3>2. e <= f /\ e \in Nat /\ f \in Nat /\ 1 <= e /\ f <= Len(s) /\ e <= f + 1
      BY <3>1, <2>6, <2>7, <1>1
    <3>3. PICK u \in Seq(STRING) :
              /\ u = SubSeq(s, e, f) /\ Len(u) = f - e + 1
              /\ \A k \in 1..(f - e + 1) : u[k] = s[e + k - 1]
      <4>1. /\ SubSeq(s, e, f) \in AllTexts /\ Len(SubSeq(s, e, f)) = f - e + 1
            /\ \A k \in 1..(f - e + 1) : SubSeq(s, e, f)[k] = s[e + k - 1]
        BY <3>2, SubText
      <4> QED BY <4>1 DEF AllTexts
    <3>4. PICK v \in Seq(STRING) :
              /\ v = SubSeq(t, i, j) /\ Len(v) = j - i + 1
              /\ \A k \in 1..(j - i + 1) : v[k] = t[i + k - 1]
      <4>1. /\ SubSeq(t, i, j) \in AllTexts /\ Len(SubSeq(t, i, j)) = j - i + 1
            /\ \A k \in 1..(j - i + 1) : SubSeq(t, i, j)[k] = t[i + k - 1]
        BY <3>1, SubText
      <4> QED BY <4>1 DEF AllTexts
    <3>5. f - e + 1 = j - i + 1
      BY <3>1, <2>6, <2>7
    <3>6. \A k \in 1..(j - i + 1) : u[k] = v[k]
      <4> TAKE k \in 1..(j - i + 1)
      <4>1. i + k - 1 \in 1..Len(t) /\ (i + k - 1) + d = e + k - 1
        BY <3>1, <2>6, <1>1
      <4>2. t[i + k - 1] = s[e + k - 1]
        BY <1>1, <4>1 DEF Shifted
      <4> QED BY <4>2, <3>3, <3>4, <3>5
    <3>7. u = v
      <4>1. Len(u) = Len(v) /\ \A k \in 1..Len(u) : u[k] = v[k]
        BY <3>3, <3>4, <3>5, <3>6
      <4> QED BY <4>1, SeqEqual
    <3> QED BY <3>3, <3>4, <3>7
  <2> QED BY <2>4, <2>5, <2>6, <2>9, <2>10 DEF WordAt
<1> QED BY <1>2, <1>3
\* Moving the beginnings keeps their number.
LEMMA Translate ==
    ASSUME NEW B, B \subseteq Nat, IsFiniteSet(B), NEW d \in Nat, NEW D,
           \A x \in D : x \in Nat /\ x >= d /\ x - d \in B,
           \A i \in B : i + d \in D
    PROVE  IsFiniteSet(D) /\ Cardinality(D) = Cardinality(B)
<1> DEFINE f == [i \in B |-> i + d]
<1>1. f \in [B -> D]
  OBVIOUS
<1>2. \A i, j \in B : f[i] = f[j] => i = j
  <2> TAKE i \in B, j \in B
  <2>1. i \in Nat /\ j \in Nat /\ f[i] = i + d /\ f[j] = j + d
    OBVIOUS
  <2> QED BY <2>1
<1>3. \A x \in D : \E i \in B : f[i] = x
  <2> TAKE x \in D
  <2>1. x - d \in B /\ (x - d) + d = x
    OBVIOUS
  <2>2. f[x - d] = x
    BY <2>1
  <2> QED BY <2>1, <2>2
<1>4. f \in Bijection(B, D)
  <2> HIDE DEF f
  <2> QED BY <1>1, <1>2, <1>3 DEF Bijection, Injection, Surjection, IsInjective
<1>5. ExistsBijection(B, D)
  BY <1>4 DEF ExistsBijection
<1> QED BY <1>5, FS_Bijection

\* White space before and after a text is no part of its words.
LEMMA WordsDrop ==
    ASSUME NEW s \in AllTexts, NEW t \in AllTexts, NEW d \in Nat, Shifted(s, t, d),
           \A i \in 1..d : s[i] \in Space
    PROVE  Words(s) = Words(t)
<1> DEFINE B == Begins(t)
           D == Begins(s)
<1>1. /\ B \subseteq Nat /\ IsFiniteSet(B) /\ D \subseteq Nat /\ IsFiniteSet(D)
      /\ Cardinality(B) \in Nat
  BY BeginsFinite
<1>2. \A x \in D : x > d /\ x - d \in B
  <2> TAKE x \in D
  <2>1. x \in Nat /\ x >= 1 /\ s[x] \notin Space
    BY BeginsFinite DEF Begins
  <2>2. x > d
    <3>1. x \notin 1..d
      BY <2>1
    <3> QED BY <2>1, <3>1
  <2> QED BY <2>2, ShiftBegins
<1>3. \A i \in B : i + d \in D /\ WordAt(s, i + d) = WordAt(t, i)
  BY ShiftBegins
<1> HIDE DEF B, D
<1>4. Cardinality(D) = Cardinality(B)
  <2>1. \A x \in D : x \in Nat /\ x >= d /\ x - d \in B
    BY <1>1, <1>2
  <2> QED BY <1>1, <1>3, <2>1, Translate
<1>5. ASSUME NEW i \in B PROVE Rank(D, i + d) = Rank(B, i)
  <2> DEFINE L == {k \in B : k < i}
             M == {k \in D : k < i + d}
  <2>1. L \subseteq Nat /\ IsFiniteSet(L) /\ i \in Nat
    BY <1>1, FS_Subset, L \subseteq B
  <2>2. \A x \in M : x \in Nat /\ x >= d /\ x - d \in L
    <3> TAKE x \in M
    <3>1. x \in D /\ x \in Nat /\ x < i + d /\ x > d /\ x - d \in B
      BY <1>1, <1>2
    <3>2. x - d < i
      BY <2>1, <3>1
    <3> QED BY <3>1, <3>2
  <2>3. \A k \in L : k + d \in M
    <3> TAKE k \in L
    <3>1. k \in B /\ k < i /\ k \in Nat /\ k + d \in D
      BY <1>1, <1>3
    <3>2. k + d < i + d
      BY <2>1, <3>1
    <3> QED BY <3>1, <3>2
  <2>4. Cardinality(M) = Cardinality(L)
    <3> HIDE DEF L, M
    <3> QED BY <2>1, <2>2, <2>3, Translate
  <2> QED BY <2>4 DEF Rank
<1>6. \A x \in D : Words(t)[Rank(D, x) + 1] = WordAt(s, x)
  <2> TAKE x \in D
  <2>1. PICK i \in B : i + d = x
    <3>1. x \in Nat /\ x - d \in B
      BY <1>1, <1>2
    <3> QED BY <3>1
  <2>2. Rank(D, x) = Rank(B, i) /\ WordAt(s, x) = WordAt(t, i)
    BY <2>1, <1>3, <1>5
  <2>3. Words(t)[Rank(B, i) + 1] = WordAt(t, i)
    BY WordsType DEF B
  <2> QED BY <2>2, <2>3
<1>7. Words(t) \in Seq(AllTexts) /\ Len(Words(t)) = Cardinality(D)
  BY <1>4, WordsType DEF B
<1> QED BY <1>6, <1>7, WordsUnique DEF D

\* The first word of s has m characters.
WordFirst(s, m) ==
    /\ \A i \in 1..m : s[i] \notin Space
    /\ m = Len(s) \/ s[m + 1] \in Space

\* A text that begins with a word.
LEMMA WordsCons ==
    ASSUME NEW s \in AllTexts, NEW r \in AllTexts, NEW m \in Nat, 1 <= m, Shifted(s, r, m),
           WordFirst(s, m)
    PROVE  Words(s) = <<SubSeq(s, 1, m)>> \o Words(r)
<1> DEFINE B == Begins(r)
           D == Begins(s)
           E == D \ {1}
<1>1. /\ B \subseteq Nat /\ IsFiniteSet(B) /\ D \subseteq Nat /\ IsFiniteSet(D)
      /\ Cardinality(B) \in Nat /\ Cardinality(D) \in Nat
  BY BeginsFinite
<1>2. m <= Len(s) /\ Len(s) \in Nat /\ DOMAIN s = 1..Len(s)
  BY TextDomain DEF Shifted
<1>3. 1 \in D /\ WordAt(s, 1) = SubSeq(s, 1, m)
  <2>1. 1 \in 1..m /\ 1 \in DOMAIN s
    BY <1>2
  <2>2. 1 \in D
    BY <2>1 DEF Begins, WordFirst
  <2>3. Run(s, 1, m) /\ m \in DOMAIN s
    <3>1. m \in DOMAIN s
      BY <1>2
    <3> QED BY <3>1 DEF Run, WordFirst
  <2>4. EndOf(s, 1) = m
    BY <2>2, <2>3, EndOfIs
  <2> QED BY <2>2, <2>4 DEF WordAt
<1>4. \A x \in E : x > m /\ x - m \in B
  <2> TAKE x \in E
  <2>1. x \in 1..Len(s) /\ x # 1 /\ s[x - 1] \in Space
    BY <1>2 DEF Begins
  <2>2. x > m
    <3>1. x - 1 \notin 1..m
      BY <2>1 DEF WordFirst
    <3> QED BY <1>2, <2>1, <3>1
  <2> QED BY <2>2, ShiftBegins
<1>5. \A i \in B : i + m \in E /\ WordAt(s, i + m) = WordAt(r, i)
  <2> TAKE i \in B
  <2>1. i + m \in D /\ WordAt(s, i + m) = WordAt(r, i)
    BY ShiftBegins
  <2>2. i \in Nat /\ i >= 1
    BY BeginsFinite
  <2>3. i + m # 1
    BY <2>2
  <2> QED BY <2>1, <2>3
<1> HIDE DEF B, D
<1>6. E \subseteq Nat /\ IsFiniteSet(E) /\ Cardinality(D) = Cardinality(E) + 1
  <2>1. IsFiniteSet(E) /\ Cardinality(E) = Cardinality(D) - 1
    BY <1>1, <1>3, FS_RemoveElement
  <2> QED BY <1>1, <2>1
<1>7. Cardinality(E) = Cardinality(B)
  <2>1. \A x \in E : x \in Nat /\ x >= m /\ x - m \in B
    BY <1>1, <1>4
  <2> HIDE DEF E
  <2>2. \A i \in B : i + m \in E
    BY <1>5
  <2> QED BY <1>1, <2>1, <2>2, Translate
<1>8. ASSUME NEW i \in B PROVE Rank(D, i + m) = Rank(B, i) + 1
  <2> DEFINE L == {k \in B : k < i}
             M == {k \in E : k < i + m}
             N == {k \in D : k < i + m}
  <2>1. L \subseteq Nat /\ IsFiniteSet(L) /\ i \in Nat
    BY <1>1, FS_Subset, L \subseteq B
  <2>2. \A x \in M : x \in Nat /\ x >= m /\ x - m \in L
    <3> TAKE x \in M
    <3>1. x \in E /\ x \in Nat /\ x < i + m /\ x > m /\ x - m \in B
      BY <1>1, <1>4
    <3>2. x - m < i
      BY <2>1, <3>1
    <3> QED BY <3>1, <3>2
  <2>3. \A k \in L : k + m \in M
    <3> TAKE k \in L
    <3>1. k \in B /\ k < i /\ k \in Nat /\ k + m \in E
      BY <1>1, <1>5
    <3>2. k + m < i + m
      BY <2>1, <3>1
    <3> QED BY <3>1, <3>2
  <2>4. Cardinality(M) = Cardinality(L) /\ Cardinality(L) \in Nat /\ IsFiniteSet(M)
    <3> HIDE DEF L, M
    <3> QED BY <2>1, <2>2, <2>3, Translate, FS_CardinalityType
  <2>5. N = M \cup {1} /\ 1 \notin M
    <3>1. 1 < i + m
      <4>1. i >= 1
        BY BeginsFinite DEF B
      <4> QED BY <2>1, <4>1
    <3> QED BY <1>3, <3>1
  <2>6. Cardinality(N) = Cardinality(M) + 1
    <3> HIDE DEF N, M
    <3> QED BY <2>4, <2>5, FS_AddElement
  <2> QED BY <2>4, <2>6 DEF Rank
<1>9. Rank(D, 1) = 0
  <2>1. {k \in D : k < 1} = {}
    <3>1. \A k \in D : k >= 1 /\ k \in Nat
      BY BeginsFinite DEF D
    <3> QED BY <3>1
  <2> QED BY <2>1, FS_EmptySet DEF Rank
<1>10. PICK w \in AllTexts : w = SubSeq(s, 1, m)
  <2>1. 1 \in Nat /\ 1 <= 1 /\ 1 <= m + 1 /\ m <= Len(s)
    BY <1>2
  <2> QED BY <2>1, SubText
<1>11. PICK f \in Seq(AllTexts) : f = <<w>> \o Words(r)
  <2>1. <<w>> \in Seq(AllTexts) /\ Words(r) \in Seq(AllTexts)
    BY WordsType
  <2> QED BY <2>1, ConcatProperties
<1>12. /\ Len(f) = Cardinality(D) /\ f[1] = w
       /\ \A n \in 1..Cardinality(B) : f[n + 1] = Words(r)[n]
  <2>1. PICK v \in Seq(AllTexts) : v = Words(r) /\ Len(v) = Cardinality(B)
    BY WordsType DEF B
  <2>2. f = <<w>> \o v
    BY <1>11, <2>1
  <2>3. Len(f) = 1 + Cardinality(B) /\ f[1] = w /\ \A n \in 1..Len(v) : f[n + 1] = v[n]
    BY <2>1, <2>2, <1>1
  <2> QED BY <2>1, <2>3, <1>6, <1>7, <1>1
<1>13. \A x \in D : f[Rank(D, x) + 1] = WordAt(s, x)
  <2> TAKE x \in D
  <2>1. CASE x = 1
    <3>1. Rank(D, x) + 1 = 1
      BY <2>1, <1>9
    <3> QED BY <2>1, <3>1, <1>3, <1>10, <1>12
  <2>2. CASE x # 1
    <3>1. PICK i \in B : i + m = x
      <4>1. x \in Nat /\ x - m \in B
        BY <1>1, <1>4, <2>2
      <4> QED BY <4>1
    <3>2. Rank(D, x) = Rank(B, i) + 1 /\ WordAt(s, x) = WordAt(r, i)
      BY <3>1, <1>5, <1>8
    <3>3. Words(r)[Rank(B, i) + 1] = WordAt(r, i)
      BY WordsType DEF B
    <3>4. Rank(B, i) + 1 \in 1..Cardinality(B)
      <4>1. Rank(B, i) \in 0..(Cardinality(B) - 1)
        BY <1>1, RankType
      <4> QED BY <4>1, <1>1
    <3> QED BY <3>2, <3>3, <3>4, <1>12
  <2> QED BY <2>1, <2>2
<1>14. f = Words(s)
  BY <1>12, <1>13, WordsUnique DEF D
<1> QED BY <1>10, <1>11, <1>14
\* strip() keeps the words, and a text of white space has none.
LEMMA StripWords ==
    ASSUME NEW s \in AllTexts
    PROVE  /\ Strip(s) \in AllTexts /\ Words(Strip(s)) = Words(s)
           /\ Strip(s) # <<>> => Strip(s)[1] \notin Space
<1>1. CASE Strip(s) = <<>> /\ \A i \in DOMAIN s : s[i] \in Space
  <2>1. <<>> \in AllTexts /\ DOMAIN <<>> = {}
    BY DEF AllTexts
  <2>2. Words(s) = <<>> /\ Words(<<>>) = <<>>
    BY <1>1, <2>1, WordsEmpty
  <2> QED BY <1>1, <2>1, <2>2
<1>2. ASSUME NEW a \in DOMAIN s, NEW b \in DOMAIN s,
             a <= b, Strip(s) = SubSeq(s, a, b), s[a] \notin Space,
             \A i \in DOMAIN s : i < a \/ i > b => s[i] \in Space
      PROVE  /\ Strip(s) \in AllTexts /\ Words(Strip(s)) = Words(s)
             /\ Strip(s)[1] \notin Space
  <2>1. /\ Len(s) \in Nat /\ DOMAIN s = 1..Len(s)
        /\ a \in Nat /\ b \in Nat /\ 1 <= a /\ a <= b + 1 /\ b <= Len(s)
    BY <1>2, TextDomain
  <2>2. PICK t \in AllTexts :
            /\ t = SubSeq(s, a, b) /\ Len(t) = b - a + 1
            /\ \A k \in 1..(b - a + 1) : t[k] = s[a + k - 1]
    BY <2>1, SubText
  <2>3. PICK d \in Nat : d = a - 1
    BY <2>1
  <2>4. Len(t) = b - d /\ DOMAIN t = 1..(b - d)
    <3>1. b - a + 1 = b - d /\ DOMAIN t = 1..Len(t)
      BY <2>1, <2>3, TextDomain
    <3> QED BY <2>2, <3>1
  <2>5. \A i \in DOMAIN t : t[i] = s[i + d]
    <3> TAKE i \in DOMAIN t
    <3>1. i \in 1..(b - a + 1) /\ a + i - 1 = i + d
      BY <2>1, <2>3, <2>4
    <3> QED BY <2>2, <3>1
  <2>6. \A i \in 1..d : s[i] \in Space
    <3> TAKE i \in 1..d
    <3>1. i \in DOMAIN s /\ i < a
      BY <2>1, <2>3
    <3> QED BY <1>2, <3>1
  <2>7. \A i \in DOMAIN s : i > Len(t) + d => s[i] \in Space
    <3> TAKE i \in DOMAIN s
    <3>1. Len(t) + d = b
      BY <2>1, <2>3, <2>4
    <3> QED BY <1>2, <3>1
  <2>8. d = 0 \/ s[d] \in Space
    <3>1. d = 0 \/ (1 <= d /\ d <= d)
      OBVIOUS
    <3>2. d = 0 \/ d \in 1..d
      BY <3>1
    <3> QED BY <2>6, <3>2
  <2>9. Len(t) + d <= Len(s)
    BY <2>1, <2>3, <2>4
  <2>10. Shifted(s, t, d)
    BY <2>5, <2>7, <2>8, <2>9 DEF Shifted
  <2>11. Words(s) = Words(t)
    BY <2>6, <2>10, WordsDrop
  <2>12. t[1] \notin Space
    <3>1. 1 \in 1..(b - a + 1) /\ a + 1 - 1 = a
      BY <1>2, <2>1
    <3>2. t[1] = s[a]
      BY <2>2, <3>1
    <3> QED BY <1>2, <3>2
  <2> QED BY <1>2, <2>2, <2>11, <2>12
<1> QED BY <1>1, <1>2, StripIs

\* Cutting a text after its first m characters, with or without the white
\* space that comes next.
LEMMA WordsCut ==
    ASSUME NEW s \in AllTexts, NEW m \in Nat, 1 <= m, m <= Len(s), WordFirst(s, m)
    PROVE  /\ SubSeq(s, 1, m) \in AllTexts /\ SubSeq(s, m + 1, Len(s)) \in AllTexts
           /\ Words(s) = <<SubSeq(s, 1, m)>> \o Words(SubSeq(s, m + 1, Len(s)))
<1>1. Len(s) \in Nat /\ DOMAIN s = 1..Len(s)
  BY TextDomain
<1>2. SubSeq(s, 1, m) \in AllTexts
  <2>1. 1 \in Nat /\ 1 <= 1 /\ 1 <= m + 1
    OBVIOUS
  <2> QED BY <2>1, SubText
<1>3. PICK n \in Nat : n = m + 1
  OBVIOUS
<1>4. PICK r \in AllTexts :
          /\ r = SubSeq(s, n, Len(s)) /\ Len(r) = Len(s) - n + 1
          /\ \A k \in 1..(Len(s) - n + 1) : r[k] = s[n + k - 1]
  <2>1. 1 <= n /\ n <= Len(s) + 1 /\ Len(s) <= Len(s)
    BY <1>1, <1>3
  <2> QED BY <1>1, <2>1, SubText
<1>5. Len(r) + m = Len(s) /\ DOMAIN r = 1..(Len(s) - n + 1)
  <2>1. DOMAIN r = 1..Len(r)
    BY TextDomain
  <2>2. Len(r) = Len(s) - n + 1 /\ Len(s) \in Nat /\ n = m + 1
    BY <1>1, <1>3, <1>4, Zenon
  <2>3. Len(r) + m = Len(s)
    BY <2>2
  <2> QED BY <2>1, <2>2, <2>3
<1>6. \A i \in DOMAIN r : r[i] = s[i + m]
  <2> TAKE i \in DOMAIN r
  <2>1. i \in 1..(Len(s) - n + 1) /\ n + i - 1 = i + m
    BY <1>1, <1>3, <1>5
  <2> QED BY <1>4, <2>1
<1>7. r # <<>> => r[1] \in Space
  <2> SUFFICES ASSUME r # <<>> PROVE r[1] \in Space
    OBVIOUS
  <2>1. Len(r) # 0
    BY EmptySeq DEF AllTexts
  <2>2. 1 \in DOMAIN r /\ m # Len(s) /\ 1 + m = m + 1
    <3>1. Len(r) \in Nat /\ DOMAIN r = 1..Len(r)
      BY TextDomain
    <3>2. 1 <= Len(r)
      BY <2>1, <3>1
    <3>3. 1 \in DOMAIN r
      BY <3>1, <3>2
    <3>4. Len(r) + m = Len(s)
      BY <1>5
    <3>5. m # Len(s)
      BY <3>1, <3>2, <3>4
    <3> QED BY <3>3, <3>5
  <2>3. r[1] = s[m + 1]
    BY <1>6, <2>2
  <2> QED BY <2>2, <2>3 DEF WordFirst
<1>8. \A i \in DOMAIN s : ~(i > Len(r) + m)
  BY <1>1, <1>5
<1>9. Shifted(s, r, m)
  BY <1>1, <1>5, <1>6, <1>7, <1>8 DEF Shifted
<1>10. Words(s) = <<SubSeq(s, 1, m)>> \o Words(r)
  BY <1>9, WordsCons
<1> QED BY <1>2, <1>3, <1>4, <1>10

\* A word is its only word.
LEMMA WordsOfWord ==
    ASSUME NEW w, IsWord(w)
    PROVE  w \in AllTexts /\ Words(w) = <<w>>
<1>1. w \in AllTexts /\ Len(w) \in Nat /\ DOMAIN w = 1..Len(w) /\ 1 <= Len(w)
  <2>1. w \in AllTexts /\ w # <<>>
    BY DEF IsWord
  <2>2. Len(w) \in Nat /\ Len(w) # 0 /\ DOMAIN w = 1..Len(w)
    BY <2>1, EmptySeq DEF AllTexts
  <2> QED BY <2>1, <2>2
<1>2. WordFirst(w, Len(w))
  BY <1>1 DEF WordFirst, IsWord
<1>3. /\ SubSeq(w, 1, Len(w)) = w
      /\ SubSeq(w, Len(w) + 1, Len(w)) = <<>>
  <2>1. SubSeq(w, 1, Len(w)) = w
    BY <1>1, SubSeqFull DEF AllTexts
  <2>2. Len(w) + 1 \in Int /\ Len(w) \in Int /\ Len(w) < Len(w) + 1
    BY <1>1
  <2> QED BY <2>1, <2>2, SubSeqEmpty
<1>4. Words(<<>>) = <<>>
  <2>1. <<>> \in AllTexts /\ DOMAIN <<>> = {}
    BY DEF AllTexts
  <2> QED BY <2>1, WordsEmpty
<1>5. Words(w) = <<w>> \o <<>>
  <2>1. Len(w) <= Len(w)
    BY <1>1
  <2>2. Words(w) = <<SubSeq(w, 1, Len(w))>> \o Words(SubSeq(w, Len(w) + 1, Len(w)))
    BY <1>1, <1>2, <2>1, WordsCut
  <2> QED BY <1>3, <1>4, <2>2
<1>6. <<w>> \o <<>> = <<w>>
  <2>1. <<w>> \in Seq(AllTexts)
    BY <1>1
  <2> QED BY <2>1, ConcatEmptySeq
<1> QED BY <1>1, <1>5, <1>6
\* Both parts of a text that is split are texts.
LEMMA SplitType ==
    ASSUME NEW s \in AllTexts, NEW S
    PROVE  SplitAt(s, S)[1] \in AllTexts /\ SplitAt(s, S)[2] \in AllTexts
<1>1. CASE SplitAt(s, S) = <<s, <<>>>>
  BY <1>1 DEF AllTexts
<1>2. ASSUME NEW m \in 0..Len(s), m < Len(s),
             SplitAt(s, S) = <<SubSeq(s, 1, m), SubSeq(s, m + 2, Len(s))>>
      PROVE  SplitAt(s, S)[1] \in AllTexts /\ SplitAt(s, S)[2] \in AllTexts
  <2>1. /\ Len(s) \in Nat /\ m \in Nat /\ 1 \in Nat /\ 1 <= 1 /\ 1 <= m + 1 /\ m <= Len(s)
        /\ m + 2 \in Nat /\ 1 <= m + 2 /\ m + 2 <= Len(s) + 1 /\ Len(s) <= Len(s)
    BY <1>2, TextDomain
  <2>2. SubSeq(s, 1, m) \in AllTexts
    BY <2>1, SubText
  <2>3. PICK n \in Nat : n = m + 2
    BY <2>1
  <2>4. SubSeq(s, n, Len(s)) \in AllTexts
    BY <2>1, <2>3, SubText
  <2> QED BY <1>2, <2>2, <2>3, <2>4
<1> QED BY <1>1, <1>2, SplitIs

\* Splitting a text at white space after a word takes that word from it.
LEMMA SplitWords ==
    ASSUME NEW s \in AllTexts, NEW S, S \subseteq Space, IsWord(SplitAt(s, S)[1])
    PROVE  Words(s) = <<SplitAt(s, S)[1]>> \o Words(SplitAt(s, S)[2])
<1>1. CASE SplitAt(s, S) = <<s, <<>>>>
  <2>1. IsWord(s)
    BY <1>1
  <2>2. Words(s) = <<s>>
    BY <2>1, WordsOfWord
  <2>3. Words(<<>>) = <<>>
    <3>1. <<>> \in AllTexts /\ DOMAIN <<>> = {}
      BY DEF AllTexts
    <3> QED BY <3>1, WordsEmpty
  <2>4. <<s>> \in Seq(AllTexts)
    OBVIOUS
  <2>5. <<s>> \o <<>> = <<s>>
    BY <2>4, ConcatEmptySeq
  <2> QED BY <1>1, <2>2, <2>3, <2>5
<1>2. ASSUME NEW m \in 0..Len(s), m < Len(s), s[m + 1] \in S,
             SplitAt(s, S) = <<SubSeq(s, 1, m), SubSeq(s, m + 2, Len(s))>>
      PROVE  Words(s) = <<SplitAt(s, S)[1]>> \o Words(SplitAt(s, S)[2])
  <2>1. Len(s) \in Nat /\ m \in Nat /\ DOMAIN s = 1..Len(s) /\ m <= Len(s)
    BY <1>2, TextDomain
  <2>2. PICK w \in AllTexts : /\ w = SubSeq(s, 1, m) /\ Len(w) = m
                              /\ \A k \in 1..m : w[k] = s[k]
    <3>1. 1 \in Nat /\ 1 <= 1 /\ 1 <= m + 1 /\ m - 1 + 1 = m
      BY <2>1
    <3>2. /\ SubSeq(s, 1, m) \in AllTexts /\ Len(SubSeq(s, 1, m)) = m - 1 + 1
          /\ \A k \in 1..(m - 1 + 1) : SubSeq(s, 1, m)[k] = s[1 + k - 1]
      BY <2>1, <3>1, SubText
    <3>3. \A k \in 1..m : 1 + k - 1 = k
      BY <2>1
    <3> QED BY <3>1, <3>2, <3>3
  <2>3. IsWord(w)
    BY <1>2, <2>2
  <2>4. 1 <= m
    <3>1. Len(w) # 0
      BY <2>3, EmptySeq DEF IsWord, AllTexts
    <3> QED BY <2>1, <2>2, <3>1
  <2>5. WordFirst(s, m)
    <3>1. DOMAIN w = 1..m
      BY <2>2, TextDomain
    <3>2. \A i \in 1..m : s[i] \notin Space
      BY <2>2, <2>3, <3>1 DEF IsWord
    <3> QED BY <1>2, <3>2 DEF WordFirst
  <2>6. PICK p \in Nat : p = m + 1
    BY <2>1
  <2>7. PICK u \in AllTexts : /\ u = SubSeq(s, p, Len(s)) /\ Len(u) = Len(s) - p + 1
                              /\ \A k \in 1..(Len(s) - p + 1) : u[k] = s[p + k - 1]
    <3>1. 1 <= p /\ p <= Len(s) + 1 /\ Len(s) <= Len(s)
      BY <2>1, <2>6
    <3> QED BY <3>1, TailText
  <2>8. Words(s) = <<w>> \o Words(u)
    BY <2>1, <2>2, <2>4, <2>5, <2>6, <2>7, WordsCut, Zenon
  <2>9. PICK q \in Nat : q = m + 2
    BY <2>1
  <2>10. PICK t \in AllTexts : /\ t = SubSeq(s, q, Len(s)) /\ Len(t) = Len(s) - q + 1
                               /\ \A k \in 1..(Len(s) - q + 1) : t[k] = s[q + k - 1]
    <3>1. 1 <= q /\ q <= Len(s) + 1 /\ Len(s) <= Len(s)
      BY <1>2, <2>1, <2>9
    <3> QED BY <3>1, TailText
  <2>11. Len(t) + 1 = Len(u) /\ Len(t) \in Nat /\ DOMAIN t = 1..Len(t) /\ DOMAIN u = 1..Len(u)
    <3>1. Len(t) \in Nat /\ DOMAIN t = 1..Len(t) /\ DOMAIN u = 1..Len(u)
      BY TextDomain
    <3>2. Len(u) = Len(s) - p + 1 /\ Len(t) = Len(s) - q + 1
      BY <2>7, <2>10
    <3>3. Len(t) + 1 = Len(u)
      BY <2>1, <2>6, <2>9, <3>2
    <3> QED BY <3>1, <3>3, Zenon
  <2>12. \A i \in DOMAIN t : t[i] = u[i + 1]
    <3> TAKE i \in DOMAIN t
    <3>1. i \in 1..(Len(s) - q + 1) /\ i + 1 \in 1..(Len(s) - p + 1) /\ p + (i + 1) - 1 = q + i - 1
      <4>1. /\ Len(u) = Len(s) - p + 1 /\ Len(t) = Len(s) - q + 1
            /\ i \in 1..Len(t) /\ Len(t) \in Nat
        BY <2>7, <2>10, <2>11
      <4>2. PICK n, l \in Nat : n = Len(s) /\ l = Len(t)
        BY <2>1, <4>1, Zenon
      <4>3. p = m + 1 /\ q = m + 2 /\ l = n - q + 1 /\ i \in 1..l /\ m \in Nat
        BY <2>1, <2>6, <2>9, <4>1, <4>2
      <4>4. i \in 1..(n - q + 1) /\ i + 1 \in 1..(n - p + 1) /\ p + (i + 1) - 1 = q + i - 1
        BY <4>2, <4>3
      <4> QED BY <4>2, <4>4
    <3> QED BY <2>7, <2>10, <3>1
  <2>13. u[1] \in Space
    <3>1. 1 \in 1..(Len(s) - p + 1) /\ p + 1 - 1 = m + 1
      BY <1>2, <2>1, <2>6
    <3>2. u[1] = s[m + 1]
      BY <2>7, <3>1
    <3> QED BY <1>2, <3>2
  <2>14. Shifted(u, t, 1)
    <3>1. \A i \in DOMAIN u : ~(i > Len(t) + 1)
      BY <2>11
    <3>2. Len(t) + 1 <= Len(u)
      BY <2>11
    <3> QED BY <3>1, <3>2, <2>12, <2>13 DEF Shifted
  <2>15. Words(u) = Words(t)
    <3>1. 1 \in Nat /\ \A i \in 1..1 : i = 1
      OBVIOUS
    <3>2. \A i \in 1..1 : u[i] \in Space
      BY <3>1, <2>13
    <3> QED BY <2>14, <3>1, <3>2, WordsDrop
  <2> QED BY <1>2, <2>2, <2>8, <2>9, <2>10, <2>15
<1> QED BY <1>1, <1>2, SplitIs

\* What a word-wise argument takes from a stripped text is its first word.
LEMMA FirstWordWords ==
    ASSUME NEW s \in AllTexts, s # <<>> => s[1] \notin Space
    PROVE  /\ FirstWord(s) \in AllTexts /\ After(s, Len(FirstWord(s))) \in AllTexts
           /\ Words(s) = Words(FirstWord(s)) \o Words(After(s, Len(FirstWord(s))))
<1> DEFINE p == SplitAt(s, Space)
<1>1. FirstWord(s) = p[1]
  BY DEF FirstWord
<1>2. CASE p = <<s, <<>>>>
  <2>1. FirstWord(s) = s
    BY <1>1, <1>2
  <2>2. After(s, Len(s)) = <<>>
    <3>1. Len(s) \in Int /\ Len(s) + 1 \in Int /\ Len(s) < Len(s) + 1
      BY TextDomain
    <3> QED BY <3>1, SubSeqEmpty DEF After
  <2>3. <<>> \in AllTexts /\ Words(<<>>) = <<>>
    <3>1. <<>> \in AllTexts /\ DOMAIN <<>> = {}
      BY DEF AllTexts
    <3> QED BY <3>1, WordsEmpty
  <2>4. Words(s) \o <<>> = Words(s)
    BY WordsType, ConcatEmptySeq
  <2> QED BY <2>1, <2>2, <2>3, <2>4
<1>3. ASSUME NEW m \in 0..Len(s), m < Len(s), s[m + 1] \in Space,
             \A i \in 1..m : s[i] \notin Space,
             p = <<SubSeq(s, 1, m), SubSeq(s, m + 2, Len(s))>>
      PROVE  /\ FirstWord(s) \in AllTexts /\ After(s, Len(FirstWord(s))) \in AllTexts
             /\ Words(s) = Words(FirstWord(s)) \o Words(After(s, Len(FirstWord(s))))
  <2>1. Len(s) \in Nat /\ m \in Nat /\ DOMAIN s = 1..Len(s) /\ m <= Len(s)
    BY <1>3, TextDomain
  <2>2. 1 <= m
    <3>1. m # 0
      <4> SUFFICES ASSUME m = 0 PROVE FALSE
        OBVIOUS
      <4>1. s[1] \in Space
        BY <1>3, m + 1 = 1
      <4>2. s # <<>>
        BY <1>3, <2>1
      <4> QED BY <4>1, <4>2
    <3> QED BY <2>1, <3>1
  <2>3. WordFirst(s, m)
    BY <1>3 DEF WordFirst
  <2>4. PICK w \in AllTexts : /\ w = SubSeq(s, 1, m) /\ Len(w) = m
                              /\ \A k \in 1..m : w[k] = s[k]
    <3>1. 1 \in Nat /\ 1 <= 1 /\ 1 <= m + 1 /\ m - 1 + 1 = m
      BY <2>1
    <3>2. /\ SubSeq(s, 1, m) \in AllTexts /\ Len(SubSeq(s, 1, m)) = m - 1 + 1
          /\ \A k \in 1..(m - 1 + 1) : SubSeq(s, 1, m)[k] = s[1 + k - 1]
      BY <2>1, <3>1, SubText
    <3>3. \A k \in 1..m : 1 + k - 1 = k
      BY <2>1
    <3> QED BY <3>1, <3>2, <3>3
  <2>5. IsWord(w)
    <3>1. DOMAIN w = 1..m
      BY <2>4, TextDomain
    <3>2. \A k \in DOMAIN w : w[k] \notin Space
      BY <1>3, <2>4, <3>1
    <3>3. w # <<>>
      BY <2>2, <2>4, <2>1
    <3> QED BY <3>2, <3>3 DEF IsWord
  <2>6. Words(w) = <<w>>
    BY <2>5, WordsOfWord
  <2>7. /\ SubSeq(s, m + 1, Len(s)) \in AllTexts
        /\ Words(s) = <<w>> \o Words(SubSeq(s, m + 1, Len(s)))
    BY <2>1, <2>2, <2>3, <2>4, WordsCut
  <2>8. FirstWord(s) = w
    BY <1>1, <1>3, <2>4
  <2>9. After(s, Len(FirstWord(s))) = SubSeq(s, m + 1, Len(s))
    BY <2>4, <2>8 DEF After
  <2> QED BY <2>6, <2>7, <2>8, <2>9
<1> QED BY <1>2, <1>3, SplitIs
-----------------------------------------------------------------------------
(* Concatenation of many                                                   *)

\* The function that FlattenSeq defines by recursion.
Flattens(f, ss) ==
    f = [i \in 1..Len(ss) |-> IF i = 1 THEN ss[i] ELSE f[i - 1] \o ss[i]]

\* The function for one sequence more.
LEMMA FlattensExtend ==
    ASSUME NEW S, NEW ss \in Seq(Seq(S)), NEW e \in Seq(S),
           NEW f \in [1..Len(ss) -> Seq(S)], Flattens(f, ss)
    PROVE  \E g \in [1..(Len(ss) + 1) -> Seq(S)] :
              /\ Flattens(g, Append(ss, e))
              /\ g[Len(ss) + 1] = IF Len(ss) = 0 THEN e ELSE f[Len(ss)] \o e
<1>1. PICK n \in Nat : n = Len(ss)
  OBVIOUS
<1>2. PICK tt \in Seq(Seq(S)) : /\ tt = Append(ss, e) /\ Len(tt) = n + 1
                                /\ \A i \in 1..n : tt[i] = ss[i]
                                /\ tt[n + 1] = e
  <2>1. /\ Append(ss, e) \in Seq(Seq(S)) /\ Len(Append(ss, e)) = Len(ss) + 1
        /\ \A i \in 1..Len(ss) : Append(ss, e)[i] = ss[i]
        /\ Append(ss, e)[Len(ss) + 1] = e
    BY AppendProperties
  <2> QED BY <1>1, <2>1
<1>3. PICK last \in Seq(S) : last = IF n = 0 THEN e ELSE f[n] \o e
  <2>1. CASE n = 0
    BY <2>1
  <2>2. CASE n # 0
    <3>1. n \in 1..Len(ss)
      BY <1>1, <2>2
    <3>2. f[n] \in Seq(S)
      BY <3>1
    <3> QED BY <2>2, <3>2, ConcatProperties
  <2> QED BY <2>1, <2>2
<1> DEFINE g == [i \in 1..(n + 1) |-> IF i = n + 1 THEN last ELSE f[i]]
<1>4. g \in [1..(n + 1) -> Seq(S)]
  <2>1. \A i \in 1..(n + 1) : i # n + 1 => i \in 1..Len(ss)
    BY <1>1
  <2>2. \A i \in 1..(n + 1) : (IF i = n + 1 THEN last ELSE f[i]) \in Seq(S)
    BY <2>1
  <2> QED BY <2>2
<1>5. \A i \in 1..n : f[i] = IF i = 1 THEN ss[i] ELSE f[i - 1] \o ss[i]
  BY <1>1 DEF Flattens
<1>6. \A i \in 1..(n + 1) : g[i] = IF i = 1 THEN tt[i] ELSE g[i - 1] \o tt[i]
  <2> TAKE i \in 1..(n + 1)
  <2>1. CASE i = n + 1
    <3>1. g[i] = last /\ tt[i] = e
      BY <1>2, <2>1
    <3>2. CASE n = 0
      BY <1>3, <2>1, <3>1, <3>2
    <3>3. CASE n # 0
      <4>1. i # 1 /\ i - 1 = n /\ n \in 1..(n + 1) /\ n # n + 1
        BY <2>1, <3>3
      <4>2. g[i - 1] = f[n]
        BY <4>1
      <4> QED BY <1>3, <3>1, <3>3, <4>1, <4>2
    <3> QED BY <3>2, <3>3
  <2>2. CASE i # n + 1
    <3>1. i \in 1..n /\ g[i] = f[i] /\ tt[i] = ss[i]
      BY <1>2, <2>2
    <3>2. CASE i = 1
      BY <1>5, <3>1, <3>2
    <3>3. CASE i # 1
      <4>1. i - 1 \in 1..(n + 1) /\ i - 1 # n + 1
        BY <2>2, <3>3
      <4>2. g[i - 1] = f[i - 1]
        BY <4>1
      <4>3. f[i] = f[i - 1] \o ss[i]
        BY <1>5, <3>1, <3>3
      <4> QED BY <3>1, <3>3, <4>2, <4>3
    <3> QED BY <3>2, <3>3
  <2> QED BY <2>1, <2>2
<1>7. Flattens(g, tt)
  <2>1. g = [i \in 1..(n + 1) |-> g[i]]
    OBVIOUS
  <2> HIDE DEF g
  <2>2. g = [i \in 1..(n + 1) |-> IF i = 1 THEN tt[i] ELSE g[i - 1] \o tt[i]]
    BY <1>6, <2>1
  <2> QED BY <1>2, <2>2 DEF Flattens
<1>8. g[n + 1] = IF n = 0 THEN e ELSE f[n] \o e
  <2>1. n + 1 \in 1..(n + 1)
    OBVIOUS
  <2>2. g[n + 1] = last
    BY <2>1
  <2> QED BY <1>3, <2>2
<1> HIDE DEF g
<1> QED BY <1>1, <1>2, <1>4, <1>7, <1>8

\* There is such a function for any sequence of sequences: one without it would
\* have a shortest, to which FlattensExtend applies.
LEMMA FlattensExists ==
    ASSUME NEW S, NEW ss \in Seq(Seq(S))
    PROVE  \E f \in [1..Len(ss) -> Seq(S)] : Flattens(f, ss)
<1> DEFINE Good(tt) == \E f \in [1..Len(tt) -> Seq(S)] : Flattens(f, tt)
           T == {n \in Nat : \E tt \in Seq(Seq(S)) : Len(tt) = n /\ ~Good(tt)}
<1> SUFFICES ASSUME ~Good(ss) PROVE FALSE
  OBVIOUS
<1>1. T \subseteq Nat /\ T # {}
  <2>1. Len(ss) \in T
    <3> HIDE DEF Good
    <3> QED OBVIOUS
  <2> QED BY <2>1
<1>2. PICK n \in T : \A m \in T : n <= m
  <2> HIDE DEF T
  <2> QED BY <1>1, LeastNat
<1>3. PICK tt \in Seq(Seq(S)) : Len(tt) = n /\ ~Good(tt) /\ n \in Nat
  BY <1>2
<1>4. CASE tt = <<>>
  <2> DEFINE f == [i \in 1..Len(tt) |-> <<>>]
  <2>1. Len(tt) = 0 /\ 1..Len(tt) = {}
    BY <1>4
  <2>2. f \in [1..Len(tt) -> Seq(S)]
    BY <2>1
  <2>3. f = [i \in 1..Len(tt) |-> IF i = 1 THEN tt[i] ELSE f[i - 1] \o tt[i]]
    BY <2>1
  <2>4. Flattens(f, tt)
    BY <2>3 DEF Flattens
  <2> HIDE DEF f
  <2> QED BY <1>3, <2>2, <2>4
<1>5. CASE tt # <<>>
  <2>1. PICK uu \in Seq(Seq(S)), e \in Seq(S) : tt = Append(uu, e)
    BY <1>5, SequenceEmptyOrAppend
  <2>2. Len(tt) = Len(uu) + 1 /\ Len(uu) \in Nat
    BY <2>1
  <2>3. Good(uu)
    <3> HIDE DEF Good
    <3> SUFFICES ASSUME ~Good(uu) PROVE FALSE
      OBVIOUS
    <3>1. Len(uu) \in T
      BY <2>2
    <3>2. n <= Len(uu)
      BY <1>2, <3>1
    <3> QED BY <1>3, <2>2, <3>2
  <2>4. PICK f \in [1..Len(uu) -> Seq(S)] : Flattens(f, uu)
    BY <2>3
  <2>5. \E g \in [1..(Len(uu) + 1) -> Seq(S)] : Flattens(g, Append(uu, e))
    BY <2>4, FlattensExtend
  <2>6. Good(tt)
    BY <2>1, <2>2, <2>5
  <2> HIDE DEF Good
  <2> QED BY <1>3, <2>6
<1> QED BY <1>4, <1>5

\* And only one: two would differ at a first place.
LEMMA FlattensUnique ==
    ASSUME NEW ss, Len(ss) \in Nat, NEW f, NEW g, Flattens(f, ss), Flattens(g, ss)
    PROVE  f = g
<1> DEFINE D == {i \in 1..Len(ss) : f[i] # g[i]}
<1>1. \A i \in 1..Len(ss) : /\ f[i] = IF i = 1 THEN ss[i] ELSE f[i - 1] \o ss[i]
                            /\ g[i] = IF i = 1 THEN ss[i] ELSE g[i - 1] \o ss[i]
  <2>1. \A i \in 1..Len(ss) : f[i] = IF i = 1 THEN ss[i] ELSE f[i - 1] \o ss[i]
    BY DEF Flattens
  <2>2. \A i \in 1..Len(ss) : g[i] = IF i = 1 THEN ss[i] ELSE g[i - 1] \o ss[i]
    BY DEF Flattens
  <2> QED BY <2>1, <2>2
<1>2. D = {}
  <2> SUFFICES ASSUME D # {} PROVE FALSE
    OBVIOUS
  <2>1. D \subseteq Nat
    OBVIOUS
  <2>2. PICK i \in D : \A k \in D : i <= k
    <3> HIDE DEF D
    <3> QED BY <2>1, LeastNat
  <2>3. i \in 1..Len(ss) /\ f[i] # g[i]
    BY <2>2
  <2>4. CASE i = 1
    BY <1>1, <2>3, <2>4
  <2>5. CASE i # 1
    <3>1. i - 1 \in 1..Len(ss) /\ ~(i <= i - 1)
      BY <2>3, <2>5
    <3>2. i - 1 \notin D
      BY <2>2, <3>1
    <3>3. f[i - 1] = g[i - 1]
      BY <3>1, <3>2
    <3> QED BY <1>1, <2>3, <2>5, <3>3
  <2> QED BY <2>4, <2>5
<1>3. f = [i \in 1..Len(ss) |-> f[i]] /\ g = [i \in 1..Len(ss) |-> g[i]]
  BY DEF Flattens
<1>4. \A i \in 1..Len(ss) : f[i] = g[i]
  BY <1>2
<1> QED BY <1>3, <1>4

\* FlattenSeq is the last value of that function.
LEMMA FlattenIs ==
    ASSUME NEW ss, Len(ss) \in Nat, Len(ss) # 0, NEW f, Flattens(f, ss)
    PROVE  FlattenSeq(ss) = f[Len(ss)]
<1>1. FlattenSeq(ss) = (CHOOSE g : Flattens(g, ss))[Len(ss)]
  BY DEF FlattenSeq, Flattens
<1>2. Flattens(CHOOSE g : Flattens(g, ss), ss)
  OBVIOUS
<1>3. (CHOOSE g : Flattens(g, ss)) = f
  BY <1>2, FlattensUnique
<1> QED BY <1>1, <1>3

\* Concatenating one sequence more.
LEMMA FlattenAppend ==
    ASSUME NEW S, NEW ss \in Seq(Seq(S)), NEW e \in Seq(S)
    PROVE  /\ FlattenSeq(ss) \in Seq(S)
           /\ FlattenSeq(Append(ss, e)) = FlattenSeq(ss) \o e
<1>1. PICK f \in [1..Len(ss) -> Seq(S)] : Flattens(f, ss)
  BY FlattensExists
<1>2. PICK g \in [1..(Len(ss) + 1) -> Seq(S)] :
          /\ Flattens(g, Append(ss, e))
          /\ g[Len(ss) + 1] = IF Len(ss) = 0 THEN e ELSE f[Len(ss)] \o e
  BY <1>1, FlattensExtend
<1>3. Len(ss) \in Nat /\ Len(Append(ss, e)) = Len(ss) + 1
  BY AppendProperties
<1>4. FlattenSeq(Append(ss, e)) = g[Len(ss) + 1]
  <2>1. Len(Append(ss, e)) \in Nat /\ Len(Append(ss, e)) # 0
    BY <1>3
  <2> QED BY <1>2, <1>3, <2>1, FlattenIs
<1>5. CASE Len(ss) = 0
  <2>1. ss = <<>> /\ FlattenSeq(ss) = ss
    BY <1>5 DEF FlattenSeq
  <2>2. <<>> \in Seq(S) /\ <<>> \o e = e
    BY ConcatEmptySeq
  <2>3. FlattenSeq(Append(ss, e)) = e
    BY <1>2, <1>4, <1>5
  <2> QED BY <2>1, <2>2, <2>3
<1>6. CASE Len(ss) # 0
  <2>1. FlattenSeq(ss) = f[Len(ss)]
    BY <1>1, <1>3, <1>6, FlattenIs
  <2>2. Len(ss) \in 1..Len(ss)
    BY <1>3, <1>6
  <2>3. f[Len(ss)] \in Seq(S)
    BY <2>2
  <2> QED BY <1>2, <1>4, <1>6, <2>1, <2>3
<1> QED BY <1>5, <1>6
-----------------------------------------------------------------------------
(* The invariant                                                           *)

\* What is remembered of a handler that was entered.
Entries(H) ==
    [handler : H, word : AllTexts, vals : Seq(Values \cup {Null})]

\* A value belongs to the argument at its place.
Fits(a, v) ==
    /\ a.required \/ a.refuses # "none" => v # Null
    /\ v # Null => v.as = a.gives /\ (a.kind # "simple" => v.text \in a.accepts)

EntryFits(g) ==
    \A k \in DOMAIN g.vals : k \in DOMAIN g.handler.args /\ Fits(g.handler.args[k], g.vals[k])

FitIn(G) == \A n \in DOMAIN G : EntryFits(G[n])

\* The handlers entered refuse text that is left, and none takes part of a word.
StrictIn(G) ==
    \A n \in DOMAIN G :
        /\ G[n].handler.consume
        /\ \A k \in DOMAIN G[n].handler.args : TakesWords(G[n].handler.args[k])

\* The handler that runs is the last one entered, and has been given as many
\* values as it has parsed.
CallStateOK(H) ==
    /\ msg.body \in AllTexts /\ msg.thread \in BOOLEAN /\ msg.plain \in BOOLEAN
    /\ at \in H /\ rest \in AllTexts /\ next \in Nat /\ 1 <= next
    /\ given \in Seq(Entries(H))
    /\ pc \notin {"call", "ignored"} =>
           /\ Len(given) >= 1 /\ given[Len(given)].handler = at
           /\ Len(given[Len(given)].vals) = next - 1
    /\ pc = "call" => given = <<>>
    /\ FitIn(given)

\* The words and the values of one handler, and those of all of them.
Of(g) == <<g.word>> \o FlattenSeq([k \in DOMAIN g.vals |-> Words(Text(g.vals[k]))])
Said(G) == FlattenSeq([n \in DOMAIN G |-> Of(G[n])])

\* The words of the message, the command in lower case.
LowerFirst(ws) == <<Lower(Head(ws))>> \o Tail(ws)

\* What was given so far and what is left make the message.
WholeSoFar ==
    pc \notin {"call", "ignored"} /\ StrictIn(given) =>
        Said(given) \o Words(rest) = LowerFirst(Words(Tail(msg.body)))

\* Once called nothing is left.
NothingLeft == pc = "called" /\ StrictIn(given) => Words(rest) = <<>>

CommandInv(H) == CallStateOK(H) /\ WholeSoFar /\ NothingLeft
-----------------------------------------------------------------------------
(* What was given                                                          *)

\* The empty text.
LEMMA EmptyText == <<>> \in AllTexts /\ Words(<<>>) = <<>> /\ FlattenSeq(<<>>) = <<>>
<1>1. <<>> \in AllTexts /\ DOMAIN <<>> = {}
  BY DEF AllTexts
<1>2. Words(<<>>) = <<>>
  BY <1>1, WordsEmpty
<1> QED BY <1>1, <1>2 DEF FlattenSeq

\* A sequence that has one element more is an Append.
LEMMA MapAppend ==
    ASSUME NEW T, NEW m \in Seq(T), NEW f \in Seq(T), NEW x \in T, Len(f) = Len(m) + 1,
           \A i \in 1..Len(m) : f[i] = m[i], f[Len(m) + 1] = x
    PROVE  f = Append(m, x)
<1>1. PICK n \in Nat : n = Len(m)
  OBVIOUS
<1>2. /\ Append(m, x) \in Seq(T) /\ Len(Append(m, x)) = Len(m) + 1
      /\ \A i \in 1..Len(m) : Append(m, x)[i] = m[i]
      /\ Append(m, x)[Len(m) + 1] = x
  BY AppendProperties
<1>3. PICK a \in Seq(T) : a = Append(m, x)
  BY <1>2
<1>4. Len(a) = n + 1 /\ (\A i \in 1..n : a[i] = m[i]) /\ a[n + 1] = x
  BY <1>1, <1>2, <1>3
<1>5. Len(f) = n + 1 /\ (\A i \in 1..n : f[i] = m[i]) /\ f[n + 1] = x
  BY <1>1
<1>6. \A i \in 1..(n + 1) : f[i] = a[i]
  <2> TAKE i \in 1..(n + 1)
  <2>1. i \in 1..n \/ i = n + 1
    OBVIOUS
  <2> QED BY <1>4, <1>5, <2>1
<1>7. f = a
  <2>1. Len(f) = Len(a) /\ \A i \in 1..Len(f) : f[i] = a[i]
    BY <1>4, <1>5, <1>6
  <2> QED BY <2>1, SeqEqual
<1> QED BY <1>3, <1>7

\* The words of the values.
Spoken(vals) == [k \in DOMAIN vals |-> Words(Text(vals[k]))]

\* The words of the values are sequences of texts, one for each value.
LEMMA SpokenType ==
    ASSUME NEW vals \in Seq(Values \cup {Null})
    PROVE  /\ Spoken(vals) \in Seq(Seq(AllTexts)) /\ Len(Spoken(vals)) = Len(vals)
           /\ \A k \in 1..Len(vals) : Spoken(vals)[k] = Words(Text(vals[k]))
<1>1. \A k \in DOMAIN vals : Words(Text(vals[k])) \in Seq(AllTexts)
  <2> TAKE k \in DOMAIN vals
  <2>1. Text(vals[k]) \in AllTexts
    BY EmptyText DEF Text, Values
  <2> QED BY <2>1, WordsType
<1>2. Len(vals) \in Nat /\ DOMAIN vals = 1..Len(vals)
  OBVIOUS
<1>3. Spoken(vals) = [k \in 1..Len(vals) |-> Words(Text(vals[k]))]
  BY <1>2 DEF Spoken
<1>4. Spoken(vals) \in Seq(Seq(AllTexts))
  BY <1>1, <1>2, <1>3
<1>5. Len(Spoken(vals)) = Len(vals)
  BY <1>2, <1>3
<1> QED BY <1>3, <1>4, <1>5

\* One value more, its words more.
LEMMA SpokenAppend ==
    ASSUME NEW vals \in Seq(Values \cup {Null}), NEW v \in Values \cup {Null}
    PROVE  Spoken(Append(vals, v)) = Append(Spoken(vals), Words(Text(v)))
<1>1. /\ Append(vals, v) \in Seq(Values \cup {Null})
      /\ Len(Append(vals, v)) = Len(vals) + 1
      /\ \A i \in 1..Len(vals) : Append(vals, v)[i] = vals[i]
      /\ Append(vals, v)[Len(vals) + 1] = v
  BY AppendProperties
<1>2. PICK ws \in Seq(Values \cup {Null}) : ws = Append(vals, v)
  BY <1>1
<1>3. /\ Len(ws) = Len(vals) + 1 /\ ws[Len(vals) + 1] = v
      /\ \A i \in 1..Len(vals) : ws[i] = vals[i]
  BY <1>1, <1>2
<1>4. Words(Text(v)) \in Seq(AllTexts)
  <2>1. Text(v) \in AllTexts
    BY EmptyText DEF Text, Values
  <2> QED BY <2>1, WordsType
<1>5. PICK m \in Seq(Seq(AllTexts)) :
          /\ m = Spoken(vals) /\ Len(m) = Len(vals)
          /\ \A k \in 1..Len(vals) : m[k] = Words(Text(vals[k]))
  BY SpokenType
<1>6. PICK f \in Seq(Seq(AllTexts)) :
          /\ f = Spoken(ws) /\ Len(f) = Len(ws)
          /\ \A k \in 1..Len(ws) : f[k] = Words(Text(ws[k]))
  BY SpokenType
<1>7. Len(f) = Len(m) + 1
  BY <1>3, <1>5, <1>6
<1>8. \A i \in 1..Len(m) : f[i] = m[i]
  <2> TAKE i \in 1..Len(m)
  <2>1. i \in 1..Len(vals) /\ i \in 1..Len(ws)
    BY <1>3, <1>5
  <2> QED BY <1>3, <1>5, <1>6, <2>1
<1>9. f[Len(m) + 1] = Words(Text(v))
  <2>1. Len(m) + 1 \in 1..Len(ws)
    BY <1>3, <1>5
  <2> QED BY <1>3, <1>5, <1>6, <2>1
<1>10. f = Append(m, Words(Text(v)))
  BY <1>4, <1>7, <1>8, <1>9, MapAppend
<1> QED BY <1>2, <1>5, <1>6, <1>10

\* What a handler was given is a sequence of texts.
LEMMA OfType ==
    ASSUME NEW H, NEW g \in Entries(H)
    PROVE  Of(g) \in Seq(AllTexts)
<1>1. g.word \in AllTexts /\ g.vals \in Seq(Values \cup {Null})
  BY DEF Entries
<1>2. FlattenSeq(Spoken(g.vals)) \in Seq(AllTexts)
  <2>1. <<>> \in Seq(AllTexts)
    OBVIOUS
  <2> QED BY <1>1, <2>1, SpokenType, FlattenAppend
<1>3. <<g.word>> \in Seq(AllTexts)
  BY <1>1
<1>4. <<g.word>> \o FlattenSeq(Spoken(g.vals)) \in Seq(AllTexts)
  BY <1>2, <1>3, ConcatProperties
<1> QED BY <1>4 DEF Of, Spoken

\* A handler that was just entered has been given its word.
LEMMA OfNew ==
    ASSUME NEW h, NEW w \in AllTexts
    PROVE  Of([handler |-> h, word |-> w, vals |-> <<>>]) = <<w>>
<1>1. Spoken(<<>>) = <<>>
  BY DEF Spoken
<1>2. <<w>> \in Seq(AllTexts)
  OBVIOUS
<1>3. <<w>> \o <<>> = <<w>>
  BY <1>2, ConcatEmptySeq
<1>4. Of([handler |-> h, word |-> w, vals |-> <<>>]) = <<w>> \o FlattenSeq(Spoken(<<>>))
  BY DEF Of, Spoken
<1> QED BY <1>1, <1>3, <1>4, EmptyText

\* One value more.
LEMMA OfMore ==
    ASSUME NEW H, NEW g \in Entries(H), NEW f \in Entries(H), NEW v \in Values \cup {Null},
           f.word = g.word, f.vals = Append(g.vals, v)
    PROVE  Of(f) = Of(g) \o Words(Text(v))
<1>1. g.word \in AllTexts /\ g.vals \in Seq(Values \cup {Null})
  BY DEF Entries
<1>2. PICK x \in Seq(AllTexts) : x = Words(Text(v))
  <2>1. Text(v) \in AllTexts
    BY EmptyText DEF Text, Values
  <2> QED BY <2>1, WordsType
<1>3. PICK ss \in Seq(Seq(AllTexts)) : ss = Spoken(g.vals)
  BY <1>1, SpokenType
<1>4. Spoken(f.vals) = Append(ss, x)
  BY <1>1, <1>2, <1>3, SpokenAppend
<1>5. FlattenSeq(ss) \in Seq(AllTexts) /\ FlattenSeq(Append(ss, x)) = FlattenSeq(ss) \o x
  BY FlattenAppend
<1>6. PICK y \in Seq(AllTexts) : y = FlattenSeq(ss)
  BY <1>5
<1>7. Of(g) = <<g.word>> \o y /\ Of(f) = <<g.word>> \o (y \o x)
  BY <1>3, <1>4, <1>5, <1>6 DEF Of, Spoken
<1>8. <<g.word>> \in Seq(AllTexts)
  BY <1>1
<1>9. (<<g.word>> \o y) \o x = <<g.word>> \o (y \o x)
  BY <1>8, ConcatAssociative
<1> QED BY <1>2, <1>7, <1>9

Parts(G) == [n \in DOMAIN G |-> Of(G[n])]

\* What the handlers were given are sequences of texts, one for each handler.
LEMMA PartsType ==
    ASSUME NEW H, NEW G \in Seq(Entries(H))
    PROVE  /\ Parts(G) \in Seq(Seq(AllTexts)) /\ Len(Parts(G)) = Len(G)
           /\ \A n \in 1..Len(G) : Parts(G)[n] = Of(G[n])
           /\ Said(G) \in Seq(AllTexts)
<1>1. \A n \in DOMAIN G : Of(G[n]) \in Seq(AllTexts)
  BY OfType
<1>2. /\ Parts(G) \in Seq(Seq(AllTexts)) /\ Len(Parts(G)) = Len(G)
      /\ \A n \in 1..Len(G) : Parts(G)[n] = Of(G[n])
  <2>1. Len(G) \in Nat /\ DOMAIN G = 1..Len(G)
    OBVIOUS
  <2>2. Parts(G) = [n \in 1..Len(G) |-> Of(G[n])]
    BY <2>1 DEF Parts
  <2>3. Parts(G) \in Seq(Seq(AllTexts))
    BY <1>1, <2>1, <2>2
  <2>4. Len(Parts(G)) = Len(G)
    BY <2>1, <2>2
  <2> QED BY <2>2, <2>3, <2>4
<1>3. <<>> \in Seq(AllTexts)
  OBVIOUS
<1>4. FlattenSeq(Parts(G)) \in Seq(AllTexts)
  BY <1>2, <1>3, FlattenAppend
<1> QED BY <1>2, <1>4 DEF Said, Parts

\* One handler more, what it was given more.
LEMMA PartsAppend ==
    ASSUME NEW H, NEW G \in Seq(Entries(H)), NEW g \in Entries(H)
    PROVE  Parts(Append(G, g)) = Append(Parts(G), Of(g))
<1>1. /\ Append(G, g) \in Seq(Entries(H))
      /\ Len(Append(G, g)) = Len(G) + 1
      /\ \A i \in 1..Len(G) : Append(G, g)[i] = G[i]
      /\ Append(G, g)[Len(G) + 1] = g
  BY AppendProperties
<1>2. PICK ws \in Seq(Entries(H)) : ws = Append(G, g)
  BY <1>1
<1>3. /\ Len(ws) = Len(G) + 1 /\ ws[Len(G) + 1] = g
      /\ \A i \in 1..Len(G) : ws[i] = G[i]
  BY <1>1, <1>2
<1>4. Of(g) \in Seq(AllTexts)
  BY OfType
<1>5. PICK m \in Seq(Seq(AllTexts)) :
          /\ m = Parts(G) /\ Len(m) = Len(G)
          /\ \A k \in 1..Len(G) : m[k] = Of(G[k])
  BY PartsType
<1>6. PICK f \in Seq(Seq(AllTexts)) :
          /\ f = Parts(ws) /\ Len(f) = Len(ws)
          /\ \A k \in 1..Len(ws) : f[k] = Of(ws[k])
  BY PartsType
<1>7. Len(f) = Len(m) + 1
  BY <1>3, <1>5, <1>6
<1>8. \A i \in 1..Len(m) : f[i] = m[i]
  <2> TAKE i \in 1..Len(m)
  <2>1. i \in 1..Len(G) /\ i \in 1..Len(ws)
    BY <1>3, <1>5
  <2> QED BY <1>3, <1>5, <1>6, <2>1
<1>9. f[Len(m) + 1] = Of(g)
  <2>1. Len(m) + 1 \in 1..Len(ws)
    BY <1>3, <1>5
  <2> QED BY <1>3, <1>5, <1>6, <2>1
<1>10. f = Append(m, Of(g))
  BY <1>4, <1>7, <1>8, <1>9, MapAppend
<1> QED BY <1>2, <1>5, <1>6, <1>10

\* One handler more.
LEMMA SaidAppend ==
    ASSUME NEW H, NEW G \in Seq(Entries(H)), NEW g \in Entries(H)
    PROVE  Said(Append(G, g)) = Said(G) \o Of(g)
<1>1. Parts(G) \in Seq(Seq(AllTexts)) /\ Of(g) \in Seq(AllTexts)
  BY PartsType, OfType
<1>2. FlattenSeq(Append(Parts(G), Of(g))) = FlattenSeq(Parts(G)) \o Of(g)
  BY <1>1, FlattenAppend
<1> QED BY <1>2, PartsAppend DEF Said, Parts

\* Concatenation is associative.
LEMMA Associative ==
    \A a, b, c \in Seq(AllTexts) : (a \o b) \o c = a \o (b \o c)
BY ConcatAssociative

\* More of the last handler.
LEMMA SaidReplace ==
    ASSUME NEW H, NEW G \in Seq(Entries(H)), NEW F \in Seq(Entries(H)),
           Len(G) >= 1, Len(F) = Len(G), \A n \in 1..(Len(G) - 1) : F[n] = G[n],
           NEW x \in Seq(AllTexts), Of(F[Len(G)]) = Of(G[Len(G)]) \o x
    PROVE  Said(F) = Said(G) \o x
<1>1. G # <<>> /\ F # <<>>
  OBVIOUS
<1>2. PICK K \in Seq(Entries(H)) : \E g \in Entries(H) : G = Append(K, g)
  BY <1>1, SequenceEmptyOrAppend
<1>3. PICK g \in Entries(H) : G = Append(K, g)
  BY <1>2
<1>4. PICK L \in Seq(Entries(H)) : \E f \in Entries(H) : F = Append(L, f)
  BY <1>1, SequenceEmptyOrAppend
<1>5. PICK f \in Entries(H) : F = Append(L, f)
  BY <1>4
<1>6. PICK n \in Nat : n = Len(K) /\ Len(G) = n + 1 /\ G[n + 1] = g
                       /\ \A i \in 1..n : G[i] = K[i]
  BY <1>3, AppendProperties
<1>7. Len(L) = n /\ F[n + 1] = f /\ \A i \in 1..n : F[i] = L[i]
  <2>1. /\ Len(F) = Len(L) + 1 /\ F[Len(L) + 1] = f /\ Len(L) \in Nat
        /\ \A i \in 1..Len(L) : F[i] = L[i]
    BY <1>5, AppendProperties
  <2>2. Len(L) = n
    BY <1>6, <2>1
  <2> QED BY <2>1, <2>2
<1>8. K = L
  <2>1. \A i \in 1..n : K[i] = L[i]
    <3> TAKE i \in 1..n
    <3>1. i \in 1..(Len(G) - 1)
      BY <1>6
    <3>2. F[i] = G[i]
      BY <3>1
    <3> QED BY <1>6, <1>7, <3>2
  <2>2. Len(K) = Len(L) /\ \A i \in 1..Len(K) : K[i] = L[i]
    BY <1>6, <1>7, <2>1
  <2> QED BY <2>2, SeqEqual
<1>9. Of(f) = Of(g) \o x
  BY <1>6, <1>7
<1>10. Said(G) = Said(K) \o Of(g) /\ Said(F) = Said(K) \o Of(f)
  BY <1>3, <1>5, <1>8, SaidAppend
<1>11. Said(K) \in Seq(AllTexts) /\ Of(g) \in Seq(AllTexts)
  BY PartsType, OfType
<1>12. (Said(K) \o Of(g)) \o x = Said(K) \o (Of(g) \o x)
  BY <1>11, Associative
<1> QED BY <1>9, <1>10, <1>12
-----------------------------------------------------------------------------
(* Steps on what was given                                                 *)

\* The fields of an entry of call_args.
LEMMA EntryIs ==
    ASSUME NEW H, NEW g \in Entries(H)
    PROVE  /\ g.vals \in Seq(Values \cup {Null}) /\ g.handler \in H /\ g.word \in AllTexts
           /\ g = [handler |-> g.handler, word |-> g.word, vals |-> g.vals]
BY DEF Entries

\* F is G with a handler more, whose word is w.
HasEntered(H, G, h, w, F) ==
    /\ F \in Seq(Entries(H)) /\ Len(F) = Len(G) + 1
    /\ F[Len(F)].handler = h /\ Len(F[Len(F)].vals) = 0
    /\ FitIn(F) /\ Said(F) = Said(G) \o <<w>> /\ (StrictIn(F) => StrictIn(G))

\* Entering a handler.
LEMMA Entered ==
    ASSUME NEW H, NEW G \in Seq(Entries(H)), NEW h \in H, NEW w \in AllTexts, NEW F,
           F = Append(G, [handler |-> h, word |-> w, vals |-> <<>>]), FitIn(G)
    PROVE  HasEntered(H, G, h, w, F)
<1>1. PICK e \in Entries(H) : /\ e = [handler |-> h, word |-> w, vals |-> <<>>]
                              /\ e.handler = h /\ e.vals = <<>>
  <2>1. <<>> \in Seq(Values \cup {Null})
    OBVIOUS
  <2>2. [handler |-> h, word |-> w, vals |-> <<>>] \in Entries(H)
    BY <2>1 DEF Entries
  <2> QED BY <2>2
<1>2. F = Append(G, e)
  BY <1>1
<1>3. /\ Append(G, e) \in Seq(Entries(H)) /\ Len(Append(G, e)) = Len(G) + 1
      /\ \A i \in 1..Len(G) : Append(G, e)[i] = G[i]
      /\ Append(G, e)[Len(G) + 1] = e
  BY AppendProperties
<1>4. PICK K \in Seq(Entries(H)) : K = F /\ Len(K) = Len(G) + 1 /\ K[Len(G) + 1] = e
  BY <1>2, <1>3
<1>5. \A i \in 1..Len(G) : K[i] = G[i]
  BY <1>2, <1>3, <1>4
<1>6. Len(G) \in Nat /\ DOMAIN G = 1..Len(G) /\ DOMAIN K = 1..(Len(G) + 1)
  BY <1>4
<1>7. K[Len(K)].handler = h /\ Len(K[Len(K)].vals) = 0
  BY <1>1, <1>4
<1>8. FitIn(K)
  <2> SUFFICES ASSUME NEW n \in 1..(Len(G) + 1) PROVE EntryFits(K[n])
    BY <1>6 DEF FitIn
  <2>1. CASE n = Len(G) + 1
    <3>1. K[n] = e /\ DOMAIN e.vals = {}
      BY <1>1, <1>4, <2>1
    <3> QED BY <3>1 DEF EntryFits
  <2>2. CASE n # Len(G) + 1
    <3>1. n \in 1..Len(G)
      BY <1>6, <2>2
    <3>2. K[n] = G[n] /\ n \in DOMAIN G
      BY <1>5, <1>6, <3>1
    <3> QED BY <3>2 DEF FitIn
  <2> QED BY <2>1, <2>2
<1>9. Said(K) = Said(G) \o <<w>>
  <2>1. Said(K) = Said(G) \o Of(e)
    BY <1>2, <1>4, SaidAppend
  <2>2. Of(e) = <<w>>
    BY <1>1, OfNew
  <2> QED BY <2>1, <2>2
<1>10. ASSUME StrictIn(K) PROVE StrictIn(G)
  <2>1. \A n \in DOMAIN G : n \in DOMAIN K /\ K[n] = G[n]
    <3> TAKE n \in DOMAIN G
    <3>1. n \in 1..Len(G) /\ n \in DOMAIN K
      BY <1>6
    <3> QED BY <1>5, <3>1
  <2> QED BY <1>10, <2>1 DEF StrictIn
<1> QED BY <1>4, <1>7, <1>8, <1>9, <1>10 DEF HasEntered

\* F is G with a value more, v, which is the kth of its handler.
HasParsed(H, G, k, v, F) ==
    /\ F \in Seq(Entries(H)) /\ Len(F) = Len(G)
    /\ F[Len(F)].handler = G[Len(G)].handler /\ Len(F[Len(F)].vals) = k
    /\ FitIn(F) /\ Said(F) = Said(G) \o Words(Text(v)) /\ (StrictIn(F) => StrictIn(G))

\* Parsing an argument of the last handler.
LEMMA Parsed ==
    ASSUME NEW H, NEW G \in Seq(Entries(H)), Len(G) >= 1, NEW v \in Values \cup {Null}, NEW F,
           F = [G EXCEPT ![Len(G)].vals = Append(@, v)], FitIn(G),
           NEW k, k = Len(G[Len(G)].vals) + 1, k \in DOMAIN G[Len(G)].handler.args,
           Fits(G[Len(G)].handler.args[k], v)
    PROVE  HasParsed(H, G, k, v, F)
<1>1. PICK l \in 1..Len(G) : l = Len(G) /\ Len(G) \in Nat
  OBVIOUS
<1>2. PICK g \in Entries(H) :
          /\ g = G[l] /\ g.vals \in Seq(Values \cup {Null})
          /\ g = [handler |-> g.handler, word |-> g.word, vals |-> g.vals]
          /\ g.handler \in H /\ g.word \in AllTexts
  <2>1. PICK g \in Entries(H) : g = G[l]
    OBVIOUS
  <2> QED BY <2>1, EntryIs
<1>3. PICK ws \in Seq(Values \cup {Null}) :
          /\ ws = Append(g.vals, v) /\ Len(ws) = Len(g.vals) + 1 /\ ws[Len(g.vals) + 1] = v
          /\ \A i \in 1..Len(g.vals) : ws[i] = g.vals[i]
  <2>1. /\ Append(g.vals, v) \in Seq(Values \cup {Null})
        /\ Len(Append(g.vals, v)) = Len(g.vals) + 1
        /\ \A i \in 1..Len(g.vals) : Append(g.vals, v)[i] = g.vals[i]
        /\ Append(g.vals, v)[Len(g.vals) + 1] = v
    BY <1>2, AppendProperties
  <2> QED BY <2>1
<1>4. PICK e \in Entries(H) :
          /\ e = [g EXCEPT !.vals = Append(@, v)]
          /\ e.handler = g.handler /\ e.word = g.word /\ e.vals = ws
  <2>1. [handler |-> g.handler, word |-> g.word, vals |-> ws] \in Entries(H)
    BY <1>2 DEF Entries
  <2>2. [g EXCEPT !.vals = Append(@, v)] = [handler |-> g.handler, word |-> g.word, vals |-> ws]
    <3>1. \A a, b, c, d : [[handler |-> a, word |-> b, vals |-> c] EXCEPT !.vals = d]
                            = [handler |-> a, word |-> b, vals |-> d]
      OBVIOUS
    <3>2. [g EXCEPT !.vals = Append(@, v)] = [g EXCEPT !.vals = ws]
      BY <1>3
    <3> QED BY <1>2, <3>1, <3>2
  <2> QED BY <2>1, <2>2
<1>5. F = [G EXCEPT ![l] = e]
  BY <1>1, <1>2, <1>4
<1>6. PICK K \in Seq(Entries(H)) :
          /\ K = F /\ Len(K) = Len(G)
          /\ \A j \in 1..Len(G) : K[j] = IF j = l THEN e ELSE G[j]
  <2>1. /\ [G EXCEPT ![l] = e] \in Seq(Entries(H)) /\ Len([G EXCEPT ![l] = e]) = Len(G)
        /\ \A j \in 1..Len(G) : [G EXCEPT ![l] = e][j] = IF j = l THEN e ELSE G[j]
    BY ExceptSeq
  <2> QED BY <1>5, <2>1
<1>7. K[l] = e /\ \A n \in 1..(Len(G) - 1) : K[n] = G[n]
  <2>1. \A n \in 1..(Len(G) - 1) : n \in 1..Len(G) /\ n # l
    BY <1>1
  <2> QED BY <1>6, <2>1
<1>8. k = Len(g.vals) + 1 /\ k \in DOMAIN g.handler.args /\ Fits(g.handler.args[k], v)
  <2>1. g = G[Len(G)]
    BY <1>1, <1>2, Zenon
  <2> QED BY <2>1
<1>9. K[Len(K)].handler = G[Len(G)].handler /\ Len(K[Len(K)].vals) = k
  BY <1>1, <1>2, <1>3, <1>4, <1>6, <1>7, <1>8
<1>10. EntryFits(e)
  <2>1. EntryFits(g)
    BY <1>1, <1>2 DEF FitIn
  <2> SUFFICES ASSUME NEW i \in DOMAIN e.vals
               PROVE  i \in DOMAIN e.handler.args /\ Fits(e.handler.args[i], e.vals[i])
    BY DEF EntryFits
  <2>2. i \in 1..(Len(g.vals) + 1) /\ Len(g.vals) \in Nat /\ DOMAIN g.vals = 1..Len(g.vals)
    BY <1>2, <1>3, <1>4
  <2>3. CASE i = Len(g.vals) + 1
    BY <1>3, <1>4, <1>8, <2>3
  <2>4. CASE i # Len(g.vals) + 1
    <3>1. i \in 1..Len(g.vals) /\ i \in DOMAIN g.vals
      BY <2>2, <2>4
    <3>2. e.vals[i] = g.vals[i] /\ e.handler = g.handler
      BY <1>3, <1>4, <3>1
    <3> QED BY <2>1, <3>1, <3>2 DEF EntryFits
  <2> QED BY <2>3, <2>4
<1>11. FitIn(K)
  <2> SUFFICES ASSUME NEW n \in 1..Len(G) PROVE EntryFits(K[n])
    <3>1. DOMAIN K = 1..Len(K) /\ Len(K) = Len(G)
      BY <1>6
    <3> QED BY <3>1 DEF FitIn
  <2>1. CASE n = l
    BY <1>7, <1>10, <2>1
  <2>2. CASE n # l
    <3>1. K[n] = G[n] /\ n \in DOMAIN G
      BY <1>6, <2>2
    <3> QED BY <3>1 DEF FitIn
  <2> QED BY <2>1, <2>2
<1>12. Said(K) = Said(G) \o Words(Text(v))
  <2>1. Of(e) = Of(g) \o Words(Text(v))
    <3>1. e.vals = Append(g.vals, v)
      BY <1>3, <1>4
    <3>2. e.word = g.word
      BY <1>4
    <3> QED BY <3>1, <3>2, OfMore
  <2>2. Words(Text(v)) \in Seq(AllTexts)
    <3>1. Text(v) \in AllTexts
      BY EmptyText DEF Text, Values
    <3> QED BY <3>1, WordsType
  <2>3. Of(K[Len(G)]) = Of(G[Len(G)]) \o Words(Text(v))
    BY <1>1, <1>2, <1>7, <2>1
  <2>4. Len(K) = Len(G) /\ \A n \in 1..(Len(G) - 1) : K[n] = G[n]
    BY <1>6, <1>7
  <2> QED BY <2>2, <2>3, <2>4, SaidReplace
<1>13. ASSUME StrictIn(K) PROVE StrictIn(G)
  <2>1. \A n \in DOMAIN G : n \in DOMAIN K /\ K[n].handler = G[n].handler
    <3> TAKE n \in DOMAIN G
    <3>1. n \in 1..Len(G) /\ n \in DOMAIN K
      BY <1>6
    <3>2. CASE n = l
      BY <1>2, <1>4, <1>7, <3>1, <3>2
    <3>3. CASE n # l
      BY <1>6, <3>1, <3>3
    <3> QED BY <3>1, <3>2, <3>3
  <2> QED BY <1>13, <2>1 DEF StrictIn
<1> QED BY <1>6, <1>9, <1>11, <1>12, <1>13 DEF HasParsed

\* The first word of a text is not longer than the text.
LEMMA FirstWordShort ==
    ASSUME NEW s \in AllTexts
    PROVE  Len(FirstWord(s)) \in Nat /\ Len(FirstWord(s)) <= Len(s)
<1>1. FirstWord(s) = SplitAt(s, Space)[1] /\ Len(s) \in Nat
  BY TextDomain DEF FirstWord
<1>2. CASE SplitAt(s, Space) = <<s, <<>>>>
  BY <1>1, <1>2
<1>3. ASSUME NEW m \in 0..Len(s), SplitAt(s, Space) = <<SubSeq(s, 1, m), SubSeq(s, m + 2, Len(s))>>
      PROVE  Len(FirstWord(s)) \in Nat /\ Len(FirstWord(s)) <= Len(s)
  <2>1. FirstWord(s) = SubSeq(s, 1, m)
    BY <1>1, <1>3
  <2>2. m \in Nat /\ m <= Len(s) /\ 1 \in Nat /\ 1 <= 1 /\ 1 <= m + 1
    BY <1>1
  <2>3. Len(SubSeq(s, 1, m)) = m - 1 + 1
    BY <2>2, SubText
  <2> QED BY <2>1, <2>2, <2>3
<1> QED BY <1>2, <1>3, SplitIs

\* A text from its beginning to its end.
LEMMA WholeText ==
    ASSUME NEW s \in AllTexts
    PROVE  SubSeq(s, 1, Len(s)) = s
BY DEF AllTexts

\* After the end of a text there is nothing.
LEMMA AfterAll ==
    ASSUME NEW s \in AllTexts
    PROVE  After(s, Len(s)) = <<>>
<1>1. PICK n \in Nat : n = Len(s)
  BY TextDomain
<1>2. n + 1 > n
  OBVIOUS
<1>3. SubSeq(s, n + 1, n) = <<>>
  BY <1>2 DEF AllTexts
<1> QED BY <1>1, <1>3 DEF After

\* What match() takes and leaves, for an argument that takes whole words, is the
\* text; and what a matcher takes it accepts.
LEMMA MatchIs ==
    ASSUME NEW a, ArgumentOK(a), NEW s \in AllTexts, s # <<>> => s[1] \notin Space,
           Null \notin Values, NEW m \in Match(a, s)
    PROVE  /\ m.rest \in AllTexts /\ m.val \in Values \cup {Null}
           /\ m.val # Null => m.val.as = a.gives /\ (a.kind # "simple" => m.val.text \in a.accepts)
           /\ TakesWords(a) => Words(Text(m.val)) \o Words(m.rest) = Words(s)
<1>1. /\ FirstWord(s) \in AllTexts /\ After(s, Len(FirstWord(s))) \in AllTexts
      /\ Words(s) = Words(FirstWord(s)) \o Words(After(s, Len(FirstWord(s))))
  BY FirstWordWords
<1>2. PICK t \in AllTexts : t = Seen(a, s) /\ t = IF a.raw THEN s ELSE FirstWord(s)
  BY <1>1 DEF Seen
<1>3. PICK N \in Nat : N = Len(s)
  BY TextDomain
<1>4. PICK T \in Nat : T = Len(t) /\ T <= N
  <2>1. CASE a.raw
    BY <1>2, <1>3, <2>1
  <2>2. CASE ~a.raw
    <3>1. Len(FirstWord(s)) \in Nat /\ Len(FirstWord(s)) <= N
      BY <1>3, FirstWordShort
    <3> QED BY <1>2, <2>2, <3>1
  <2> QED BY <2>1, <2>2
<1>5. Words(s) \in Seq(AllTexts)
  BY WordsType
<1>6. a.kind = "simple" \/ a.kind # "simple"
  OBVIOUS
<1>7. CASE MatchEnds(a, t) = {}
  <2>1. m.rest = s /\ m.val = Null
    BY <1>2, <1>7 DEF Match
  <2>2. Text(Null) = <<>> /\ <<>> \o Words(s) = Words(s)
    BY <1>5, ConcatEmptySeq DEF Text
  <2> QED BY <2>1, <2>2, EmptyText
<1>8. CASE MatchEnds(a, t) # {}
  <2>1. PICK n \in MatchEnds(a, t) :
            m = [rest |-> After(s, n), val |-> Value(a, SubSeq(t, 1, n))]
    BY <1>2, <1>8 DEF Match
  <2>2. /\ n \in 0..Len(t) /\ (a.kind # "simple" => SubSeq(t, 1, n) \in a.accepts)
        /\ TakesWords(a) => n = Len(t)
    <3>1. Len(t) \in 0..Len(t)
      BY <1>4
    <3> QED BY <1>6, <2>1, <3>1, Zenon DEF MatchEnds
  <2>3. n \in Nat /\ n <= T /\ n <= N
    BY <1>4, <2>2
  <2>4. SubSeq(t, 1, n) \in AllTexts
    <3>1. 1 \in Nat /\ 1 <= 1 /\ 1 <= n + 1 /\ n <= Len(t)
      BY <1>4, <2>3
    <3> QED BY <2>3, <3>1, SubText
  <2>5. After(s, n) \in AllTexts
    <3>1. PICK p \in Nat : p = n + 1 /\ 1 <= p /\ p <= N + 1
      BY <2>3
    <3>2. p <= Len(s) + 1 /\ Len(s) <= Len(s) /\ Len(s) \in Nat
      BY <1>3, <3>1
    <3>3. SubSeq(s, p, Len(s)) \in AllTexts
      BY <3>1, <3>2, SubText
    <3> QED BY <3>1, <3>3 DEF After
  <2>6. PICK v \in Values : v = m.val /\ v.text = SubSeq(t, 1, n) /\ v.as = a.gives /\ v # Null
    <3>1. a.gives \in Conversions
      BY DEF ArgumentOK
    <3>2. [text |-> SubSeq(t, 1, n), as |-> a.gives] \in Values
      BY <2>4, <3>1 DEF Values
    <3>3. m.val = [text |-> SubSeq(t, 1, n), as |-> a.gives]
      BY <2>1 DEF Value
    <3> QED BY <3>2, <3>3
  <2>7. m.rest = After(s, n) /\ Text(m.val) = SubSeq(t, 1, n)
    BY <2>1, <2>6 DEF Text
  <2>8. ASSUME TakesWords(a) PROVE Words(Text(m.val)) \o Words(m.rest) = Words(s)
    <3>1. SubSeq(t, 1, n) = t /\ n = Len(t)
      BY <2>2, <2>8, WholeText
    <3>2. CASE a.raw
      <4>1. t = s /\ n = Len(s)
        BY <1>2, <3>1, <3>2
      <4>2. After(s, Len(s)) = <<>>
        BY AfterAll
      <4>3. Words(s) \o <<>> = Words(s)
        BY <1>5, ConcatEmptySeq
      <4> QED BY <2>7, <3>1, <4>1, <4>2, <4>3, EmptyText
    <3>3. CASE ~a.raw
      <4>1. t = FirstWord(s)
        BY <1>2, <3>3
      <4> QED BY <1>1, <2>7, <3>1, <4>1
    <3> QED BY <3>2, <3>3
  <2> QED BY <2>2, <2>5, <2>6, <2>7, <2>8
<1> QED BY <1>7, <1>8
-----------------------------------------------------------------------------
(* Steps                                                                   *)

\* A text that is a word in lower case is a word.
LEMMA LowerWord ==
    ASSUME NEW w \in AllTexts, IsWord(Lower(w))
    PROVE  IsWord(w)
<1>1. DOMAIN Lower(w) = DOMAIN w
  BY DEF Lower
<1>2. \A i \in DOMAIN w : w[i] \notin Space
  <2> TAKE i \in DOMAIN w
  <2>1. Lower(w)[i] \notin Space
    BY <1>1 DEF IsWord
  <2>2. Lower(w)[i] = IF w[i] = "C" THEN "c" ELSE w[i]
    BY DEF Lower
  <2> QED BY <2>1, <2>2, Zenon DEF Space
<1>3. w # <<>>
  <2> SUFFICES ASSUME w = <<>> PROVE FALSE
    OBVIOUS
  <2>1. Lower(w) = <<>>
    BY DEF Lower
  <2> QED BY <2>1 DEF IsWord
<1> QED BY <1>2, <1>3 DEF IsWord

\* lower() of the first of many words.
LEMMA LowerFirstIs ==
    ASSUME NEW w \in AllTexts, NEW x \in Seq(AllTexts)
    PROVE  LowerFirst(<<w>> \o x) = <<Lower(w)>> \o x
<1>1. PICK y \in Seq(AllTexts) : /\ y = <<w>> \o x /\ Len(y) = 1 + Len(x) /\ y[1] = w
                                 /\ \A i \in 1..Len(x) : y[i + 1] = x[i]
  <2>1. <<w>> \in Seq(AllTexts) /\ Len(<<w>>) = 1 /\ <<w>>[1] = w
    OBVIOUS
  <2>2. /\ <<w>> \o x \in Seq(AllTexts) /\ Len(<<w>> \o x) = Len(<<w>>) + Len(x)
        /\ \A i \in 1..(Len(<<w>>) + Len(x)) : (<<w>> \o x)[i] =
                IF i <= Len(<<w>>) THEN <<w>>[i] ELSE x[i - Len(<<w>>)]
    BY <2>1, ConcatProperties
  <2>3. PICK y \in Seq(AllTexts) : /\ y = <<w>> \o x /\ Len(y) = 1 + Len(x)
          /\ \A i \in 1..(1 + Len(x)) : y[i] = IF i <= 1 THEN <<w>>[i] ELSE x[i - 1]
    BY <2>1, <2>2
  <2>4. y[1] = w
    <3>1. 1 \in 1..(1 + Len(x)) /\ 1 <= 1
      OBVIOUS
    <3> QED BY <2>1, <2>3, <3>1
  <2>5. \A i \in 1..Len(x) : y[i + 1] = x[i]
    <3> TAKE i \in 1..Len(x)
    <3>1. i + 1 \in 1..(1 + Len(x)) /\ ~(i + 1 <= 1) /\ (i + 1) - 1 = i
      OBVIOUS
    <3> QED BY <2>3, <3>1
  <2> QED BY <2>3, <2>4, <2>5
<1>2. y # <<>> /\ Head(y) = w
  BY <1>1
<1>3. /\ Tail(y) \in Seq(AllTexts) /\ Len(Tail(y)) = Len(y) - 1
      /\ \A i \in 1..Len(Tail(y)) : Tail(y)[i] = y[i + 1]
  BY <1>2, HeadTailProperties
<1>4. Len(Tail(y)) = Len(x) /\ \A i \in 1..Len(Tail(y)) : Tail(y)[i] = x[i]
  <2>1. Len(Tail(y)) = Len(x)
    BY <1>1, <1>3
  <2> QED BY <1>1, <1>3, <2>1
<1>5. Tail(y) = x
  BY <1>3, <1>4, SeqEqual
<1> QED BY <1>1, <1>2, <1>5 DEF LowerFirst

\* A subcommand that is found was declared and is called by its first word.
LEMMA SubcommandIs ==
    ASSUME NEW H, NEW h \in H, h.subs \in Seq(H), NEW s, Subcommand(h, s) # Null
    PROVE  /\ Subcommand(h, s) \in H
           /\ IsCommandMatch(Subcommand(h, s), SplitInTwo(Strip(s))[1])
<1> DEFINE I == {i \in DOMAIN h.subs : IsCommandMatch(h.subs[i], SplitInTwo(Strip(s))[1])}
<1>1. I # {} /\ Subcommand(h, s) = h.subs[Min(I)]
  BY DEF Subcommand
<1>2. I \subseteq Nat
  OBVIOUS
<1>3. Min(I) \in I
  <2> HIDE DEF I
  <2> QED BY <1>1, <1>2, MinOf
<1>4. PICK i \in DOMAIN h.subs :
          i = Min(I) /\ IsCommandMatch(h.subs[i], SplitInTwo(Strip(s))[1])
  BY <1>3
<1>5. h.subs[i] \in H
  OBVIOUS
<1> HIDE DEF I
<1> QED BY <1>1, <1>4, <1>5

\* __mb_is_command_match__ matches words only, since names and aliases are words.
LEMMA MatchIsWord ==
    ASSUME NEW H, NEW A, Declared(H, A), NEW h \in H, NEW w, IsCommandMatch(h, w)
    PROVE  IsWord(w)
<1>1. HandlerOK(h, H, A)
  BY DEF Declared
<1> QED BY <1>1 DEF HandlerOK, IsCommandMatch

\* The invariant holds of a message that reaches a handler.
LEMMA CommandStarts ==
    ASSUME NEW H, NEW A, Declared(H, A), CommandInit
    PROVE  CommandInv(H)
<1>1. PICK h \in Roots, b \in Bodies, c \in Contexts :
          at = h /\ msg = [body |-> b, type |-> c.type, own |-> c.own,
                           thread |-> c.thread, plain |-> c.plain]
  BY DEF CommandInit
<1>2. at \in H /\ msg.body \in AllTexts /\ msg.thread \in BOOLEAN /\ msg.plain \in BOOLEAN
  BY <1>1 DEF Declared
<1>3. pc = "call" /\ rest = <<>> /\ next = 1 /\ given = <<>>
  BY DEF CommandInit
<1>4. given \in Seq(Entries(H)) /\ FitIn(given)
  BY <1>3 DEF FitIn
<1>5. CallStateOK(H)
  BY <1>2, <1>3, <1>4, EmptyText DEF CallStateOK
<1> QED BY <1>3, <1>5 DEF CommandInv, WholeSoFar, NothingLeft

\* A step that only changes where the handler is.
LEMMA ReturnOK ==
    ASSUME NEW H, CommandInv(H), NEW how, Return(how),
           how # "call", pc \in {"call", "ignored"} => how = "ignored",
           how = "called" /\ StrictIn(given) => Words(rest) = <<>>
    PROVE  CommandInv(H)'
<1>1. pc' = how /\ UNCHANGED <<msg, at, rest, next, given>>
  BY DEF Return
<1>2. CallStateOK(H)'
  BY <1>1 DEF CallStateOK, CommandInv
<1>3. WholeSoFar'
  BY <1>1 DEF WholeSoFar, CommandInv
<1>4. NothingLeft'
  BY <1>1 DEF NothingLeft, CommandInv
<1> QED BY <1>2, <1>3, <1>4 DEF CommandInv

\* respond() keeps the invariant.
LEMMA SendOK ==
    ASSUME NEW H, CommandInv(H), NEW r, Send(r), pc \notin {"call", "ignored"}
    PROVE  CommandInv(H)'
<1>1. pc' = "answered" /\ UNCHANGED <<msg, at, rest, next, given>>
  BY DEF Send
<1>2. CallStateOK(H)'
  BY <1>1 DEF CallStateOK, CommandInv
<1>3. WholeSoFar'
  BY <1>1 DEF WholeSoFar, CommandInv
<1>4. NothingLeft'
  BY <1>1 DEF NothingLeft, CommandInv
<1> QED BY <1>2, <1>3, <1>4 DEF CommandInv

\* __call__() of a command keeps the invariant: what it takes from the body is the
\* first word, and the blank after it.
LEMMA CommandOK ==
    ASSUME NEW H, NEW A, Declared(H, A), CommandInv(H), Command
    PROVE  CommandInv(H)'
<1> DEFINE t == Tail(msg.body)
           p == SplitInTwo(t)
<1>1. /\ pc = "call" /\ msg.body # <<>> /\ IsCommandMatch(at, Lower(p[1]))
      /\ Enter(at, Lower(p[1]), p[2]) /\ pc' \in {"subcommand", "arguments"} /\ msg' = msg
  BY DEF Command
<1>2. /\ CallStateOK(H) /\ at \in H /\ given = <<>> /\ msg.body \in AllTexts
      /\ given \in Seq(Entries(H)) /\ FitIn(given)
  BY <1>1 DEF CommandInv, CallStateOK
<1>3. PICK u \in AllTexts : u = t
  <2>1. Tail(msg.body) \in Seq(STRING)
    BY <1>1, <1>2, HeadTailProperties DEF AllTexts
  <2> QED BY <2>1 DEF AllTexts
<1>4. PICK w \in AllTexts : w = p[1]
  BY <1>3, SplitType DEF SplitInTwo
<1>5. PICK q \in AllTexts : q = p[2]
  BY <1>3, SplitType DEF SplitInTwo
<1>6. IsWord(Lower(w)) /\ Lower(w) \in AllTexts
  BY <1>1, <1>2, <1>4, MatchIsWord DEF IsWord
<1>7. Words(u) = <<w>> \o Words(q)
  <2>1. {" "} \subseteq Space
    BY DEF Space
  <2>2. IsWord(SplitAt(u, {" "})[1])
    BY <1>3, <1>4, <1>6, LowerWord DEF SplitInTwo
  <2> QED BY <1>3, <1>4, <1>5, <2>1, <2>2, SplitWords DEF SplitInTwo
<1>8. LowerFirst(Words(u)) = <<Lower(w)>> \o Words(q)
  BY <1>7, WordsType, LowerFirstIs
<1>9. /\ at' = at /\ rest' = q /\ next' = 1
      /\ given' = Append(given, [handler |-> at, word |-> Lower(w), vals |-> <<>>])
  BY <1>1, <1>4, <1>5 DEF Enter
<1>10. HasEntered(H, given, at, Lower(w), given')
  <2>1. PICK l \in AllTexts : l = Lower(w)
    BY <1>6
  <2>2. PICK F : F = given'
    OBVIOUS
  <2>3. F = Append(given, [handler |-> at, word |-> l, vals |-> <<>>])
    BY <1>9, <2>1, <2>2
  <2>4. HasEntered(H, given, at, l, F)
    BY <1>2, <2>3, Entered
  <2> QED BY <2>1, <2>2, <2>4
<1>11. Said(given') = <<Lower(w)>>
  <2>1. Said(<<>>) = <<>>
    <3>1. [n \in DOMAIN <<>> |-> Of(<<>>[n])] = <<>>
      OBVIOUS
    <3> QED BY <3>1, EmptyText DEF Said
  <2>2. <<Lower(w)>> \in Seq(AllTexts)
    BY <1>6
  <2>3. <<>> \o <<Lower(w)>> = <<Lower(w)>>
    BY <2>2, ConcatEmptySeq
  <2> QED BY <1>2, <1>10, <2>1, <2>3 DEF HasEntered
<1>12. Len(given') >= 1
  <2>1. Len(given) = 0
    BY <1>2
  <2> QED BY <1>10, <2>1 DEF HasEntered
<1> HIDE DEF t, p
<1>13. CallStateOK(H)'
  <2>1. Len(given'[Len(given')].vals) = next' - 1 /\ next' \in Nat /\ 1 <= next'
    BY <1>9, <1>10 DEF HasEntered
  <2>2. pc' # "call"
    BY <1>1
  <2>3. msg.body \in AllTexts /\ msg.thread \in BOOLEAN /\ msg.plain \in BOOLEAN
    BY <1>2 DEF CallStateOK
  <2> QED BY <1>1, <1>2, <1>9, <1>10, <1>12, <2>1, <2>2, <2>3 DEF CallStateOK, HasEntered
<1>14. WholeSoFar'
  <2>1. Said(given') \o Words(rest') = LowerFirst(Words(Tail(msg'.body)))
    BY <1>1, <1>3, <1>8, <1>9, <1>11 DEF t
  <2> QED BY <2>1 DEF WholeSoFar
<1>15. NothingLeft'
  <2>1. pc' # "called"
    BY <1>1
  <2> QED BY <2>1 DEF NothingLeft
<1> QED BY <1>13, <1>14, <1>15 DEF CommandInv
\* __call_subcommand__() keeps the invariant: it takes the next word.
LEMMA CallSubcommandOK ==
    ASSUME NEW H, NEW A, Declared(H, A), CommandInv(H), CallSubcommand
    PROVE  CommandInv(H)'
<1> DEFINE p == SplitInTwo(Strip(rest))
<1>1. PICK h : /\ h = Subcommand(at, rest) /\ h # Null /\ Enter(h, p[1], p[2])
               /\ pc' \in {"unaccepted", "subcommand", "arguments"}
  BY DEF CallSubcommand
<1>2. pc = "subcommand" /\ msg' = msg
  BY DEF CallSubcommand
<1>3. /\ at \in H /\ rest \in AllTexts /\ given \in Seq(Entries(H)) /\ FitIn(given)
      /\ msg.body \in AllTexts /\ msg.thread \in BOOLEAN /\ msg.plain \in BOOLEAN
  BY DEF CommandInv, CallStateOK
<1>4. h \in H /\ IsCommandMatch(h, p[1])
  <2>1. at.subs \in Seq(H)
    BY <1>3 DEF Declared, HandlerOK
  <2> QED BY <1>1, <1>3, <2>1, SubcommandIs
<1>5. PICK t \in AllTexts : t = Strip(rest) /\ Words(t) = Words(rest)
  BY <1>3, StripWords
<1>6. PICK w \in AllTexts : w = p[1]
  BY <1>5, SplitType DEF SplitInTwo
<1>7. PICK q \in AllTexts : q = p[2]
  BY <1>5, SplitType DEF SplitInTwo
<1>8. Words(rest) = <<w>> \o Words(q)
  <2>1. {" "} \subseteq Space
    BY DEF Space
  <2>2. IsWord(w)
    BY <1>4, <1>6, MatchIsWord
  <2>3. IsWord(SplitAt(t, {" "})[1])
    BY <1>5, <1>6, <2>2 DEF SplitInTwo
  <2> QED BY <1>5, <1>6, <1>7, <2>1, <2>3, SplitWords DEF SplitInTwo
<1>9. /\ at' = h /\ rest' = q /\ next' = 1
      /\ given' = Append(given, [handler |-> h, word |-> w, vals |-> <<>>])
  BY <1>1, <1>6, <1>7 DEF Enter
<1>10. HasEntered(H, given, h, w, given')
  <2>1. PICK F : F = given'
    OBVIOUS
  <2>2. F = Append(given, [handler |-> h, word |-> w, vals |-> <<>>])
    BY <1>9, <2>1
  <2>3. HasEntered(H, given, h, w, F)
    BY <1>3, <1>4, <2>2, Entered
  <2> QED BY <2>1, <2>3
<1> HIDE DEF p
<1>11. Len(given') >= 1
  BY <1>3, <1>10 DEF HasEntered
<1>12. CallStateOK(H)'
  <2>1. Len(given'[Len(given')].vals) = next' - 1 /\ next' \in Nat /\ 1 <= next'
    BY <1>9, <1>10 DEF HasEntered
  <2>2. pc' # "call"
    BY <1>1
  <2> QED BY <1>2, <1>3, <1>4, <1>9, <1>10, <1>11, <2>1, <2>2 DEF CallStateOK, HasEntered
<1>13. WholeSoFar'
  <2> SUFFICES ASSUME StrictIn(given')
               PROVE  Said(given') \o Words(rest') = LowerFirst(Words(Tail(msg'.body)))
    BY DEF WholeSoFar
  <2>1. StrictIn(given) /\ Said(given') = Said(given) \o <<w>>
    BY <1>10 DEF HasEntered
  <2>2. Said(given) \o Words(rest) = LowerFirst(Words(Tail(msg.body)))
    BY <1>2, <2>1 DEF CommandInv, WholeSoFar
  <2>3. PICK x \in Seq(AllTexts) : x = Words(q)
    BY WordsType
  <2>4. PICK y \in Seq(AllTexts) : y = Said(given)
    BY <1>3, PartsType
  <2>5. <<w>> \in Seq(AllTexts)
    OBVIOUS
  <2>6. (y \o <<w>>) \o x = y \o (<<w>> \o x)
    BY <2>5, Associative
  <2>7. Said(given') \o Words(rest') = Said(given) \o Words(rest)
    BY <1>8, <1>9, <2>1, <2>3, <2>4, <2>6
  <2> QED BY <1>2, <2>2, <2>7
<1>14. NothingLeft'
  <2>1. pc' # "called"
    BY <1>1
  <2> QED BY <2>1 DEF NothingLeft
<1> QED BY <1>12, <1>13, <1>14 DEF CommandInv

\* Doing without a subcommand keeps the invariant.
LEMMA NoSubcommandOK ==
    ASSUME NEW H, CommandInv(H), NoSubcommand
    PROVE  CommandInv(H)'
<1>1. PICK how : how = pc'
  OBVIOUS
<1>2. how \in {"arguments", "help", "consume"} /\ Return(how) /\ pc = "subcommand"
  BY <1>1 DEF NoSubcommand, Return
<1>3. how # "call" /\ how # "called" /\ pc \notin {"call", "ignored"}
  BY <1>2
<1> QED BY <1>2, <1>3, ReturnOK

\* Decorators are applied last to first and new() reverses the arguments, so
\* they are parsed as they are written.
LEMMA ArgumentsAreArgs ==
    ASSUME NEW A, NEW h, h.args \in Seq(A)
    PROVE  Arguments(h) = h.args
<1>1. PICK s \in Seq(A) : s = h.args
  OBVIOUS
<1>2. PICK n \in Nat : n = Len(s) /\ DOMAIN s = 1..n
  OBVIOUS
<1>3. PICK r \in Seq(A) : r = Reverse(s) /\ Len(r) = n /\ \A i \in 1..n : r[i] = s[(n - i) + 1]
  <2>1. \A i \in 1..n : s[(n - i) + 1] \in A
    <3> TAKE i \in 1..n
    <3>1. (n - i) + 1 \in 1..n
      OBVIOUS
    <3> QED BY <1>2, <3>1
  <2>2. Reverse(s) = [i \in 1..n |-> s[(n - i) + 1]]
    BY <1>2 DEF Reverse
  <2>3. PICK r : r = [i \in 1..n |-> s[(n - i) + 1]]
    OBVIOUS
  <2>4. r \in [1..n -> A]
    BY <2>1, <2>3
  <2>5. r \in Seq(A) /\ Len(r) = n
    BY <2>4
  <2>6. \A i \in 1..n : r[i] = s[(n - i) + 1]
    BY <2>3
  <2> QED BY <2>2, <2>3, <2>5, <2>6
<1>4. Reverse(r) = [i \in 1..n |-> r[(n - i) + 1]]
  BY <1>3 DEF Reverse
<1>5. \A i \in 1..n : r[(n - i) + 1] = s[i]
  <2> TAKE i \in 1..n
  <2>1. (n - i) + 1 \in 1..n /\ (n - ((n - i) + 1)) + 1 = i
    OBVIOUS
  <2> QED BY <1>3, <2>1
<1>6. Reverse(r) = [i \in 1..n |-> s[i]]
  BY <1>4, <1>5
<1>7. s = [i \in 1..n |-> s[i]]
  BY <1>2
<1> QED BY <1>1, <1>3, <1>6, <1>7 DEF Arguments, Applied

\* A round of __parse_args__() keeps the invariant: the value and the rest are the
\* words that were left.
LEMMA ParseArgumentOK ==
    ASSUME NEW H, NEW A, Declared(H, A), CommandInv(H), ParseArgument
    PROVE  CommandInv(H)'
<1>1. PICK a : a = Arguments(at)[next]
  OBVIOUS
<1>2. PICK m \in Match(a, Strip(rest)) :
          IF m.val = Null /\ (a.required \/ a.refuses # "none")
          THEN /\ pc' = IF a.refuses = "raise" THEN "raised" ELSE "usage"
               /\ UNCHANGED <<rest, next, given>>
          ELSE /\ rest' = m.rest
               /\ given' = [given EXCEPT ![Len(given)].vals = Append(@, m.val)]
               /\ next' = next + 1
               /\ UNCHANGED pc
  BY <1>1 DEF ParseArgument
<1>3. pc = "arguments" /\ next <= Len(at.args) /\ msg' = msg /\ at' = at /\ response' = response
  BY DEF ParseArgument
<1>4. /\ at \in H /\ rest \in AllTexts /\ given \in Seq(Entries(H)) /\ FitIn(given)
      /\ msg.body \in AllTexts /\ msg.thread \in BOOLEAN /\ msg.plain \in BOOLEAN
      /\ next \in Nat /\ 1 <= next
      /\ Len(given) >= 1 /\ given[Len(given)].handler = at
      /\ Len(given[Len(given)].vals) = next - 1
  BY <1>3 DEF CommandInv, CallStateOK
<1>5. /\ a = at.args[next] /\ next \in DOMAIN at.args /\ ArgumentOK(a)
  <2>1. at.args \in Seq(A) /\ \A x \in A : ArgumentOK(x)
    BY <1>4 DEF Declared, HandlerOK
  <2>2. a = at.args[next]
    BY <1>1, <2>1, ArgumentsAreArgs
  <2>3. next \in DOMAIN at.args
    BY <1>3, <1>4, <2>1
  <2>4. at.args[next] \in A
    BY <2>1, <2>3
  <2> QED BY <2>1, <2>2, <2>3, <2>4
<1>6. PICK t \in AllTexts : /\ t = Strip(rest) /\ Words(t) = Words(rest)
                            /\ t # <<>> => t[1] \notin Space
  BY <1>4, StripWords
<1>7. /\ m.rest \in AllTexts /\ m.val \in Values \cup {Null}
      /\ m.val # Null => m.val.as = a.gives /\ (a.kind # "simple" => m.val.text \in a.accepts)
      /\ TakesWords(a) => Words(Text(m.val)) \o Words(m.rest) = Words(t)
  <2>1. Null \notin Values
    BY DEF Declared
  <2>2. m \in Match(a, t)
    BY <1>2, <1>6
  <2> QED BY <1>5, <1>6, <2>1, <2>2, MatchIs
<1>8. CASE m.val = Null /\ (a.required \/ a.refuses # "none")
  <2>1. PICK how : how = pc'
    OBVIOUS
  <2>2. how \in {"raised", "usage"} /\ UNCHANGED <<rest, next, given>>
    BY <1>2, <1>8, <2>1
  <2>3. Return(how)
    BY <1>3, <2>1, <2>2 DEF Return
  <2>4. how # "call" /\ how # "called" /\ pc \notin {"call", "ignored"}
    BY <1>3, <2>2
  <2> QED BY <2>3, <2>4, ReturnOK
<1>9. CASE ~(m.val = Null /\ (a.required \/ a.refuses # "none"))
  <2>1. /\ rest' = m.rest /\ given' = [given EXCEPT ![Len(given)].vals = Append(@, m.val)]
        /\ next' = next + 1 /\ pc' = pc
    BY <1>2, <1>9
  <2>2. PICK v \in Values \cup {Null} : v = m.val
    BY <1>7
  <2>3. Fits(a, v)
    BY <1>7, <1>9, <2>2 DEF Fits
  <2>4. HasParsed(H, given, next, v, given')
    <3>1. PICK F : F = given'
      OBVIOUS
    <3>2. F = [given EXCEPT ![Len(given)].vals = Append(@, v)]
      BY <2>1, <2>2, <3>1
    <3>3. next = Len(given[Len(given)].vals) + 1
      <4>1. \A x, y \in Int : x = y - 1 => y = x + 1
        OBVIOUS
      <4>2. Len(given[Len(given)].vals) \in Int /\ next \in Int
        BY <1>4
      <4> QED BY <1>4, <4>1, <4>2
    <3>4. /\ next \in DOMAIN given[Len(given)].handler.args
          /\ Fits(given[Len(given)].handler.args[next], v)
      BY <1>4, <1>5, <2>3
    <3>5. HasParsed(H, given, next, v, F)
      BY <1>4, <3>2, <3>3, <3>4, Parsed
    <3> QED BY <3>1, <3>5
  <2>5. CallStateOK(H)'
    <3>1. /\ Len(given'[Len(given')].vals) = next' - 1 /\ next' \in Nat /\ 1 <= next'
          /\ Len(given') >= 1
      BY <1>4, <2>1, <2>4 DEF HasParsed
    <3>2. pc' # "call"
      BY <1>3, <2>1
    <3> QED BY <1>3, <1>4, <1>7, <2>1, <2>4, <3>1, <3>2 DEF CallStateOK, HasParsed
  <2>6. WholeSoFar'
    <3> SUFFICES ASSUME StrictIn(given')
                 PROVE  Said(given') \o Words(rest') = LowerFirst(Words(Tail(msg'.body)))
      BY DEF WholeSoFar
    <3>1. StrictIn(given) /\ Said(given') = Said(given) \o Words(Text(v))
      BY <2>4 DEF HasParsed
    <3>2. Said(given) \o Words(rest) = LowerFirst(Words(Tail(msg.body)))
      BY <1>3, <3>1 DEF CommandInv, WholeSoFar
    <3>3. TakesWords(a)
      <4>1. PICK l \in DOMAIN given : l = Len(given)
        BY <1>4
      <4>2. given[l].handler = at
        BY <1>4, <4>1
      <4> QED BY <1>5, <3>1, <4>2 DEF StrictIn
    <3>4. Words(Text(v)) \o Words(rest') = Words(rest)
      BY <1>6, <1>7, <2>1, <2>2, <3>3
    <3>5. PICK x \in Seq(AllTexts) : x = Words(rest')
      BY <1>7, <2>1, WordsType
    <3>6. PICK y \in Seq(AllTexts) : y = Said(given)
      BY <1>4, PartsType
    <3>7. PICK z \in Seq(AllTexts) : z = Words(Text(v))
      <4>1. Text(v) \in AllTexts
        BY EmptyText DEF Text, Values
      <4> QED BY <4>1, WordsType
    <3>8. (y \o z) \o x = y \o (z \o x)
      BY Associative
    <3>9. Said(given') \o Words(rest') = Said(given) \o Words(rest)
      BY <3>1, <3>4, <3>5, <3>6, <3>7, <3>8
    <3> QED BY <1>3, <3>2, <3>9
  <2>7. NothingLeft'
    <3>1. pc' # "called"
      BY <1>3, <2>1
    <3> QED BY <3>1 DEF NothingLeft
  <2> QED BY <2>5, <2>6, <2>7 DEF CommandInv
<1> QED BY <1>8, <1>9

\* The check for text that is left keeps the invariant: nothing is.
LEMMA ConsumeOK ==
    ASSUME NEW H, CommandInv(H), Consume
    PROVE  CommandInv(H)'
<1>1. PICK how : how = pc'
  OBVIOUS
<1>2. /\ pc = "consume" /\ Return(how) /\ how \in {"help", "called"}
      /\ how = "called" => ~(at.consume /\ Strip(rest) # <<>>)
  BY <1>1 DEF Consume, Return
<1>3. ASSUME how = "called", StrictIn(given) PROVE Words(rest) = <<>>
  <2>1. /\ rest \in AllTexts /\ Len(given) >= 1 /\ given[Len(given)].handler = at
        /\ given \in Seq(Entries(H))
    BY <1>2 DEF CommandInv, CallStateOK
  <2>2. PICK l \in DOMAIN given : l = Len(given)
    BY <2>1
  <2>3. at.consume
    BY <1>3, <2>1, <2>2 DEF StrictIn
  <2>4. Strip(rest) = <<>>
    BY <1>2, <1>3, <2>3
  <2>5. Words(Strip(rest)) = Words(rest)
    BY <2>1, StripWords
  <2> QED BY <2>4, <2>5, EmptyText
<1>4. how # "call" /\ pc \notin {"call", "ignored"}
  BY <1>2
<1> QED BY <1>2, <1>3, <1>4, ReturnOK

\* Every step keeps the invariant.
LEMMA CommandStep ==
    ASSUME NEW H, NEW A, Declared(H, A), CommandInv(H), [CommandNext]_commandVars
    PROVE  CommandInv(H)'
<1>1. CASE Ignore
  <2>1. Return("ignored") /\ "ignored" # "call" /\ "ignored" # "called"
    BY <1>1 DEF Ignore
  <2> QED BY <2>1, ReturnOK
<1>2. CASE Command
  BY <1>2, CommandOK
<1>3. CASE CallSubcommand
  BY <1>3, CallSubcommandOK
<1>4. CASE NoSubcommand
  BY <1>4, NoSubcommandOK
<1>5. CASE ParseArgument
  BY <1>5, ParseArgumentOK
<1>6. CASE ParsedArguments
  <2>1. PICK how : how = pc'
    OBVIOUS
  <2>2. pc = "arguments" /\ Return(how) /\ how \in {"subcommand", "consume"}
    BY <1>6, <2>1 DEF ParsedArguments, Return
  <2>3. how # "call" /\ how # "called" /\ pc \notin {"call", "ignored"}
    BY <2>2
  <2> QED BY <2>2, <2>3, ReturnOK
<1>7. CASE Consume
  BY <1>7, ConsumeOK
<1>8. CASE AnswerUsage
  BY <1>8, SendOK DEF AnswerUsage
<1>9. CASE Respond
  <2>1. PICK r : Send(r)
    BY <1>9 DEF Respond
  <2>2. pc \notin {"call", "ignored"}
    BY <1>9 DEF Respond
  <2> QED BY <2>1, <2>2, SendOK
<1>10. CASE UNCHANGED commandVars
  <2>1. UNCHANGED <<msg, at, pc, rest, next, given>>
    BY <1>10 DEF commandVars
  <2> QED BY <2>1 DEF CommandInv, CallStateOK, WholeSoFar, NothingLeft
<1> QED BY <1>1, <1>2, <1>3, <1>4, <1>5, <1>6, <1>7, <1>8, <1>9, <1>10 DEF CommandNext
\* What respond() sends is what its docstring says, whatever it is asked for.
LEMMA SendAsDocumented ==
    ASSUME NEW H, NEW A, Declared(H, A), CommandInv(H), NEW r \in Requests, Send(r)
    PROVE  RespondsAsDocumented'
<1>1. /\ response' = [asked |-> r, sent |-> Responded(r)] /\ msg' = msg
  BY DEF Send
<1>2. PICK c : c = Responded(r)
  OBVIOUS
<1>3. response'.asked = r /\ response'.sent = c
  BY <1>1, <1>2
<1>4. /\ r.edits \in BOOLEAN /\ r.inThread \in {TRUE, FALSE, Null}
      /\ r.reply \in {"no", "yes", "force"}
  BY DEF Requests
<1>5. msg.thread \in BOOLEAN /\ msg.plain \in BOOLEAN /\ Null # TRUE /\ Null # FALSE
  BY DEF CommandInv, CallStateOK, Declared
<1>6. /\ c.edit = r.edits /\ c.thread = (~r.edits /\ InThread(r))
      /\ c.reply = (~r.edits /\ (r.reply = "force" \/ (r.reply = "yes" /\ ~msg.plain)))
      /\ c.named = (~r.edits /\ r.reply = "yes" /\ msg.plain)
  BY <1>2 DEF Responded
<1>7. ASSUME r.edits PROVE c.edit /\ ~c.thread /\ ~c.reply /\ ~c.named
  BY <1>6, <1>7, Zenon
<1>8. ASSUME ~r.edits
      PROVE  c.thread = (IF r.inThread = Null THEN msg.thread ELSE r.inThread)
  <2>1. c.thread = InThread(r)
    <3>1. (~r.edits /\ InThread(r)) = InThread(r)
      <4>1. InThread(r) \in BOOLEAN
        BY DEF InThread
      <4> QED BY <1>8, <4>1
    <3> QED BY <1>6, <3>1
  <2>2. CASE r.inThread = Null
    <3>1. InThread(r) = msg.thread
      BY <1>5, <2>2 DEF InThread
    <3> QED BY <2>1, <2>2, <3>1
  <2>3. CASE r.inThread = TRUE
    <3>1. InThread(r) = TRUE
      BY <2>3 DEF InThread
    <3> QED BY <1>5, <2>1, <2>3, <3>1
  <2>4. CASE r.inThread = FALSE
    <3>1. InThread(r) = FALSE
      BY <2>4 DEF InThread
    <3> QED BY <1>5, <2>1, <2>4, <3>1
  <2> QED BY <1>4, <2>2, <2>3, <2>4
<1>9. ASSUME ~r.edits PROVE (c.reply \/ c.named) = (r.reply # "no")
  <2>1. CASE r.reply = "no"
    BY <1>6, <1>9, <2>1
  <2>2. CASE r.reply = "force"
    BY <1>6, <1>9, <2>2
  <2>3. CASE r.reply = "yes"
    BY <1>5, <1>6, <1>9, <2>3
  <2> QED BY <1>4, <2>1, <2>2, <2>3
<1> QED BY <1>1, <1>3, <1>7, <1>8, <1>9 DEF RespondsAsDocumented

-----------------------------------------------------------------------------
(* Theorems                                                                *)

\* The inductive invariant of a message on its way through the handlers.
THEOREM CommandsInvariant ==
    ASSUME NEW H, NEW A, Declared(H, A)
    PROVE  CommandSpec => []CommandInv(H)
<1>1. CommandInit => CommandInv(H)
  BY CommandStarts
<1>2. CommandInv(H) /\ [CommandNext]_commandVars => CommandInv(H)'
  BY CommandStep
<1> QED BY <1>1, <1>2, PTL DEF CommandSpec

\* Whatever handlers a plugin declares and whatever the message, a function that
\* is called is given the whole message, if the arguments of its handlers take
\* whole words, refuse what is left and do not overwrite each other: the invariant
\* says that what was given and what is left make the message, and that nothing
\* is left.
THEOREM CommandsWholeMessage ==
    ASSUME NEW H, NEW A, Declared(H, A)
    PROVE  CommandSpec => []WholeMessage
<1>1. ASSUME CommandInv(H) PROVE WholeMessage
  <2> SUFFICES ASSUME pc = "called", Strict
               PROVE  Said(given) = LowerFirst(Words(Tail(msg.body)))
    BY DEF WholeMessage, Said, Of, LowerFirst
  <2>1. StrictIn(given)
    BY DEF Strict, StrictIn
  <2>2. Words(rest) = <<>> /\ Said(given) \o Words(rest) = LowerFirst(Words(Tail(msg.body)))
    BY <1>1, <2>1 DEF CommandInv, WholeSoFar, NothingLeft
  <2>3. Said(given) \in Seq(AllTexts)
    BY <1>1, PartsType DEF CommandInv, CallStateOK
  <2>4. Said(given) \o <<>> = Said(given)
    BY <2>3, ConcatEmptySeq
  <2> QED BY <2>2, <2>4
<1> QED BY <1>1, CommandsInvariant, PTL

\* Whatever handlers a plugin declares and whatever the message, each value a
\* function is called with belongs to the argument at its place.
THEOREM CommandsValuesFit ==
    ASSUME NEW H, NEW A, Declared(H, A)
    PROVE  CommandSpec => []ValuesFit
<1>1. ASSUME CommandInv(H) PROVE ValuesFit
  BY <1>1 DEF CommandInv, CallStateOK, FitIn, EntryFits, Fits, ValuesFit
<1> QED BY <1>1, CommandsInvariant, PTL

\* For every message and every request, respond() sends what its docstring says.
THEOREM CommandsRespond ==
    ASSUME NEW H, NEW A, Declared(H, A)
    PROVE  CommandSpec => []RespondsAsDocumented
<1>1. CommandInit => RespondsAsDocumented
  BY DEF CommandInit, RespondsAsDocumented
<1>2. ASSUME CommandInv(H), RespondsAsDocumented, [CommandNext]_commandVars PROVE RespondsAsDocumented'
  <2>1. CASE UNCHANGED <<msg, response>>
    BY <1>2, <2>1 DEF RespondsAsDocumented
  <2>2. ASSUME NEW r \in Requests, Send(r) PROVE RespondsAsDocumented'
    BY <1>2, <2>2, SendAsDocumented
  <2>3. Reply \in Requests /\ Edit \in Requests
    BY DEF Reply, Edit, Requests
  <2>4. CASE AnswerUsage
    BY <2>2, <2>3, <2>4 DEF AnswerUsage
  <2>5. CASE Respond
    BY <2>2, <2>3, <2>5 DEF Respond
  <2>6. [CommandNext]_commandVars => AnswerUsage \/ Respond \/ UNCHANGED <<msg, response>>
    BY DEF CommandNext, commandVars, Ignore, Command, CallSubcommand, NoSubcommand, ParseArgument,
           ParsedArguments, Consume, Return
  <2> QED BY <1>2, <2>1, <2>4, <2>5, <2>6
<1>3. CommandInv(H) /\ RespondsAsDocumented /\ [CommandNext]_commandVars => RespondsAsDocumented'
  BY <1>2
<1> QED BY <1>1, <1>3, CommandsInvariant, PTL DEF CommandSpec
=============================================================================

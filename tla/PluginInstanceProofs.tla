------------------------ MODULE PluginInstanceProofs ------------------------
(***************************************************************************)
(* Proofs about PluginInstance for every set of tasks, users, plugins and  *)
(* meta flags and every bound: typing, and the agreement of links and      *)
(* references under arbitrary overlap of calls; and, for calls that do not *)
(* overlap, the wiring of the running plugin, what stop() and the          *)
(* switches leave behind, the row, and the refinement of InstanceLife.     *)
(***************************************************************************)
EXTENDS PluginInstance, TLAPS

\* Labels at which the frame names the object the coroutine works on, those
\* of load(), and those between the link to the loader and the constructor of
\* the plugin.
ObjLabels == {"mkdb", "dbstart", "mkplugin", "prestart", "pluginstart",
              "prestop", "pluginstop", "dbstop", "dropdbstop", "dropdb"}
LoadLabels == {"load", "getclient", "reference"}
LinkedLabels == {"getclient", "reference", "loaded", "mkdb", "dbstart",
                 "mkplugin"}

\* Labels at which a frame holds more than its label and object say.
SpecialLabels == {"save", "switchuser", "switchtype", "reload", "getuser",
                  "loaded"} \cup LoadLabels

\* What a frame holds at each label.
FrameOK(f) ==
    /\ f.pc = "save" => f.snap \in Columns
    /\ f.ret = "mkdb" => f.pc = "save" /\ f.obj \in Attempts
    /\ f.ret = "loaded" => f.pc \in LoadLabels
    /\ f.pc \in LoadLabels => f.ret \in {"idle", "loaded"}
    /\ f.pc \in {"getclient", "getuser"} => f.arg \in Users
    /\ f.pc = "switchuser" \/ f.ret = "switchuser" => f.arg \in Users
    /\ f.pc = "switchtype" \/ f.ret = "switchtype" => f.arg \in Types
    /\ f.pc = "reload" \/ f.ret = "reload" => f.arg \in Reloads
    /\ f.pc \in ObjLabels => f.obj \in Attempts

FramesOK ==
    /\ frame \in [Tasks -> Frames]
    /\ \A t \in Tasks : FrameOK(frame[t])

\* From the link in load() to the constructor there is a loader, and where
\* load() adds its references there is a client.
Linked ==
    /\ \A t \in Tasks : frame[t].ret = "mkdb" \/ frame[t].pc \in LinkedLabels
                            => loader # Null
    /\ \A t \in Tasks : frame[t].pc = "reference" => client # Null

\* No step takes the link to the loader away, nor the one to the client while
\* load() is about to add its reference.
LinksKept ==
    /\ loader # Null => loader' # Null
    /\ \/ client # Null => client' # Null
       \/ \A s \in Tasks : frame[s].pc # "reference"

\* The part of TypeOK that is not about the frames.
StateOK ==
    /\ col \in Columns
    /\ row \in Columns \cup {Null}
    /\ deleted \in BOOLEAN /\ started \in BOOLEAN
    /\ webapp \in BOOLEAN /\ unsaved \in BOOLEAN
    /\ client \in Users \cup {Null}
    /\ loader \in Types \cup {Null}
    /\ plugin \in 0..MaxStarts
    /\ inst_db \in 0..MaxStarts
    /\ clientRefs \in SUBSET Users
    /\ loaderRefs \in SUBSET Types
    /\ lapses \in SUBSET Lapses
    /\ plugins \in [Types -> {"absent", "installed", "deleted"}]
    /\ meta \in [Types -> Metas]
    /\ attempts \in 0..MaxStarts
    /\ built \in [Attempts -> Built \cup {Null}]
    /\ registered \in SUBSET Attempts /\ routes \in SUBSET Attempts
    /\ open \in SUBSET Attempts /\ faulty \in SUBSET Attempts

\* The inductive invariant of typing.
IInv == StateOK /\ FramesOK /\ Linked

\* The invariant contains the type invariant that TLC checks.
LEMMA IInvTypes == IInv => TypeOK
BY DEF IInv, StateOK, FramesOK, TypeOK

\* The frame of an idle task.
LEMMA NoFrameTyped == NoFrame \in Frames /\ FrameOK(NoFrame)
BY MaxStartsAssumption
   DEF NoFrame, Frames, FrameOK, ObjLabels, LoadLabels

\* postinit() establishes the invariant.
LEMMA InitIInv == Init => IInv
<1> SUFFICES ASSUME Init PROVE IInv
  OBVIOUS
<1>1. Null \in Built \cup {Null} /\ 0 \in 0..MaxStarts
  BY MaxStartsAssumption
<1>2. FramesOK
  BY NoFrameTyped DEF Init, FramesOK
<1>3. built \in [Attempts -> Built \cup {Null}]
  BY <1>1 DEF Init
<1>4. StateOK
  BY <1>1, <1>3 DEF Init, StateOK
<1>5. Linked
  BY DEF Init, Linked, NoFrame, LinkedLabels
<1> QED
  BY <1>2, <1>4, <1>5 DEF IInv

-----------------------------------------------------------------------------
(* Each way a step moves a coroutine keeps the frames in order             *)

\* Replacing one frame by a good one keeps all frames good.
LEMMA Replaced ==
    ASSUME FramesOK, Linked, LinksKept, NEW t \in Tasks, NEW f \in Frames,
           FrameOK(f), frame' = [frame EXCEPT ![t] = f],
           f.ret = "mkdb" \/ f.pc \in LinkedLabels => loader' # Null,
           f.pc = "reference" => client' # Null
    PROVE  FramesOK' /\ Linked'
<1>1. /\ frame' \in [Tasks -> Frames]
      /\ \A s \in Tasks : frame'[s] = IF s = t THEN f ELSE frame[s]
  BY DEF FramesOK
<1>2. \A s \in Tasks : FrameOK(frame'[s])
  BY <1>1, Zenon DEF FramesOK
<1>3. Linked'
  BY <1>1 DEF Linked, LinksKept
<1> QED
  BY <1>1, <1>2, <1>3 DEF FramesOK, FrameOK

\* The coroutine ends.
LEMMA Finished ==
    ASSUME FramesOK, Linked, LinksKept, NEW t \in Tasks, Finish(t)
    PROVE  FramesOK' /\ Linked'
BY NoFrameTyped, Replaced DEF Finish, NoFrame, LinkedLabels

\* A coroutine begins.
LEMMA Begun ==
    ASSUME FramesOK, Linked, LinksKept, NEW t \in Tasks,
           NEW l \in {"load", "start", "stop", "drop", "reload", "notify",
                      "getuser"},
           NEW r \in {"idle", "switchuser", "switchtype", "drop", "reload"},
           NEW a \in Users \cup Types \cup Reloads \cup {Null},
           l = "load" => r = "idle",
           l = "getuser" \/ r = "switchuser" => a \in Users,
           r = "switchtype" => a \in Types,
           l = "reload" \/ r = "reload" => a \in Reloads,
           Begin(t, l, r, a)
    PROVE  FramesOK' /\ Linked'
<1> DEFINE f == [NoFrame EXCEPT !.pc = l, !.ret = r, !.arg = a]
<1>1. f \in Frames /\ f.pc = l /\ f.ret = r /\ f.arg = a
  BY NoFrameTyped DEF Frames, NoFrame, Hot, Await
<1>2. FrameOK(f)
  BY <1>1 DEF FrameOK, ObjLabels, LoadLabels
<1> QED
  BY <1>1, <1>2, Replaced DEF Begin, LinkedLabels

\* A coroutine moves to the label l, about the object n.
LEMMA Moved ==
    ASSUME FramesOK, Linked, LinksKept, NEW t \in Tasks,
           NEW l \in (Hot \cup Await) \ SpecialLabels,
           NEW n \in 0..MaxStarts,
           l \in ObjLabels => n \in Attempts,
           l \in LinkedLabels => loader' # Null,
           frame[t].pc \notin LoadLabels \cup {"save"},
           GotoWith(t, l, n)
    PROVE  FramesOK' /\ Linked'
<1> DEFINE f == [frame[t] EXCEPT !.pc = l, !.obj = n]
<1>1. frame[t] \in Frames /\ FrameOK(frame[t])
  BY DEF FramesOK
<1>2. /\ f \in Frames /\ f.pc = l /\ f.obj = n /\ f.ret = frame[t].ret
      /\ f.arg = frame[t].arg
  BY <1>1 DEF Frames
<1>3. FrameOK(f) /\ f.ret # "mkdb"
  BY <1>1, <1>2 DEF FrameOK, SpecialLabels, LoadLabels
<1>4. frame' = [frame EXCEPT ![t] = f]
  BY DEF GotoWith
<1> QED
  BY <1>2, <1>3, <1>4, Replaced DEF SpecialLabels, LoadLabels

\* A coroutine starts to save columns c.
LEMMA Saving ==
    ASSUME FramesOK, Linked, LinksKept, NEW t \in Tasks,
           NEW c \in Columns, NEW r \in {"idle", "start"},
           Save(t, c, r)
    PROVE  FramesOK' /\ Linked'
<1> DEFINE f == [frame[t] EXCEPT !.pc = "save", !.ret = r, !.snap = c]
<1>1. frame[t] \in Frames
  BY DEF FramesOK
<1>2. f \in Frames /\ f.pc = "save" /\ f.ret = r /\ f.snap = c
  BY <1>1 DEF Frames, Await
<1>3. FrameOK(f)
  BY <1>2 DEF FrameOK, ObjLabels, LoadLabels
<1>4. frame' = [frame EXCEPT ![t] = f]
  BY DEF Save
<1> QED
  BY <1>2, <1>3, <1>4, Replaced DEF LinkedLabels

\* A coroutine returns to its caller.
LEMMA Returned ==
    ASSUME FramesOK, Linked, LinksKept, NEW t \in Tasks,
           frame[t].pc # "save", frame[t].ret = "loaded" => loader' # Null,
           Return(t)
    PROVE  FramesOK' /\ Linked'
<1>1. frame[t] \in Frames /\ FrameOK(frame[t])
  BY DEF FramesOK
<1>2. CASE frame[t].ret = "idle"
  BY <1>2, Finished DEF Return, Finish
<1>3. CASE frame[t].ret # "idle"
  <2> DEFINE f == [frame[t] EXCEPT !.pc = frame[t].ret, !.ret = "idle",
                                   !.obj = 0]
  <2>1. frame[t].ret \in {"start", "loaded", "switchuser", "switchtype", "drop",
                          "reload"}
    BY <1>1, <1>3 DEF FrameOK, Frames
  <2>2. /\ f \in Frames /\ f.pc = frame[t].ret /\ f.ret = "idle"
        /\ f.arg = frame[t].arg
    <3>1. frame[t].ret \in Hot \cup Await \cup {"idle"} /\ 0 \in 0..MaxStarts
      BY <2>1, MaxStartsAssumption DEF Hot
    <3> QED
      BY <1>1, <3>1 DEF Frames
  <2>3. FrameOK(f)
    BY <1>1, <2>1, <2>2 DEF FrameOK, ObjLabels, LoadLabels
  <2>4. frame' = [frame EXCEPT ![t] = f]
    BY <1>3 DEF Return
  <2> QED
    BY <2>1, <2>2, <2>3, <2>4, Replaced DEF LinkedLabels
<1> QED
  BY <1>2, <1>3

\* A coroutine moves on with the object it has.
LEMMA MovedOn ==
    ASSUME FramesOK, Linked, LinksKept, NEW t \in Tasks,
           NEW l \in (Hot \cup Await) \ SpecialLabels,
           l \in ObjLabels => frame[t].obj \in Attempts,
           l \in LinkedLabels => loader' # Null,
           frame[t].pc \notin LoadLabels \cup {"save"},
           Goto(t, l)
    PROVE  FramesOK' /\ Linked'
<1>1. frame[t] \in Frames
  BY DEF FramesOK
<1>2. frame[t].obj \in 0..MaxStarts
  BY <1>1 DEF Frames
<1>3. [frame[t] EXCEPT !.pc = l, !.obj = frame[t].obj]
        = [frame[t] EXCEPT !.pc = l]
  BY <1>1 DEF Frames
<1>4. GotoWith(t, l, frame[t].obj)
  BY <1>3 DEF Goto, GotoWith
<1> QED
  BY <1>2, <1>4, Moved

\* update_enabled(False).
LEMMA Disabled ==
    ASSUME FramesOK, Linked, LinksKept, NEW t \in Tasks, col \in Columns,
           Disable(t)
    PROVE  FramesOK' /\ Linked' /\ col' \in Columns
<1>1. CASE col.enabled
  <2>1. [col EXCEPT !.enabled = FALSE] \in Columns
    BY DEF Columns
  <2> QED
    BY <1>1, <2>1, Saving DEF Disable, Save
<1>2. CASE ~col.enabled
  BY <1>2, Finished DEF Disable
<1> QED
  BY <1>1, <1>2

-----------------------------------------------------------------------------
(* Every step keeps the invariant                                          *)

\* A step that moves only a frame.
LEMMA OnlyFrames ==
    ASSUME StateOK, UNCHANGED <<columns, links, runtime, web, objects, server>>
    PROVE  StateOK' /\ LinksKept
BY DEF StateOK, LinksKept, columns, links, runtime, web, objects, server

\* One step per action: state first, then the frame that moved.
LEMMA StepIInv == IInv /\ [Next]_vars => IInv'
<1> SUFFICES ASSUME IInv, [Next]_vars PROVE IInv'
  OBVIOUS
<1> USE DEF IInv
<1>0. /\ StateOK /\ FramesOK /\ Linked
      /\ \A t \in Tasks : frame[t] \in Frames /\ FrameOK(frame[t])
  BY DEF FramesOK
<1>1. ASSUME NEW t \in Tasks, CallLoad(t) PROVE IInv'
  <2>1. StateOK' /\ LinksKept
    BY <1>1, OnlyFrames DEF CallLoad
  <2> QED
    BY <1>0, <1>1, <2>1, Begun DEF CallLoad
<1>2. ASSUME NEW t \in Tasks, CallStart(t) PROVE IInv'
  <2>1. StateOK' /\ LinksKept
    BY <1>2, OnlyFrames DEF CallStart
  <2> QED
    BY <1>0, <1>2, <2>1, Begun DEF CallStart
<1>3. ASSUME NEW t \in Tasks, CallStop(t) PROVE IInv'
  <2>1. StateOK' /\ LinksKept
    BY <1>3, OnlyFrames DEF CallStop
  <2> QED
    BY <1>0, <1>3, <2>1, Begun DEF CallStop
<1>4. ASSUME NEW t \in Tasks, DeleteInstance(t) PROVE IInv'
  <2>1. StateOK' /\ LinksKept
    BY <1>4, OnlyFrames DEF DeleteInstance
  <2> QED
    BY <1>0, <1>4, <2>1, Begun DEF DeleteInstance
<1>5. ASSUME NEW t \in Tasks, NEW u \in Users, UpdatePrimaryUser(t, u) PROVE IInv'
  <2>1. StateOK' /\ LinksKept
    BY <1>5, OnlyFrames DEF UpdatePrimaryUser
  <2> QED
    BY <1>0, <1>5, <2>1, Begun DEF UpdatePrimaryUser
<1>6. ASSUME NEW t \in Tasks, NEW ty \in Types, UpdateType(t, ty) PROVE IInv'
  <2>1. StateOK' /\ LinksKept
    BY <1>6, OnlyFrames DEF UpdateType
  <2> QED
    BY <1>0, <1>6, <2>1, Begun DEF UpdateType
<1>7. ASSUME NEW t \in Tasks, NEW ty \in Types, NEW m \in Metas, ReloadPlugin(t, ty, m) PROVE IInv'
  <2>1. StateOK' /\ LinksKept
    BY <1>7, OnlyFrames DEF ReloadPlugin
  <2> QED
    BY <1>0, <1>7, <2>1, Begun DEF ReloadPlugin, Reloads
<1>8. ASSUME NEW t \in Tasks, StartIgnored(t) PROVE IInv'
  <2>1. StateOK' /\ LinksKept
    BY <1>8, OnlyFrames DEF StartIgnored
  <2> QED
    BY <1>0, <1>8, <2>1, Finished DEF StartIgnored
<1>9. ASSUME NEW t \in Tasks, LoaderRaises(t) PROVE IInv'
  <2>1. StateOK' /\ LinksKept
    BY <1>9, OnlyFrames DEF LoaderRaises
  <2> QED
    BY <1>0, <1>9, <2>1, Finished DEF LoaderRaises
<1>10. ASSUME NEW t \in Tasks, StopIgnored(t) PROVE IInv'
  <2>1. StateOK' /\ LinksKept
    BY <1>10, OnlyFrames DEF StopIgnored
  <2> QED
    BY <1>0, <1>10, <2>1, Returned DEF StopIgnored, Runs, FrameOK, LoadLabels
<1>11. ASSUME NEW t \in Tasks, PluginStopped(t) PROVE IInv'
  <2>1. StateOK' /\ LinksKept
    BY <1>11, OnlyFrames DEF PluginStopped
  <2> QED
    BY <1>0, <1>11, <2>1, MovedOn DEF PluginStopped, Runs, Hot, Await,
       SpecialLabels, LoadLabels, ObjLabels, LinkedLabels, FrameOK, Linked
<1>12. ASSUME NEW t \in Tasks, MakeDb(t) PROVE IInv'
  <2>1. StateOK' /\ LinksKept
    BY <1>0, <1>12 DEF MakeDb, StateOK, LinksKept, FrameOK, ObjLabels,
       Attempts, Runs, columns, links, runtime, web, objects, server
  <2>2. /\ loader # Null /\ frame[t].obj \in Attempts
        /\ frame[t].pc \notin LoadLabels \cup {"save"}
    BY <1>0, <1>12 DEF MakeDb, Runs, Linked, LinkedLabels, FrameOK, ObjLabels,
       LoadLabels
  <2>3. loader' # Null
    BY <2>1, <2>2 DEF LinksKept
  <2> QED
    BY <1>0, <1>12, <2>1, <2>2, <2>3, MovedOn DEF MakeDb, Hot, Await,
       SpecialLabels, LoadLabels
<1>13. ASSUME NEW t \in Tasks, DbStarted(t) PROVE IInv'
  <2>1. StateOK' /\ LinksKept
    BY <1>0, <1>13 DEF DbStarted, StateOK, LinksKept, FrameOK, ObjLabels,
       Attempts, Runs, columns, links, runtime, web, objects, server
  <2>2. /\ loader # Null /\ frame[t].obj \in Attempts
        /\ frame[t].pc \notin LoadLabels \cup {"save"}
    BY <1>0, <1>13 DEF DbStarted, Runs, Linked, LinkedLabels, FrameOK, ObjLabels,
       LoadLabels
  <2>3. loader' # Null
    BY <2>1, <2>2 DEF LinksKept
  <2> QED
    BY <1>0, <1>13, <2>1, <2>2, <2>3, MovedOn DEF DbStarted, Hot, Await,
       SpecialLabels, LoadLabels
<1>14. ASSUME NEW t \in Tasks, PreStarted(t) PROVE IInv'
  <2>1. StateOK' /\ LinksKept
    BY <1>14, <1>0 DEF PreStarted, StateOK, LinksKept, FrameOK, ObjLabels,
       Attempts, Runs, columns, links, runtime, web, objects, server
  <2> QED
    BY <1>0, <1>14, <2>1, MovedOn DEF PreStarted, Runs, Hot, Await,
       SpecialLabels, LoadLabels, ObjLabels, LinkedLabels, FrameOK, Linked
<1>15. ASSUME NEW t \in Tasks, PreStopped(t) PROVE IInv'
  <2>1. StateOK' /\ LinksKept
    BY <1>15, <1>0 DEF PreStopped, StateOK, LinksKept, FrameOK, ObjLabels,
       Attempts, Runs, columns, links, runtime, web, objects, server
  <2> QED
    BY <1>0, <1>15, <2>1, MovedOn DEF PreStopped, Runs, Hot, Await,
       SpecialLabels, LoadLabels, ObjLabels, LinkedLabels, FrameOK, Linked
<1>16. ASSUME NEW t \in Tasks, PreStopRaises(t) PROVE IInv'
  <2>1. StateOK' /\ LinksKept
    BY <1>16, <1>0 DEF PreStopRaises, StateOK, LinksKept, FrameOK, ObjLabels,
       Attempts, Runs, columns, links, runtime, web, objects, server
  <2> QED
    BY <1>0, <1>16, <2>1, MovedOn DEF PreStopRaises, Runs, Hot, Await,
       SpecialLabels, LoadLabels, ObjLabels, LinkedLabels, FrameOK, Linked
<1>17. ASSUME NEW t \in Tasks, DropDbStopped(t) PROVE IInv'
  <2>1. StateOK' /\ LinksKept
    BY <1>17, <1>0 DEF DropDbStopped, StateOK, LinksKept, FrameOK, ObjLabels,
       Attempts, Runs, columns, links, runtime, web, objects, server
  <2> QED
    BY <1>0, <1>17, <2>1, MovedOn DEF DropDbStopped, Runs, Hot, Await,
       SpecialLabels, LoadLabels, ObjLabels, LinkedLabels, FrameOK, Linked
<1>18. ASSUME NEW t \in Tasks, MakePluginRaises(t) PROVE IInv'
  <2>1. StateOK' /\ LinksKept
    BY <1>18, <1>0 DEF MakePluginRaises, StateOK, LinksKept, FrameOK,
       ObjLabels, Attempts, Runs, columns, links, runtime, web, objects, server
  <2> QED
    BY <1>0, <1>18, <2>1, Finished DEF MakePluginRaises
<1>19. ASSUME NEW t \in Tasks, PluginStarted(t) PROVE IInv'
  <2>1. StateOK' /\ LinksKept
    BY <1>19, <1>0 DEF PluginStarted, StateOK, LinksKept, FrameOK, ObjLabels,
       Attempts, Runs, columns, links, runtime, web, objects, server
  <2> QED
    BY <1>0, <1>19, <2>1, Finished DEF PluginStarted
<1>20. ASSUME NEW t \in Tasks, NotifyRaises(t) PROVE IInv'
  <2>1. StateOK' /\ LinksKept
    BY <1>20, <1>0 DEF NotifyRaises, StateOK, LinksKept, FrameOK, ObjLabels,
       Attempts, Runs, columns, links, runtime, web, objects, server
  <2> QED
    BY <1>0, <1>20, <2>1, Finished DEF NotifyRaises
<1>21. ASSUME NEW t \in Tasks, DbDeleted(t) PROVE IInv'
  <2>1. 0 \in 0..MaxStarts
    BY MaxStartsAssumption
  <2>2. StateOK' /\ LinksKept
    BY <1>0, <1>21, <2>1 DEF DbDeleted, StateOK, LinksKept, columns, links,
       objects, server
  <2> QED
    BY <1>0, <1>21, <2>2, Finished DEF DbDeleted
<1>22. ASSUME NEW t \in Tasks, DropRaises(t) PROVE IInv'
  <2>1. StateOK' /\ LinksKept
    BY <1>22, <1>0 DEF DropRaises, StateOK, LinksKept, FrameOK, ObjLabels,
       Attempts, Runs, columns, links, runtime, web, objects, server
  <2> QED
    BY <1>0, <1>22, <2>1, Finished DEF DropRaises
<1>23. ASSUME NEW t \in Tasks, DbStopped(t) PROVE IInv'
  <2>1. StateOK' /\ LinksKept
    BY <1>23, <1>0 DEF DbStopped, StateOK, LinksKept, FrameOK, ObjLabels,
       Attempts, Runs, columns, links, runtime, web, objects, server
  <2> QED
    BY <1>0, <1>23, <2>1, Returned DEF DbStopped, Runs, FrameOK, LoadLabels
<1>24. ASSUME NEW t \in Tasks, DbStopRaises(t) PROVE IInv'
  <2>1. StateOK' /\ LinksKept
    BY <1>24, <1>0 DEF DbStopRaises, StateOK, LinksKept, FrameOK, ObjLabels,
       Attempts, Runs, columns, links, runtime, web, objects, server
  <2> QED
    BY <1>0, <1>24, <2>1, Returned DEF DbStopRaises, Runs, FrameOK, LoadLabels
<1>25. ASSUME NEW t \in Tasks, ReloadFails(t) PROVE IInv'
  <2>1. frame[t].arg \in Reloads
    BY <1>0, <1>25 DEF ReloadFails, Runs, FrameOK
  <2>2. meta' \in [Types -> Metas] /\ lapses' \in SUBSET Lapses
    BY <1>0, <1>25, <2>1 DEF ReloadFails, NewMeta, StateOK, Reloads, Lapses
  <2>3. StateOK' /\ LinksKept
    BY <1>0, <1>25, <2>2
       DEF ReloadFails, StateOK, LinksKept, columns, runtime, web, objects
  <2> QED
    BY <1>0, <1>25, <2>3, Finished DEF ReloadFails
<1>26. ASSUME NEW t \in Tasks, Reloaded(t) PROVE IInv'
  <2>1. frame[t].arg \in Reloads
    BY <1>0, <1>26 DEF Reloaded, Runs, FrameOK
  <2>2. meta' \in [Types -> Metas] /\ lapses' \in SUBSET Lapses
    BY <1>0, <1>26, <2>1 DEF Reloaded, NewMeta, StateOK, Reloads, Lapses
  <2>3. StateOK' /\ LinksKept
    BY <1>0, <1>26, <2>2
       DEF Reloaded, StateOK, LinksKept, columns, runtime, web, objects
  <2> QED
    BY <1>0, <1>26, <2>3, Finished, Begun DEF Reloaded
<1>27. ASSUME NEW ty \in Types, DeletePlugin(ty) PROVE IInv'
  <2>1. StateOK' /\ LinksKept
    BY <1>0, <1>27 DEF DeletePlugin, StateOK, LinksKept, columns, links,
       runtime, web, objects
  <2> QED
    BY <1>0, <1>27, <2>1 DEF DeletePlugin, FramesOK, Linked, LinksKept
<1>28. ASSUME NEW ty \in Types, NEW m \in Metas, UploadNew(ty, m) PROVE IInv'
  <2>1. StateOK' /\ LinksKept
    BY <1>0, <1>28 DEF UploadNew, StateOK, LinksKept, columns, links, runtime,
       web, objects
  <2> QED
    BY <1>0, <1>28, <2>1 DEF UploadNew, FramesOK, Linked, LinksKept
<1>29. ASSUME NEW t \in Tasks, DbFailed(t) PROVE IInv'
  <2>1. LinksKept /\ col \in Columns /\ Disable(t)
    BY <1>0, <1>29 DEF DbFailed, LinksKept, StateOK, links
  <2>2. FramesOK' /\ Linked' /\ col' \in Columns
    BY <1>0, <2>1, Disabled
  <2>3. StateOK'
    BY <1>0, <1>29, <2>2
       DEF DbFailed, StateOK, FrameOK, ObjLabels, Runs, links, runtime, web,
       objects, server
  <2> QED
    BY <2>2, <2>3
<1>30. ASSUME NEW t \in Tasks, PluginStartRaises(t) PROVE IInv'
  <2>1. LinksKept /\ col \in Columns /\ Disable(t)
    BY <1>0, <1>30 DEF PluginStartRaises, LinksKept, StateOK, links
  <2>2. FramesOK' /\ Linked' /\ col' \in Columns
    BY <1>0, <2>1, Disabled
  <2>3. StateOK'
    BY <1>0, <1>30, <2>2
       DEF PluginStartRaises, StateOK, FrameOK, ObjLabels, Runs, links,
       runtime, web, objects, server
  <2> QED
    BY <2>2, <2>3
<1>31. ASSUME NEW t \in Tasks, NEW b \in BOOLEAN, UpdateEnabled(t, b) PROVE IInv'
  <2> DEFINE new == [col EXCEPT !.enabled = b]
  <2>1. new \in Columns
    BY <1>0, <1>31 DEF StateOK, Columns
  <2>2. StateOK' /\ LinksKept
    BY <1>0, <1>31, <2>1 DEF UpdateEnabled, Save, StateOK, LinksKept, links,
       runtime, web, objects, server
  <2> QED
    BY <1>0, <1>31, <2>1, <2>2, Saving DEF UpdateEnabled
<1>32. ASSUME NEW t \in Tasks, NEW c \in Configs, SaveConfig(t, c) PROVE IInv'
  <2> DEFINE new == [col EXCEPT !.config = c]
  <2>1. new \in Columns
    BY <1>0, <1>32 DEF StateOK, Columns
  <2>2. StateOK' /\ LinksKept
    BY <1>0, <1>32, <2>1 DEF SaveConfig, Save, StateOK, LinksKept, links,
       runtime, web, objects, server
  <2> QED
    BY <1>0, <1>32, <2>1, <2>2, Saving DEF SaveConfig
<1>33. ASSUME NEW t \in Tasks, NEW c \in Configs, UpdateConfig(t, c) PROVE IInv'
  <2> DEFINE new == [col EXCEPT !.config = c]
  <2>1. new \in Columns
    BY <1>0 DEF StateOK, Columns
  <2>2. StateOK' /\ LinksKept
    BY <1>0, <1>33, <2>1
       DEF UpdateConfig, Save, StateOK, LinksKept, links, runtime, web,
       objects, server
  <2> QED
    BY <1>0, <1>33, <2>1, <2>2, Saving, Begun DEF UpdateConfig
<1>34. ASSUME NEW t \in Tasks, Notified(t) PROVE IInv'
  <2>1. StateOK' /\ LinksKept /\ col \in Columns
    BY <1>0, <1>34 DEF Notified, Save, StateOK, LinksKept, links, runtime,
       web, objects, server
  <2> QED
    BY <1>0, <1>34, <2>1, Saving DEF Notified
<1>35. ASSUME NEW t \in Tasks, Saved(t) PROVE IInv'
  <2>1. frame[t].snap \in Columns
    BY <1>0, <1>35 DEF Saved, Runs, FrameOK
  <2>2. StateOK' /\ LinksKept
    BY <1>0, <1>35, <2>1 DEF Saved, StateOK, LinksKept, links, runtime, web,
       objects, server
  <2>3. CASE frame[t].ret = "idle"
    BY <1>0, <1>35, <2>2, <2>3, Finished DEF Saved, Finish
  <2>4. CASE frame[t].ret # "idle"
    <3> DEFINE f == [frame[t] EXCEPT !.pc = frame[t].ret, !.ret = "idle",
                                     !.snap = Null]
    <3>1. frame[t].ret \in Hot \cup Await \cup {"idle"}
      BY <1>0 DEF Frames, Hot
    <3>2. /\ f \in Frames /\ f.pc = frame[t].ret /\ f.ret = "idle"
          /\ f.arg = frame[t].arg /\ f.obj = frame[t].obj
      BY <1>0, <3>1 DEF Frames
    <3>3. frame[t].ret \in {"start", "mkdb", "switchuser", "switchtype", "drop",
                            "reload"}
      BY <1>0, <1>35, <2>4 DEF Frames, FrameOK, LoadLabels, Saved, Runs
    <3>4. FrameOK(f)
      BY <1>0, <3>2, <3>3 DEF FrameOK, ObjLabels, LoadLabels
    <3>5. f.ret = "mkdb" \/ f.pc \in LinkedLabels => loader' # Null
      BY <1>0, <3>2, <3>3, <2>2 DEF Linked, LinkedLabels, LinksKept
    <3>6. frame' = [frame EXCEPT ![t] = f]
      BY <1>35, <2>4 DEF Saved
    <3> QED
      BY <1>0, <2>2, <3>2, <3>3, <3>4, <3>5, <3>6, Replaced
  <2> QED
    BY <2>3, <2>4
<1>36. ASSUME NEW t \in Tasks, Load(t) PROVE IInv'
  <2>1. /\ frame[t].pc = "load" /\ frame[t].ret \in {"idle", "loaded"}
        /\ col.primary_user \in Users
    BY <1>0, <1>36 DEF Load, Runs, FrameOK, LoadLabels, StateOK, Columns
  <2>2. loader' \in Types /\ loader' # Null
    BY <1>0, <1>36, NullAssumption DEF Load, StateOK, Columns
  <2>3. StateOK' /\ LinksKept
    BY <1>0, <1>36, <2>2 DEF Load, StateOK, LinksKept, columns, runtime, web,
       objects, server
  <2> DEFINE l == IF client = Null THEN "getclient" ELSE "reference"
             f == [frame[t] EXCEPT !.pc = l, !.arg = col.primary_user]
  <2>4. /\ f \in Frames /\ f.pc = l /\ f.ret = frame[t].ret
        /\ f.arg = col.primary_user
    BY <1>0, <2>1 DEF Frames, Hot, Await
  <2>5. FrameOK(f)
    BY <2>1, <2>4 DEF FrameOK, ObjLabels, LoadLabels
  <2>6. frame' = [frame EXCEPT ![t] = f] /\ client' = client
    BY <1>36 DEF Load
  <2>7. f.pc = "reference" => client' # Null
    BY <2>4, <2>6
  <2> QED
    BY <1>0, <2>2, <2>3, <2>4, <2>5, <2>6, <2>7, Replaced
<1>37. ASSUME NEW t \in Tasks, LoadMissing(t) PROVE IInv'
  <2>1. LinksKept /\ col \in Columns
    BY <1>0, <1>37 DEF LoadMissing, LinksKept, StateOK, links
  <2>2. FramesOK' /\ Linked' /\ col' \in Columns
    BY <1>0, <1>37, <2>1, Disabled DEF LoadMissing
  <2>3. StateOK'
    BY <1>0, <1>37, <2>2 DEF LoadMissing, StateOK, links, runtime, web,
       objects, server
  <2> QED
    BY <2>2, <2>3
<1>38. ASSUME NEW t \in Tasks, StartLoads(t) PROVE IInv'
  <2>1. StateOK' /\ LinksKept
    BY <1>0, <1>38, OnlyFrames DEF StartLoads
  <2> DEFINE f == [frame[t] EXCEPT !.pc = "load", !.ret = "loaded"]
  <2>2. f \in Frames /\ f.pc = "load" /\ f.ret = "loaded"
    BY <1>0 DEF Frames, Hot
  <2>3. FrameOK(f)
    BY <2>2 DEF FrameOK, ObjLabels, LoadLabels
  <2>4. frame' = [frame EXCEPT ![t] = f]
    BY <1>38 DEF StartLoads
  <2> QED
    BY <1>0, <2>1, <2>2, <2>3, <2>4, Replaced DEF LinkedLabels
<1>39. ASSUME NEW t \in Tasks, Start(t) PROVE IInv'
  <2>1. /\ attempts + 1 \in Attempts /\ attempts + 1 \in 0..MaxStarts
        /\ attempts' = attempts + 1
    BY <1>0, <1>39, MaxStartsAssumption DEF Start, StartBody, StateOK, Attempts
  <2>a. loader # Null /\ frame[t].pc \in {"start", "loaded"}
    BY <1>0, <1>39 DEF Start, Ready, Runs, Linked, LinkedLabels
  <2>2. meta[loader].webapp \in BOOLEAN
    BY <1>0, <2>a, MetasAssumption DEF StateOK
  <2>3. LinksKept /\ loader' # Null
    BY <1>39, <2>a DEF Start, StartBody, LinksKept, links
  <2>4. col' \in Columns
    BY <1>0, <1>39 DEF Start, StartBody, StateOK, Columns
  <2>5. StateOK'
    BY <1>0, <1>39, <2>1, <2>2, <2>4
       DEF Start, StartBody, StateOK, links, runtime, server
  <2>6. CASE meta[loader].database /\ col.database_engine = Null
    <3> DEFINE f == [frame[t] EXCEPT !.pc = "save", !.ret = "mkdb",
                                     !.obj = attempts + 1, !.snap = col']
    <3>1. /\ f \in Frames /\ f.pc = "save" /\ f.ret = "mkdb"
          /\ f.obj = attempts + 1 /\ f.snap = col'
      BY <1>0, <2>1, <2>4 DEF Frames, Await
    <3>2. FrameOK(f)
      BY <2>1, <2>4, <3>1 DEF FrameOK, ObjLabels, LoadLabels
    <3>3. frame' = [frame EXCEPT ![t] = f]
      BY <1>39, <2>6 DEF Start, StartBody
    <3> QED
      BY <1>0, <2>3, <2>5, <3>1, <3>2, <3>3, Replaced
  <2>7. CASE ~(meta[loader].database /\ col.database_engine = Null)
    <3>1. PICK l \in {"mkdb", "mkplugin"} : GotoWith(t, l, attempts + 1)
      BY <1>39, <2>7 DEF Start, StartBody
    <3> QED
      BY <1>0, <2>1, <2>a, <2>3, <2>5, <3>1, Moved
         DEF Hot, SpecialLabels, LoadLabels
  <2> QED
    BY <2>6, <2>7
<1>40. ASSUME NEW t \in Tasks, MakePlugin(t) PROVE IInv'
  <2>1. /\ frame[t].obj \in Attempts /\ frame[t].obj \in 0..MaxStarts
        /\ client \in Users /\ loader \in Types
    BY <1>0, <1>40 DEF MakePlugin, Runs, Linked, LinkedLabels, FrameOK,
       ObjLabels, StateOK, Attempts
  <2>2. [client |-> client, type |-> loader, db |-> inst_db, webapp |-> webapp]
            \in Built
    BY <1>0, <2>1 DEF StateOK, Built
  <2>3. built' \in [Attempts -> Built \cup {Null}]
    BY <1>0, <1>40, <2>1, <2>2 DEF MakePlugin, StateOK
  <2>4. StateOK' /\ LinksKept
    BY <1>0, <1>40, <2>1, <2>3 DEF MakePlugin, StateOK, LinksKept, columns,
       links, web, server
  <2> QED
    BY <1>0, <1>40, <2>1, <2>4, MovedOn
       DEF MakePlugin, Runs, Hot, Await, SpecialLabels, LoadLabels, LinkedLabels
<1>41. ASSUME NEW t \in Tasks, Stop(t) PROVE IInv'
  <2>1. StateOK' /\ LinksKept /\ plugin \in 0..MaxStarts
    BY <1>0, <1>41 DEF Stop, StateOK, LinksKept, columns, links, web, objects,
       server
  <2>2. PICK l \in {"stopped", "prestop"} :
            GotoWith(t, l, plugin) /\ (l = "prestop" => plugin # 0)
    BY <1>41 DEF Stop
  <2>3. l = "prestop" => plugin \in Attempts
    BY <2>1, <2>2, MaxStartsAssumption DEF Attempts
  <2> QED
    BY <1>0, <1>41, <2>1, <2>2, <2>3, Moved
       DEF Stop, Runs, Hot, Await, SpecialLabels, LoadLabels, ObjLabels,
       LinkedLabels
<1>42. ASSUME NEW t \in Tasks, Stopped(t) PROVE IInv'
  <2>1. 0 \in 0..MaxStarts
    BY MaxStartsAssumption
  <2>2. StateOK' /\ LinksKept /\ inst_db \in 0..MaxStarts
    BY <1>0, <1>42, <2>1 DEF Stopped, StateOK, LinksKept, columns, links, web,
       objects, server
  <2>3. CASE inst_db = 0
    BY <1>0, <1>42, <2>2, <2>3, Returned DEF Stopped, Runs, FrameOK, LoadLabels
  <2>4. CASE inst_db # 0
    <3>1. inst_db \in Attempts
      BY <2>2, <2>4, MaxStartsAssumption DEF Attempts
    <3> QED
      BY <1>0, <1>42, <2>2, <2>4, <3>1, Moved
         DEF Stopped, Runs, Await, SpecialLabels, LoadLabels, LinkedLabels
  <2> QED
    BY <2>3, <2>4
<1>43. ASSUME NEW t \in Tasks, SwitchUser(t) PROVE IInv'
  <2> DEFINE new == [col EXCEPT !.primary_user = frame[t].arg]
  <2>1. frame[t].arg \in Users
    BY <1>0, <1>43 DEF SwitchUser, Runs, FrameOK
  <2>2. new \in Columns
    BY <1>0, <2>1 DEF StateOK, Columns
  <2>3. StateOK' /\ LinksKept
    BY <1>0, <1>43, <2>1, <2>2, NullAssumption
       DEF SwitchUser, Save, Rereference, StateOK, LinksKept, runtime, web,
       objects, server
  <2> QED
    BY <1>0, <1>43, <2>2, <2>3, Saving, Finished DEF SwitchUser
<1>44. ASSUME NEW t \in Tasks, SwitchType(t) PROVE IInv'
  <2> DEFINE new == [col EXCEPT !.type = frame[t].arg]
  <2>1. frame[t].arg \in Types
    BY <1>0, <1>44 DEF SwitchType, Runs, FrameOK
  <2>2. new \in Columns
    BY <1>0, <2>1 DEF StateOK, Columns
  <2>3. col' \in Columns /\ unsaved' \in BOOLEAN
    BY <1>0, <1>44, <2>2 DEF SwitchType, Save, StateOK
  <2>4. loader' \in Types \cup {Null} /\ loaderRefs' \in SUBSET Types
    BY <1>0, <1>44, <2>1 DEF SwitchType, Rereference, StateOK
  <2>5. LinksKept
    BY <1>0, <1>44, <2>1, NullAssumption DEF SwitchType, LinksKept
  <2>6. StateOK'
    BY <1>0, <1>44, <2>3, <2>4 DEF SwitchType, StateOK, runtime, web, objects,
       server
  <2> QED
    BY <1>0, <1>44, <2>2, <2>5, <2>6, Saving, Finished DEF SwitchType
<1>45. ASSUME NEW t \in Tasks, Drop(t) PROVE IInv'
  <2>1. StateOK' /\ LinksKept /\ frame[t].pc = "drop"
    BY <1>0, <1>45 DEF Drop, Runs, StateOK, LinksKept, columns, runtime, web,
       objects, server
  <2> QED
    BY <1>0, <1>45, <2>1, MovedOn, Finished
       DEF Drop, Await, SpecialLabels, LoadLabels, ObjLabels, LinkedLabels
<1>46. ASSUME NEW t \in Tasks, RowDeleted(t) PROVE IInv'
  <2>1. StateOK' /\ LinksKept /\ inst_db \in 0..MaxStarts
    BY <1>0, <1>46 DEF RowDeleted, StateOK, LinksKept, links, runtime, web,
       objects, server
  <2>2. inst_db # 0 => inst_db \in Attempts
    BY <2>1, MaxStartsAssumption DEF Attempts
  <2> QED
    BY <1>0, <1>46, <2>1, <2>2, Moved, Finished
       DEF RowDeleted, Runs, Await, SpecialLabels, LoadLabels, LinkedLabels
<1>47. ASSUME NEW t \in Tasks, SaveRaises(t) PROVE IInv'
  <2>1. LinksKept /\ col \in Columns
    BY <1>0, <1>47 DEF SaveRaises, LinksKept, StateOK, links
  <2>2. FramesOK' /\ Linked' /\ col' \in Columns
    BY <1>0, <1>47, <2>1, Disabled, Finished DEF SaveRaises
  <2>3. StateOK'
    BY <1>0, <1>47, <2>2 DEF SaveRaises, StateOK, links, runtime, web,
       objects, server
  <2> QED
    BY <2>2, <2>3
<1>48. ASSUME NEW t \in Tasks, GotClient(t) PROVE IInv'
  <2>1. /\ frame[t].pc = "getclient" /\ frame[t].ret \in {"idle", "loaded"}
        /\ frame[t].arg \in Users /\ loader # Null
    BY <1>0, <1>48 DEF GotClient, Runs, FrameOK, LoadLabels, Linked, LinkedLabels
  <2>2. client' \in Users /\ client' # Null /\ loader' = loader
    BY <1>48, <2>1, NullAssumption DEF GotClient
  <2>3. StateOK' /\ LinksKept
    BY <1>0, <1>48, <2>2 DEF GotClient, StateOK, LinksKept, Lapses, columns,
       runtime, web, objects, server
  <2> DEFINE f == [frame[t] EXCEPT !.pc = "reference"]
  <2>4. /\ f \in Frames /\ f.pc = "reference" /\ f.ret = frame[t].ret
        /\ f.arg = frame[t].arg
    BY <1>0 DEF Frames, Hot
  <2>5. FrameOK(f)
    BY <2>1, <2>4 DEF FrameOK, ObjLabels, LoadLabels
  <2>6. frame' = [frame EXCEPT ![t] = f]
    BY <1>48 DEF GotClient, Goto
  <2> QED
    BY <1>0, <2>1, <2>2, <2>3, <2>4, <2>5, <2>6, Replaced
<1>49. ASSUME NEW t \in Tasks, NoClient(t) PROVE IInv'
  <2>1. LinksKept /\ col \in Columns
    BY <1>0, <1>49 DEF NoClient, Runs, Hot, LinksKept, StateOK
  <2>2. FramesOK' /\ Linked' /\ col' \in Columns
    BY <1>0, <1>49, <2>1, Disabled DEF NoClient
  <2>3. StateOK'
    BY <1>0, <1>49, <2>2 DEF NoClient, StateOK, Lapses, runtime, web,
       objects, server
  <2> QED
    BY <2>2, <2>3
<1>50. ASSUME NEW t \in Tasks, Reference(t) PROVE IInv'
  <2>1. /\ frame[t].pc = "reference" /\ client \in Users /\ loader \in Types
        /\ loader # Null /\ UNCHANGED <<client, loader>>
    BY <1>0, <1>50 DEF Reference, Runs, Linked, LinkedLabels, StateOK
  <2>2. meta[loader].webapp \in BOOLEAN
    BY <1>0, <2>1, MetasAssumption DEF StateOK
  <2>3. webapp' \in BOOLEAN
    BY <1>50, <1>0, <2>2 DEF Reference, StateOK
  <2>4. StateOK' /\ LinksKept
    BY <1>0, <1>50, <2>1, <2>3 DEF Reference, StateOK, LinksKept, columns,
       runtime, objects, server
  <2> QED
    BY <1>0, <1>50, <2>1, <2>4, Returned DEF Reference
<1>51. ASSUME NEW t \in Tasks, LoadRaises(t) PROVE IInv'
  <2>1. StateOK' /\ LinksKept
    BY <1>0, <1>51 DEF LoadRaises, StateOK, LinksKept, Lapses, columns,
       runtime, web, objects, server
  <2> QED
    BY <1>0, <1>51, <2>1, Finished DEF LoadRaises
<1>52. ASSUME NEW t \in Tasks, GotUser(t) PROVE IInv'
  <2>1. StateOK' /\ LinksKept
    BY <1>0, <1>52, OnlyFrames DEF GotUser
  <2>2. frame[t].arg \in Users
    BY <1>0, <1>52 DEF GotUser, Runs, FrameOK
  <2> DEFINE f == [frame[t] EXCEPT !.pc = "stop", !.ret = "switchuser"]
  <2>3. /\ f \in Frames /\ f.pc = "stop" /\ f.ret = "switchuser"
        /\ f.arg = frame[t].arg
    BY <1>0 DEF Frames, Hot
  <2>4. FrameOK(f)
    BY <2>2, <2>3 DEF FrameOK, ObjLabels, LoadLabels
  <2>5. frame' = [frame EXCEPT ![t] = f]
    BY <1>52 DEF GotUser
  <2> QED
    BY <1>0, <2>1, <2>3, <2>4, <2>5, Replaced DEF LinkedLabels
<1>53. ASSUME NEW t \in Tasks, NoUser(t) PROVE IInv'
  <2>1. StateOK' /\ LinksKept
    BY <1>53, OnlyFrames DEF NoUser
  <2> QED
    BY <1>0, <1>53, <2>1, Finished DEF NoUser
<1>54. CASE UNCHANGED vars
  <2>1. StateOK' /\ LinksKept
    BY <1>0, <1>54, OnlyFrames DEF vars
  <2> QED
    BY <1>0, <1>54, <2>1 DEF vars, FramesOK, Linked, LinksKept, links
<1> QED
  BY <1>1, <1>2, <1>3, <1>4, <1>5, <1>6, <1>7, <1>8, <1>9, <1>10, <1>11,
     <1>12, <1>13, <1>14, <1>15, <1>16, <1>17, <1>18, <1>19, <1>20, <1>21,
     <1>22, <1>23, <1>24, <1>25, <1>26, <1>27, <1>28, <1>29, <1>30, <1>31,
     <1>32, <1>33, <1>34, <1>35, <1>36, <1>37, <1>38, <1>39, <1>40, <1>41,
     <1>42, <1>43, <1>44, <1>45, <1>46, <1>47, <1>48, <1>49, <1>50, <1>51,
     <1>52, <1>53, <1>54
     DEF Next, Calls, Steps

\* Typing: every variable of the model, frames included, keeps its type.
THEOREM Typing == Spec => []TypeOK
<1>1. IInv /\ [Next]_vars => IInv'
  BY StepIInv
<1> QED
  BY InitIInv, IInvTypes, <1>1, PTL DEF Spec

-----------------------------------------------------------------------------
(* A step moves one coroutine                                              *)

OthersStay(t) == \A s \in Tasks \ {t} : frame'[s] = frame[s]

\* The frame that each of the moves makes.
LEMMA BeginIs ==
    ASSUME FramesOK, NEW t \in Tasks, NEW l, NEW r, NEW a, Begin(t, l, r, a)
    PROVE  /\ OthersStay(t)
           /\ frame'[t].pc = l /\ frame'[t].ret = r /\ frame'[t].arg = a
BY DEF Begin, FramesOK, OthersStay, NoFrame

\* The coroutine ends.
LEMMA FinishIs ==
    ASSUME FramesOK, NEW t \in Tasks, Finish(t)
    PROVE  OthersStay(t) /\ frame'[t].pc = "idle"
BY DEF Finish, FramesOK, OthersStay, NoFrame

\* It goes on at a label.
LEMMA GotoIs ==
    ASSUME FramesOK, NEW t \in Tasks, NEW l, Goto(t, l)
    PROVE  /\ OthersStay(t) /\ frame'[t].pc = l
           /\ frame'[t].obj = frame[t].obj /\ frame'[t].ret = frame[t].ret
BY DEF Goto, FramesOK, OthersStay, Frames

\* It goes on at a label, about an object.
LEMMA GotoWithIs ==
    ASSUME FramesOK, NEW t \in Tasks, NEW l, NEW n, GotoWith(t, l, n)
    PROVE  /\ OthersStay(t) /\ frame'[t].pc = l
           /\ frame'[t].obj = n /\ frame'[t].ret = frame[t].ret
BY DEF GotoWith, FramesOK, OthersStay, Frames

\* It returns to its caller.
LEMMA ReturnIs ==
    ASSUME FramesOK, NEW t \in Tasks, Return(t)
    PROVE  /\ OthersStay(t) /\ frame'[t].pc = frame[t].ret
           /\ frame'[t].pc # "idle" => /\ frame'[t].arg = frame[t].arg
                                       /\ frame'[t].ret = "idle"
BY DEF Return, FramesOK, OthersStay, Frames, NoFrame

\* It starts to save columns.
LEMMA SaveIs ==
    ASSUME FramesOK, NEW t \in Tasks, NEW c, NEW r, Save(t, c, r)
    PROVE  /\ OthersStay(t) /\ frame'[t].pc = "save" /\ frame'[t].ret = r
           /\ frame'[t].snap = c /\ col' = c
BY DEF Save, FramesOK, OthersStay, Frames

\* It disables the instance, or ends if that is done.
LEMMA DisableIs ==
    ASSUME FramesOK, NEW t \in Tasks, Disable(t)
    PROVE  /\ OthersStay(t)
           /\ \/ frame'[t].pc = "idle" /\ col' = col
              \/ /\ frame'[t].pc = "save" /\ frame'[t].ret = "idle"
                 /\ frame'[t].snap = col'
BY FinishIs, SaveIs DEF Disable

\* No step of a coroutine moves another one.
LEMMA OneMoves ==
    ASSUME FramesOK, NEW t \in Tasks, Calls(t) \/ Steps(t)
    PROVE  OthersStay(t)
<1>1. CASE Calls(t)
  BY <1>1
     DEF Calls, CallLoad, CallStart, CallStop, DeleteInstance, UpdateEnabled,
         UpdateConfig, SaveConfig, UpdatePrimaryUser, UpdateType, ReloadPlugin,
         Begin, Save, OthersStay, FramesOK
<1>2. CASE \/ LoadMissing(t) \/ NoClient(t) \/ SaveRaises(t)
           \/ LoadRaises(t) \/ NoUser(t) \/ StartIgnored(t) \/ LoaderRaises(t)
           \/ DbFailed(t) \/ MakePluginRaises(t) \/ PluginStarted(t)
           \/ PluginStartRaises(t) \/ NotifyRaises(t) \/ DbDeleted(t)
           \/ DropRaises(t) \/ ReloadFails(t)
  BY <1>2, FinishIs, DisableIs
     DEF LoadMissing, NoClient, SaveRaises, LoadRaises, NoUser, StartIgnored, LoaderRaises, DbFailed, MakePluginRaises, PluginStarted,
         PluginStartRaises, NotifyRaises, DbDeleted, DropRaises, ReloadFails
<1>3. CASE \/ GotClient(t) \/ MakeDb(t) \/ DbStarted(t) \/ MakePlugin(t)
           \/ PreStarted(t) \/ PreStopped(t) \/ PreStopRaises(t)
           \/ PluginStopped(t) \/ DropDbStopped(t) \/ Stop(t)
  BY <1>3, GotoIs, GotoWithIs
     DEF GotClient, MakeDb, DbStarted, MakePlugin, PreStarted, PreStopped,
         PreStopRaises, PluginStopped, DropDbStopped, Stop
<1>4. CASE \/ Reference(t) \/ StopIgnored(t) \/ DbStopped(t) \/ DbStopRaises(t)
           \/ Stopped(t) \/ Drop(t) \/ RowDeleted(t) \/ Notified(t)
  BY <1>4, ReturnIs, GotoIs, GotoWithIs, FinishIs, SaveIs
     DEF Reference, StopIgnored, DbStopped, DbStopRaises, Stopped, Drop,
         RowDeleted, Notified
<1>5. CASE Saved(t) \/ Load(t) \/ GotUser(t) \/ StartLoads(t) \/ Start(t)
  BY <1>5
     DEF Saved, Load, GotUser, StartLoads, Start, StartBody, GotoWith,
         OthersStay, FramesOK
<1>6. CASE SwitchUser(t) \/ SwitchType(t) \/ Reloaded(t)
  BY <1>6
     DEF SwitchUser, SwitchType, Reloaded, Save, Begin, Finish, OthersStay,
         FramesOK
<1> QED
  BY <1>1, <1>2, <1>3, <1>4, <1>5, <1>6 DEF Steps

-----------------------------------------------------------------------------
(* References and links                                                    *)

\* The loader of an instance was installed once.
LoaderKnown == loader # Null => plugins[loader] # "absent"

\* The parts are needed at once: delete_plugin refuses a loader that has
\* references, which protects the loader of the instance only if that loader
\* is referenced.
RefsInv == RefsMatch /\ LoaderInstalled /\ LoaderKnown

\* While another coroutine steps, a load() stays where it is.
LEMMA LoadsStay ==
    ASSUME NEW t \in Tasks, OthersStay(t)
    PROVE  /\ frame[t].pc # "reference" => (Linking => Linking')
           /\ frame[t].pc \notin {"getclient", "reference"} => (Loading => Loading')
BY DEF Linking, Loading, OthersStay

\* Most steps touch neither the links nor the loaders.
LEMMA LinksUntouched ==
    ASSUME RefsInv, Linking => Linking', Loading => Loading',
           UNCHANGED <<client, loader, clientRefs, loaderRefs, deleted, plugins>>,
           lapses \subseteq lapses'
    PROVE  RefsInv'
BY DEF RefsInv, RefsMatch, LoaderInstalled, LoaderKnown

\* Only load(), the two switches, delete() and the loaders' own calls matter.
LEMMA StepRefsInv == IInv /\ RefsInv /\ [Next]_vars => RefsInv'
<1> SUFFICES ASSUME IInv, RefsInv, [Next]_vars PROVE RefsInv'
  OBVIOUS
<1> USE NullAssumption
<1>1. /\ client \in Users \cup {Null} /\ loader \in Types \cup {Null}
      /\ deleted \in BOOLEAN /\ col.type \in Types /\ col.primary_user \in Users
      /\ plugins \in [Types -> {"absent", "installed", "deleted"}]
      /\ clientRefs \in SUBSET Users /\ loaderRefs \in SUBSET Types
      /\ FramesOK /\ Linked
  BY DEF IInv, StateOK, Columns
<1>a. ASSUME NEW t \in Tasks, Load(t) PROVE RefsInv'
  <2>1. /\ Runs(t, "load") /\ OthersStay(t)
        /\ UNCHANGED <<client, clientRefs, loaderRefs, deleted, lapses, plugins>>
        /\ loader' = IF loader = Null THEN col.type ELSE loader
        /\ loader # Null \/ plugins[col.type] = "installed"
    BY <1>1, <1>a, OneMoves DEF Load, Steps, server
  <2>2. frame'[t].pc \in {"getclient", "reference"}
    BY <1>1, <1>a DEF Load, FramesOK, Frames
  <2>3. Loading' /\ (Linking => Linking')
    BY <2>1, <2>2, LoadsStay DEF Loading, Linking, Runs
  <2>4. loaderRefs \subseteq {loader} => loaderRefs \subseteq {loader'}
    BY <1>1, <2>1
  <2> QED
    BY <1>1, <2>1, <2>3, <2>4 DEF RefsInv, RefsMatch, LoaderInstalled, LoaderKnown
<1>b. ASSUME NEW t \in Tasks, GotClient(t) PROVE RefsInv'
  <2>1. /\ client' = frame[t].arg
        /\ UNCHANGED <<loader, clientRefs, loaderRefs, deleted, plugins>>
        /\ lapses \subseteq lapses'
        /\ client \notin {Null, frame[t].arg} => "overtaken" \in lapses'
    BY <1>b DEF GotClient, server
  <2>2. Linking' /\ Loading'
    BY <1>1, <1>b DEF GotClient, Goto, Linking, Loading, FramesOK, Frames
  <2>3. ~deleted => clientRefs \subseteq {client'} \/ "overtaken" \in lapses'
    BY <1>1, <2>1 DEF RefsInv, RefsMatch
  <2> QED
    BY <2>1, <2>2, <2>3 DEF RefsInv, RefsMatch, LoaderInstalled, LoaderKnown
<1>c. ASSUME NEW t \in Tasks, NoClient(t) PROVE RefsInv'
  <2>1. /\ client' = Null /\ lapses \subseteq lapses' /\ "unreferenced" \in lapses'
        /\ UNCHANGED <<loader, clientRefs, loaderRefs, deleted, plugins>>
        /\ client # Null => "overtaken" \in lapses'
    BY <1>c DEF NoClient, server
  <2> QED
    BY <1>1, <2>1 DEF RefsInv, RefsMatch, LoaderInstalled, LoaderKnown
<1>d. ASSUME NEW t \in Tasks, Reference(t) PROVE RefsInv'
  <2>1. /\ loaderRefs' = loaderRefs \cup {loader}
        /\ clientRefs' = clientRefs \cup {client}
        /\ lapses' = lapses \ {"unreferenced"} /\ plugins[loader] = "installed"
        /\ UNCHANGED <<client, loader, deleted, plugins>>
    BY <1>d DEF Reference, server
  <2> QED
    BY <1>1, <2>1 DEF RefsInv, RefsMatch, LoaderInstalled, LoaderKnown
<1>e. ASSUME NEW t \in Tasks, LoadRaises(t) PROVE RefsInv'
  <2>1. /\ lapses \subseteq lapses' /\ "unreferenced" \in lapses'
        /\ UNCHANGED <<client, loader, clientRefs, loaderRefs, deleted, plugins>>
    BY <1>e DEF LoadRaises, server
  <2> QED
    BY <2>1 DEF RefsInv, RefsMatch, LoaderInstalled, LoaderKnown
<1>3. ASSUME NEW t \in Tasks, SwitchUser(t) PROVE RefsInv'
  <2>1. /\ UNCHANGED <<deleted, loader, loaderRefs, plugins, lapses>>
        /\ Runs(t, "switchuser") /\ OthersStay(t)
    BY <1>1, <1>3, OneMoves DEF SwitchUser, Steps, server
  <2>2. (Loading => Loading') /\ (Linking => Linking')
    BY <2>1, LoadsStay DEF Runs
  <2>3. CASE UNCHANGED <<client, clientRefs>>
    BY <2>1, <2>2, <2>3, LinksUntouched
  <2>4. CASE ~UNCHANGED <<client, clientRefs>>
    <3>1. /\ client' = frame[t].arg
          /\ clientRefs' = (clientRefs \ {client}) \cup {frame[t].arg}
      BY <1>3, <2>4 DEF SwitchUser, Rereference
    <3>2. clientRefs \subseteq {client} => clientRefs' \subseteq {client'}
      BY <3>1
    <3> QED
      BY <2>1, <2>2, <3>1, <3>2 DEF RefsInv, RefsMatch, LoaderInstalled, LoaderKnown
  <2> QED
    BY <2>3, <2>4
<1>4. ASSUME NEW t \in Tasks, SwitchType(t) PROVE RefsInv'
  <2>1. /\ UNCHANGED <<deleted, client, clientRefs, plugins, lapses>>
        /\ Runs(t, "switchtype") /\ OthersStay(t)
    BY <1>1, <1>4, OneMoves DEF SwitchType, Steps, server
  <2>2. (Loading => Loading') /\ (Linking => Linking')
    BY <2>1, LoadsStay DEF Runs
  <2>3. CASE UNCHANGED <<loader, loaderRefs>>
    BY <2>1, <2>2, <2>3, LinksUntouched
  <2>4. CASE ~UNCHANGED <<loader, loaderRefs>>
    <3>1. /\ loader' = frame[t].arg /\ plugins[frame[t].arg] = "installed"
          /\ loaderRefs' = (loaderRefs \ {loader}) \cup {frame[t].arg}
      BY <1>4, <2>4 DEF SwitchType, Rereference
    <3>2. loaderRefs \subseteq {loader} => loaderRefs' \subseteq {loader'}
      BY <3>1
    <3> QED
      BY <2>1, <2>2, <3>1, <3>2 DEF RefsInv, RefsMatch, LoaderInstalled, LoaderKnown
  <2> QED
    BY <2>3, <2>4
<1>5. ASSUME NEW t \in Tasks, Drop(t) PROVE RefsInv'
  <2>1. /\ UNCHANGED <<client, loader, plugins, lapses>>
        /\ Runs(t, "drop") /\ OthersStay(t)
    BY <1>1, <1>5, OneMoves DEF Drop, Steps, server
  <2>2. (Loading => Loading') /\ (Linking => Linking')
    BY <2>1, LoadsStay DEF Runs
  <2>3. deleted' \/ UNCHANGED <<clientRefs, loaderRefs, deleted>>
    BY <1>5 DEF Drop
  <2> QED
    BY <2>1, <2>2, <2>3 DEF RefsInv, RefsMatch, LoaderInstalled, LoaderKnown
<1>6. ASSUME NEW ty \in Types, DeletePlugin(ty) PROVE RefsInv'
  <2>1. /\ UNCHANGED <<client, loader, clientRefs, loaderRefs, deleted, lapses, frame>>
        /\ ty \notin loaderRefs
        /\ \A x \in Types : x # ty => plugins'[x] = plugins[x]
        /\ plugins'[ty] = "deleted"
    BY <1>1, <1>6 DEF DeletePlugin, links
  <2>2. (Loading' <=> Loading) /\ (Linking' <=> Linking)
    BY <2>1 DEF Loading, Linking
  <2>3. CASE ty = loader
    BY <1>1, <2>1, <2>2, <2>3 DEF RefsInv, RefsMatch, LoaderInstalled, LoaderKnown
  <2>4. CASE ty # loader
    BY <1>1, <2>1, <2>2, <2>4 DEF RefsInv, RefsMatch, LoaderInstalled, LoaderKnown
  <2> QED
    BY <2>3, <2>4
<1>7. ASSUME NEW ty \in Types, NEW m \in Metas, UploadNew(ty, m) PROVE RefsInv'
  <2>1. /\ UNCHANGED <<client, loader, clientRefs, loaderRefs, deleted, lapses, frame>>
        /\ plugins[ty] = "absent"
        /\ \A x \in Types : x # ty => plugins'[x] = plugins[x]
    BY <1>1, <1>7 DEF UploadNew, links
  <2>2. (Loading' <=> Loading) /\ (Linking' <=> Linking)
    BY <2>1 DEF Loading, Linking
  <2> QED
    BY <1>1, <2>1, <2>2 DEF RefsInv, RefsMatch, LoaderInstalled, LoaderKnown
<1>8. ASSUME NEW t \in Tasks,
             \/ Saved(t) \/ SaveRaises(t) \/ LoadMissing(t) \/ GotUser(t)
             \/ NoUser(t) \/ StartIgnored(t) \/ StartLoads(t) \/ Start(t)
             \/ LoaderRaises(t) \/ MakeDb(t) \/ DbStarted(t)
             \/ DbFailed(t) \/ MakePlugin(t) \/ MakePluginRaises(t)
             \/ PreStarted(t) \/ PluginStarted(t) \/ PluginStartRaises(t)
             \/ StopIgnored(t) \/ Stop(t) \/ PreStopped(t)
             \/ PreStopRaises(t) \/ PluginStopped(t) \/ Stopped(t)
             \/ DbStopped(t) \/ DbStopRaises(t) \/ Notified(t)
             \/ NotifyRaises(t) \/ RowDeleted(t) \/ DropDbStopped(t)
             \/ DbDeleted(t) \/ DropRaises(t) \/ Reloaded(t)
             \/ ReloadFails(t)
      PROVE  RefsInv'
  <2>1. /\ UNCHANGED <<client, loader, clientRefs, loaderRefs, deleted, plugins>>
        /\ lapses \subseteq lapses'
    BY <1>8 DEF Saved, SaveRaises, LoadMissing, GotUser, NoUser, StartIgnored,
       StartLoads, Start, LoaderRaises, MakeDb, DbStarted, DbFailed,
       MakePlugin, MakePluginRaises, PreStarted, PluginStarted,
       PluginStartRaises, StopIgnored, Stop, PreStopped, PreStopRaises,
       PluginStopped, Stopped, DbStopped, DbStopRaises, Notified,
       NotifyRaises, RowDeleted, DropDbStopped, DbDeleted, DropRaises,
       Reloaded, ReloadFails, NewMeta, StartBody, links, server
  <2>2. frame[t].pc \notin {"getclient", "reference"}
    BY <1>8 DEF Saved, SaveRaises, LoadMissing, GotUser, NoUser, StartIgnored,
       StartLoads, Start, Ready, LoaderRaises, MakeDb, DbStarted, DbFailed,
       MakePlugin, MakePluginRaises, PreStarted, PluginStarted,
       PluginStartRaises, StopIgnored, Stop, PreStopped, PreStopRaises,
       PluginStopped, Stopped, DbStopped, DbStopRaises, Notified,
       NotifyRaises, RowDeleted, DropDbStopped, DbDeleted, DropRaises,
       Reloaded, ReloadFails, Runs
  <2>3. OthersStay(t)
    BY <1>1, <1>8, OneMoves DEF Steps
  <2> QED
    BY <2>1, <2>2, <2>3, LoadsStay, LinksUntouched
<1>9. ASSUME NEW t \in Tasks, Calls(t)
      PROVE  RefsInv'
  <2>1. UNCHANGED links /\ UNCHANGED plugins /\ frame[t].pc = "idle"
    BY <1>9 DEF Calls, CallLoad, CallStart, CallStop, DeleteInstance,
       UpdateEnabled, UpdateConfig, SaveConfig, UpdatePrimaryUser,
       UpdateType, ReloadPlugin, Call, Runs, server
  <2>2. OthersStay(t)
    BY <1>1, <1>9, OneMoves
  <2> QED
    BY <2>1, <2>2, LoadsStay, LinksUntouched DEF links
<1>10. CASE UNCHANGED vars
  BY <1>10 DEF vars, links, server, RefsInv, RefsMatch, LoaderInstalled,
     LoaderKnown, Loading, Linking
<1> QED
  BY <1>a, <1>b, <1>c, <1>d, <1>e, <1>3, <1>4, <1>5, <1>6, <1>7, <1>8, <1>9,
     <1>10
     DEF Next, Steps

\* However the calls on an instance overlap, a live instance is in the
\* references (the sets that delete_client and delete_plugin test) of no other
\* client and loader than the ones it uses, and of those two; and its loader
\* is installed.  What load() does across its await is excepted by name: it
\* links the loader before it awaits Client.get() and adds the references
\* after it, so the reference is missing in between and after a load() that
\* ends there, and a client that another call linked meanwhile is replaced.
THEOREM References == Spec => [](RefsMatch /\ LoaderInstalled)
<1>1. Init => RefsInv
  BY DEF Init, RefsInv, RefsMatch, LoaderInstalled, LoaderKnown
<1>2. RefsInv => RefsMatch /\ LoaderInstalled
  BY DEF RefsInv
<1>3. IInv /\ RefsInv /\ [Next]_vars => IInv' /\ RefsInv'
  BY StepIInv, StepRefsInv
<1> QED
  BY InitIInv, <1>1, <1>2, <1>3, PTL DEF Spec

-----------------------------------------------------------------------------
(* Calls that do not overlap                                               *)

\* One coroutine is in progress.
Alone ==
    \A s, t \in Tasks : frame[s].pc # "idle" /\ frame[t].pc # "idle" => s = t

\* A started instance is linked and not deleted, and runs what it is linked to.
Wired ==
    /\ RunningWired
    /\ started => ~deleted /\ client # Null /\ loader # Null
    /\ deleted => loaderRefs = {}

Making    == {"mkdb", "dbstart", "mkplugin", "prestart", "pluginstart"}
Unmaking  == {"prestop", "pluginstop", "stopped", "dbstop"}
Switching == {"switchuser", "switchtype", "drop"}
Dropping  == {"rowdelete", "dropdbstop", "dropdb"}

\* The coroutine with frame f works on an instance that is stopped.
Down(f) ==
    \/ f.pc \in Making \cup Unmaking \cup Switching \cup Dropping
    \/ f.pc = "save" /\ f.ret \in {"mkdb", "start"}
    \/ f.pc \in {"getclient", "loaded"}
    \/ f.pc \in LoadLabels /\ f.ret = "loaded"

\* How far the coroutine with frame f has come with the plugin object.
Progress(f) ==
    /\ f.pc = "save" => f.ret \in {"idle", "start", "mkdb"}
    /\ Down(f) => ~started
    /\ f.pc \notin Dropping \cup {"idle", "reload"} => ~deleted
    /\ f.pc = "reload" => ~started \/ f.arg.type \notin loaderRefs
    /\ f.pc = "getclient" => client = Null
    /\ f.pc \in {"reference", "loaded"} => client # Null /\ loader # Null
    /\ f.pc \in Making \/ (f.pc = "save" /\ f.ret = "mkdb") =>
          f.obj = attempts /\ client # Null /\ loader # Null
    /\ f.pc = "dbstart" => inst_db = f.obj
    /\ f.pc \in {"mkplugin", "prestart", "pluginstart"} =>
          (meta[loader].database => inst_db \in open)
    /\ f.pc \in {"prestart", "pluginstart"} =>
          /\ plugin = f.obj /\ built[f.obj].client = client
          /\ built[f.obj].type = loader /\ built[f.obj].db = inst_db
    /\ f.pc = "pluginstart" => f.obj \in registered
    /\ f.pc = "dbstop" => f.obj = inst_db

\* What has handlers or an open database while that coroutine is in progress.
Leaks(f) ==
    /\ \A n \in registered :
          \/ n \in faulty \/ (started /\ n = plugin)
          \/ f.pc \in {"pluginstart", "prestop"} /\ f.obj = n
    /\ \A n \in open :
          \/ n \in faulty
          \/ n = inst_db /\ (started \/ f.pc \in Unmaking)
          \/ /\ n = inst_db /\ f.obj = n
             /\ f.pc \in {"mkplugin", "prestart", "pluginstart"}

\* What is on its way to the row.
Saves(f) ==
    /\ f.pc = "save" => f.snap = col
    /\ row # Null /\ ~unsaved /\ f.pc \notin {"save", "notify"} => row = col

Good(f) == Progress(f) /\ Leaks(f) /\ Saves(f)

SInv ==
    /\ Alone /\ Wired
    /\ \A t \in Tasks : frame[t].pc # "idle" => Good(frame[t])
    /\ AllIdle => Good(NoFrame)

\* Task t may step: it is in progress, or nobody is.
Steps1(t) == AllIdle \/ frame[t].pc # "idle"

\* The coroutine that steps is in a good state.
LEMMA Before ==
    ASSUME SInv, NEW t \in Tasks, Steps1(t)
    PROVE  Good(frame[t])
<1>1. CASE frame[t].pc # "idle"
  BY <1>1 DEF SInv
<1>2. CASE frame[t].pc = "idle"
  BY <1>2 DEF SInv, Steps1, Good, Progress, Down, Leaks, Saves, NoFrame, Making, Unmaking,
     Switching, Dropping, LoadLabels
<1> QED
  BY <1>1, <1>2

\* It is enough to show that it leaves one behind.
LEMMA After ==
    ASSUME SInv, NEW t \in Tasks, Steps1(t), OthersStay(t),
           Good(frame[t])', Wired'
    PROVE  SInv'
<1>1. \A s \in Tasks \ {t} : frame'[s].pc = "idle"
  BY DEF SInv, Alone, Steps1, OthersStay, AllIdle
<1>2. Alone'
  BY <1>1 DEF Alone
<1>3. \A s \in Tasks : frame'[s].pc # "idle" => Good(frame[s])'
  BY <1>1
<1>4. AllIdle' => Good(NoFrame)'
  <2>1. frame'[t].pc = "idle" => Good(NoFrame)'
    BY DEF Good, Progress, Down, Leaks, Saves, NoFrame, Making, Unmaking,
       Switching, Dropping, LoadLabels
  <2> QED
    BY <2>1 DEF AllIdle
<1> QED
  BY <1>2, <1>3, <1>4 DEF SInv

\* Under these hypotheses a call begins only when nothing is in progress.
LEMMA CallIs ==
    ASSUME Overlap = FALSE, NEW t \in Tasks, Call(t)
    PROVE  AllIdle /\ ~deleted /\ frame[t].pc = "idle"
BY DEF Call, Runs

\* The requests and calls that only make a frame.
LEMMA CallSteps ==
    ASSUME Overlap = FALSE, IInv, RefsInv, SInv, NEW t \in Tasks,
           \/ CallLoad(t) \/ CallStart(t) \/ CallStop(t) \/ DeleteInstance(t)
           \/ \E u \in Users : UpdatePrimaryUser(t, u)
           \/ \E ty \in Types : UpdateType(t, ty)
    PROVE  SInv'
<1>1. /\ AllIdle /\ ~deleted /\ frame[t].pc = "idle" /\ FramesOK
      /\ UNCHANGED <<columns, links, runtime, web, objects, server>>
  BY CallIs
     DEF CallLoad, CallStart, CallStop, DeleteInstance, UpdatePrimaryUser, UpdateType,
         IInv
<1>2. Good(frame[t]) /\ Steps1(t)
  BY <1>1, Before DEF Steps1
<1>3. /\ OthersStay(t)
      /\ \/ frame'[t].pc \in {"load", "start"} /\ frame'[t].ret = "idle"
         \/ frame'[t].pc \in {"stop", "getuser"}
         \/ frame'[t].pc = "drop" /\ ~started
  BY <1>1, BeginIs
     DEF CallLoad, CallStart, CallStop, DeleteInstance, UpdatePrimaryUser, UpdateType
<1>4. Wired'
  BY <1>1 DEF SInv, Wired, RunningWired, links, runtime, objects, server
<1>5. Good(frame[t])'
  BY <1>1, <1>2, <1>3
     DEF Good, Progress, Down, Leaks, Saves, Making, Unmaking, Switching, Dropping, LoadLabels,
         columns, links, runtime, objects, server
<1> QED
  BY <1>2, <1>3, <1>4, <1>5, After

\* update_enabled(), update_config(), save_config() and the save after
\* on_external_config_update().
LEMMA SaveSteps ==
    ASSUME Overlap = FALSE, IInv, RefsInv, SInv, NEW t \in Tasks,
           \/ \E b \in BOOLEAN : UpdateEnabled(t, b)
           \/ \E c \in Configs : UpdateConfig(t, c) \/ SaveConfig(t, c)
           \/ Notified(t)
    PROVE  SInv'
<1>1. /\ ~deleted /\ FramesOK /\ Steps1(t)
      /\ UNCHANGED <<row, unsaved, links, runtime, web, objects, server>>
  <2>1. CASE Notified(t)
    <3>1. frame[t].pc = "notify" /\ Steps1(t)
      BY <2>1 DEF Notified, Runs, Steps1
    <3> QED
      BY <2>1, <3>1, Before DEF Notified, Good, Progress, Dropping, IInv
  <2>2. CASE ~Notified(t)
    BY <2>2, CallIs DEF UpdateEnabled, UpdateConfig, SaveConfig, IInv, Steps1
  <2> QED
    BY <2>1, <2>2
<1>2. Good(frame[t])
  BY <1>1, Before
<1>3. /\ OthersStay(t) /\ frame[t].pc \in {"idle", "notify"}
      /\ \/ /\ frame'[t].pc = "save" /\ frame'[t].ret = "idle"
            /\ frame'[t].snap = col'
         \/ frame'[t].pc = "notify"
  <2>1. frame[t].pc \in {"idle", "notify"}
    BY DEF UpdateEnabled, UpdateConfig, SaveConfig, Notified, Call, Runs
  <2>2. \/ \E c \in Columns : Save(t, c, "idle")
        \/ Begin(t, "notify", "idle", Null)
    <3>1. CASE \E b \in BOOLEAN : UpdateEnabled(t, b)
      BY <3>1 DEF UpdateEnabled, IInv, StateOK, Columns
    <3>2. CASE \E c \in Configs : UpdateConfig(t, c) \/ SaveConfig(t, c)
      BY <3>2 DEF UpdateConfig, SaveConfig, IInv, StateOK, Columns
    <3>3. CASE Notified(t)
      BY <3>3 DEF Notified, IInv, StateOK
    <3> QED
      BY <3>1, <3>2, <3>3
  <2> QED
    BY <1>1, <2>1, <2>2, BeginIs, SaveIs
<1>4. Wired'
  BY <1>1 DEF SInv, Wired, RunningWired, links, runtime, objects, server
<1>5. Good(frame[t])'
  <2>1. Progress(frame[t])'
    BY <1>1, <1>3
       DEF Progress, Down, Making, Unmaking, Switching, Dropping, LoadLabels, links
  <2>2. Leaks(frame[t])'
    BY <1>1, <1>2, <1>3
       DEF Good, Leaks, Unmaking, runtime, objects
  <2>3. Saves(frame[t])'
    BY <1>3 DEF Saves
  <2> QED
    BY <2>1, <2>2, <2>3 DEF Good
<1> QED
  BY <1>1, <1>3, <1>4, <1>5, After

\* POST /plugin/{id}/reload begins.
LEMMA ReloadStep ==
    ASSUME Overlap = FALSE, IInv, RefsInv, SInv, NEW t \in Tasks,
           NEW ty \in Types, NEW m \in Metas, ReloadPlugin(t, ty, m)
    PROVE  SInv'
<1>1. /\ AllIdle /\ frame[t].pc = "idle" /\ FramesOK
      /\ UNCHANGED <<columns, links, runtime, web, objects, server>>
  BY DEF ReloadPlugin, Runs, IInv
<1>2. Good(frame[t]) /\ Steps1(t)
  BY <1>1, Before DEF Steps1
<1>3. /\ OthersStay(t)
      /\ \/ /\ frame'[t].pc = "stop"
            /\ started
         \/ /\ frame'[t].pc = "reload" /\ frame'[t].arg.type = ty
            /\ ~started \/ ty \notin loaderRefs
  BY <1>1, BeginIs DEF ReloadPlugin
<1>4. Wired'
  BY <1>1 DEF SInv, Wired, RunningWired, links, runtime, objects, server
<1>5. Good(frame[t])'
  BY <1>1, <1>2, <1>3
     DEF Good, Progress, Down, Leaks, Saves, Making, Unmaking, Switching, Dropping, LoadLabels,
         columns, links, runtime, objects, server, SInv, Wired
<1> QED
  BY <1>2, <1>3, <1>4, <1>5, After

\* A task that is in progress may step, and is in a good state.
LEMMA Running ==
    ASSUME SInv, NEW t \in Tasks, NEW l, Runs(t, l), l # "idle"
    PROVE  frame[t].pc = l /\ Good(frame[t]) /\ Steps1(t)
BY Before DEF Runs, Steps1

\* The UPDATE commits.
LEMMA SavedStep ==
    ASSUME IInv, RefsInv, SInv, NEW t \in Tasks, Saved(t)
    PROVE  SInv'
<1>1. /\ frame[t].pc = "save" /\ Good(frame[t]) /\ Steps1(t) /\ FramesOK
      /\ UNCHANGED <<col, links, runtime, web, objects, server>>
      /\ row' = IF row = Null THEN Null ELSE frame[t].snap
  BY Running DEF Saved, IInv
<1>2. /\ OthersStay(t) /\ frame'[t].pc = frame[t].ret
      /\ frame'[t].pc # "idle" => frame'[t].obj = frame[t].obj
  BY <1>1 DEF Saved, OthersStay, FramesOK, Frames, NoFrame
<1>3. frame[t].ret \in {"idle", "start", "mkdb"}
  BY <1>1 DEF Good, Progress
<1>4. Wired'
  BY <1>1 DEF SInv, Wired, RunningWired, links, runtime, objects, server
<1>5. Good(frame[t])'
  BY <1>1, <1>2, <1>3
     DEF Good, Progress, Down, Leaks, Saves, Making, Unmaking, Switching, Dropping, LoadLabels,
         links, runtime, objects, server
<1> QED
  BY <1>1, <1>2, <1>4, <1>5, After

\* The UPDATE raises.
LEMMA SaveRaisesStep ==
    ASSUME IInv, SInv, NEW t \in Tasks, SaveRaises(t)
    PROVE  SInv'
<1>1. /\ frame[t].pc = "save" /\ Good(frame[t]) /\ Steps1(t) /\ unsaved' /\ ~deleted
      /\ UNCHANGED <<row, links, runtime, objects, server>>
  BY Running DEF SaveRaises, Good, Progress, Dropping
<1>2. /\ OthersStay(t)
      /\ \/ frame'[t].pc = "idle"
         \/ /\ frame'[t].pc = "save" /\ frame'[t].ret = "idle"
            /\ frame'[t].snap = col'
  BY FinishIs, DisableIs DEF SaveRaises, IInv
<1>3. Wired'
  BY <1>1 DEF SInv, Wired, RunningWired, links, runtime, objects, server
<1>4. Progress(frame[t])'
  BY <1>1, <1>2
     DEF Progress, Down, Making, Unmaking, Switching, Dropping, LoadLabels, links
<1>5. Leaks(frame[t])' /\ Saves(frame[t])'
  BY <1>1, <1>2 DEF Good, Leaks, Saves, Unmaking, runtime, objects
<1> QED
  BY <1>1, <1>2, <1>3, <1>4, <1>5, After DEF Good

\* The coroutine ends or disables the instance, and nothing else changes but
\* the link to the client that was looked up in vain: LoadMissing, NoClient,
\* LoadRaises, NoUser, StartIgnored, LoaderRaises, DbFailed.
LEMMA GivingUp ==
    ASSUME FramesOK, SInv, NEW t \in Tasks, NEW l, Runs(t, l),
           l \in {"load", "getclient", "reference", "getuser", "start", "loaded",
                  "mkdb", "dbstart"},
           Disable(t) \/ (Finish(t) /\ UNCHANGED col),
           UNCHANGED <<row, unsaved, loader, clientRefs, loaderRefs, deleted,
                       runtime, objects, server>>,
           lapses \subseteq lapses', l # "getclient" => UNCHANGED client
    PROVE  SInv'
<1>1. /\ frame[t].pc = l /\ Good(frame[t]) /\ Steps1(t) /\ ~deleted
  BY Running DEF Good, Progress, Dropping
<1>2. /\ OthersStay(t)
      /\ \/ frame'[t].pc = "idle" /\ col' = col
         \/ /\ frame'[t].pc = "save" /\ frame'[t].ret = "idle"
            /\ frame'[t].snap = col'
  BY FinishIs, DisableIs
<1>3. started => UNCHANGED client
  BY <1>1 DEF Good, Progress, Down
<1>4. Wired'
  BY <1>3 DEF SInv, Wired, RunningWired, runtime, objects, server
<1>5. Progress(frame[t])'
  BY <1>1, <1>2
     DEF Progress, Down, Making, Unmaking, Switching, Dropping, LoadLabels
<1>6. Leaks(frame[t])'
  BY <1>1, <1>2 DEF Good, Leaks, Unmaking, runtime, objects
<1>7. Saves(frame[t])'
  BY <1>1, <1>2 DEF Good, Saves
<1> QED
  BY <1>1, <1>2, <1>4, <1>5, <1>6, <1>7, After DEF Good

\* The steps that give up.
LEMMA GivingUpSteps ==
    ASSUME IInv, SInv, NEW t \in Tasks,
           \/ LoadMissing(t) \/ NoClient(t) \/ LoadRaises(t) \/ NoUser(t)
           \/ StartIgnored(t) \/ LoaderRaises(t) \/ DbFailed(t)
    PROVE  SInv'
<1>1. PICK l \in {"load", "getclient", "reference", "getuser", "start", "loaded",
                  "mkdb", "dbstart"} :
          Runs(t, l) /\ (l # "getclient" => UNCHANGED client)
  BY DEF LoadMissing, NoClient, LoadRaises, NoUser, StartIgnored, LoaderRaises,
     Ready, DbFailed, links
<1>2. Disable(t) \/ (Finish(t) /\ UNCHANGED col)
  BY DEF LoadMissing, NoClient, LoadRaises, NoUser, StartIgnored, LoaderRaises,
     DbFailed, columns
<1>3. /\ UNCHANGED <<row, unsaved, loader, clientRefs, loaderRefs, deleted,
                     runtime, objects, server>>
      /\ lapses \subseteq lapses'
  BY DEF LoadMissing, NoClient, LoadRaises, NoUser, StartIgnored, LoaderRaises,
     DbFailed, columns, links
<1> QED
  BY <1>1, <1>2, <1>3, GivingUp DEF IInv

\* load() links the loader, and leaves what a started instance has.
LEMMA LoadStep ==
    ASSUME IInv, SInv, NEW t \in Tasks, Load(t)
    PROVE  SInv'
<1>1. /\ frame[t].pc = "load" /\ Good(frame[t]) /\ Steps1(t) /\ ~deleted
  BY Running DEF Load, Good, Progress, Dropping
<1>2. /\ OthersStay(t) /\ frame'[t].ret = frame[t].ret
      /\ frame'[t].pc = IF client = Null THEN "getclient" ELSE "reference"
  BY DEF Load, OthersStay, IInv, FramesOK, Frames
<1>3. /\ UNCHANGED <<columns, client, clientRefs, loaderRefs, deleted, lapses,
                     runtime, objects, server>>
      /\ started => loader' = loader /\ client # Null
      /\ loader' # Null
  BY NullAssumption DEF Load, SInv, Wired, IInv, StateOK, Columns
<1>4. Wired'
  BY <1>1, <1>3 DEF SInv, Wired, RunningWired, runtime, objects, server
<1>5. Good(frame[t])'
  BY <1>1, <1>2, <1>3
     DEF Good, Progress, Down, Leaks, Saves, Making, Unmaking, Switching, Dropping,
         LoadLabels, columns, runtime, objects
<1> QED
  BY <1>1, <1>2, <1>4, <1>5, After

\* Client.get() answers load() of an instance that is stopped.
LEMMA GotClientStep ==
    ASSUME IInv, SInv, NEW t \in Tasks, GotClient(t)
    PROVE  SInv'
<1>1. /\ frame[t].pc = "getclient" /\ Good(frame[t]) /\ Steps1(t) /\ ~deleted
      /\ ~started
  BY Running DEF GotClient, Good, Progress, Down, Dropping
<1>2. /\ OthersStay(t) /\ frame'[t].ret = frame[t].ret
      /\ frame'[t].pc = "reference"
  BY GotoIs DEF GotClient, IInv
<1>3. /\ UNCHANGED <<columns, loader, clientRefs, loaderRefs, deleted, runtime,
                     objects, server>>
      /\ client' # Null /\ loader # Null
  BY <1>1, NullAssumption
     DEF GotClient, IInv, FramesOK, FrameOK, Linked, LinkedLabels
<1>4. Wired'
  BY <1>1, <1>3 DEF SInv, Wired, RunningWired, runtime
<1>5. Good(frame[t])'
  BY <1>1, <1>2, <1>3
     DEF Good, Progress, Down, Leaks, Saves, Making, Unmaking, Switching, Dropping,
         LoadLabels, columns, runtime, objects
<1> QED
  BY <1>1, <1>2, <1>4, <1>5, After

\* load() adds its references and returns.
LEMMA ReferenceStep ==
    ASSUME IInv, SInv, NEW t \in Tasks, Reference(t)
    PROVE  SInv'
<1>1. /\ frame[t].pc = "reference" /\ Good(frame[t]) /\ Steps1(t) /\ ~deleted
      /\ client # Null /\ loader # Null
  BY Running DEF Reference, Good, Progress, Dropping
<1>2. /\ OthersStay(t) /\ frame'[t].pc = frame[t].ret
      /\ frame[t].ret \in {"idle", "loaded"}
  BY <1>1, ReturnIs DEF Reference, IInv, FramesOK, FrameOK, LoadLabels
<1>3. /\ UNCHANGED <<columns, client, loader, deleted, runtime, objects, server>>
      /\ "bypassed" \in lapses => "bypassed" \in lapses'
  BY DEF Reference
<1>4. Wired'
  BY <1>1, <1>3 DEF SInv, Wired, RunningWired, runtime, objects, server
<1>5. Good(frame[t])'
  BY <1>1, <1>2, <1>3
     DEF Good, Progress, Down, Leaks, Saves, Making, Unmaking, Switching, Dropping,
         LoadLabels, columns, runtime, objects
<1> QED
  BY <1>1, <1>2, <1>4, <1>5, After

\* update_primary_user() goes on to stop().
LEMMA GotUserStep ==
    ASSUME IInv, SInv, NEW t \in Tasks, GotUser(t)
    PROVE  SInv'
<1>1. /\ frame[t].pc = "getuser" /\ Good(frame[t]) /\ Steps1(t)
      /\ UNCHANGED <<columns, links, runtime, objects, server>>
  BY Running DEF GotUser
<1>2. OthersStay(t) /\ frame'[t].pc = "stop"
  BY DEF GotUser, OthersStay, IInv, FramesOK, Frames
<1>3. Wired'
  BY <1>1 DEF SInv, Wired, RunningWired, links, runtime, objects, server
<1>4. Good(frame[t])'
  BY <1>1, <1>2
     DEF Good, Progress, Down, Leaks, Saves, Making, Unmaking, Switching, Dropping,
         LoadLabels, columns, links, runtime, objects
<1> QED
  BY <1>1, <1>2, <1>3, <1>4, After

\* start() calls load() first.
LEMMA StartLoadsStep ==
    ASSUME IInv, SInv, NEW t \in Tasks, StartLoads(t)
    PROVE  SInv'
<1>1. /\ frame[t].pc = "start" /\ Good(frame[t]) /\ Steps1(t) /\ ~started
      /\ UNCHANGED <<columns, links, runtime, objects, server>>
  BY Running DEF StartLoads
<1>2. /\ OthersStay(t) /\ frame'[t].pc = "load" /\ frame'[t].ret = "loaded"
  BY DEF StartLoads, OthersStay, IInv, FramesOK, Frames
<1>3. Wired'
  BY <1>1 DEF SInv, Wired, RunningWired, links, runtime, objects, server
<1>4. Good(frame[t])'
  BY <1>1, <1>2
     DEF Good, Progress, Down, Leaks, Saves, Making, Unmaking, Switching, Dropping, LoadLabels,
         columns, links, runtime, objects
<1> QED
  BY <1>1, <1>2, <1>3, <1>4, After

\* start() makes an attempt: nothing but faulty attempts has handlers or an
\* open database.
LEMMA StartStep ==
    ASSUME IInv, SInv, NEW t \in Tasks, Start(t)
    PROVE  SInv'
<1>a. PICK l \in {"start", "loaded"} : Runs(t, l)
  BY DEF Start, Ready
<1>b. frame[t].pc \in {"start", "loaded"} /\ Good(frame[t]) /\ Steps1(t)
  BY <1>a, Running
<1>c. ~started /\ ~deleted /\ client # Null /\ loader # Null
  BY <1>b DEF Start, Ready, Runs, Good, Progress, Down, Dropping
<1>1. /\ frame[t].pc \in {"start", "loaded"} /\ Good(frame[t]) /\ Steps1(t)
      /\ ~started /\ ~deleted /\ client # Null /\ loader # Null
      /\ attempts' = attempts + 1
      /\ UNCHANGED <<row, unsaved, links, runtime, built, registered, open, faulty,
                     server>>
  BY <1>b, <1>c DEF Start, StartBody
<1>2. /\ OthersStay(t) /\ frame'[t].obj = attempts'
      /\ \/ /\ frame'[t].pc = "save" /\ frame'[t].ret = "mkdb"
            /\ frame'[t].snap = col'
         \/ frame'[t].pc = "mkdb" /\ col' = col
         \/ /\ frame'[t].pc = "mkplugin" /\ col' = col
            /\ ~meta[loader].database
  <2>1. CASE meta[loader].database /\ col.database_engine = Null
    BY <1>1, <2>1 DEF Start, StartBody, OthersStay, IInv, FramesOK, Frames
  <2>2. CASE ~(meta[loader].database /\ col.database_engine = Null)
    <3>1. /\ GotoWith(t, IF meta[loader].database THEN "mkdb" ELSE "mkplugin",
                      attempts + 1)
          /\ UNCHANGED col
      BY <2>2 DEF Start, StartBody
    <3> QED
      BY <1>1, <3>1, GotoWithIs DEF IInv
  <2> QED
    BY <2>1, <2>2
<1>3. Wired'
  BY <1>1 DEF SInv, Wired, RunningWired, links, runtime
<1>4. Progress(frame[t])'
  BY <1>1, <1>2
     DEF Progress, Down, Making, Unmaking, Switching, Dropping, LoadLabels, links, runtime,
         server
<1>5. Leaks(frame[t])'
  BY <1>1, <1>2 DEF Good, Leaks, Unmaking, runtime
<1>6. Saves(frame[t])'
  BY <1>1, <1>2 DEF Good, Saves
<1> QED
  BY <1>1, <1>2, <1>3, <1>4, <1>5, <1>6, After DEF Good

\* start_database() makes the handle.
LEMMA MakeDbStep ==
    ASSUME IInv, SInv, NEW t \in Tasks, MakeDb(t)
    PROVE  SInv'
<1>1. /\ frame[t].pc = "mkdb" /\ Good(frame[t]) /\ Steps1(t)
      /\ inst_db' = frame[t].obj
      /\ UNCHANGED <<columns, links, started, plugin, objects, server>>
  BY Running DEF MakeDb
<1>2. /\ OthersStay(t) /\ frame'[t].pc = "dbstart" /\ frame'[t].obj = frame[t].obj
  BY GotoIs DEF MakeDb, IInv
<1>3. ~started /\ ~deleted /\ frame[t].obj = attempts /\ client # Null /\ loader # Null
  BY <1>1 DEF Good, Progress, Down, Making, Dropping
<1>4. Wired'
  BY <1>1, <1>3 DEF SInv, Wired, RunningWired, links
<1>5. Good(frame[t])'
  BY <1>1, <1>2, <1>3
     DEF Good, Progress, Down, Leaks, Saves, Making, Unmaking, Switching, Dropping, LoadLabels,
         columns, links, objects
<1> QED
  BY <1>1, <1>2, <1>4, <1>5, After

\* The handle is started.
LEMMA DbStartedStep ==
    ASSUME IInv, SInv, NEW t \in Tasks, DbStarted(t)
    PROVE  SInv'
<1>1. /\ frame[t].pc = "dbstart" /\ Good(frame[t]) /\ Steps1(t)
      /\ open' = open \cup {frame[t].obj}
      /\ UNCHANGED <<columns, links, runtime, attempts, built, registered, faulty,
                     server>>
  BY Running DEF DbStarted
<1>2. /\ OthersStay(t) /\ frame'[t].pc = "mkplugin" /\ frame'[t].obj = frame[t].obj
  BY GotoIs DEF DbStarted, IInv
<1>3. /\ ~started /\ ~deleted /\ frame[t].obj = attempts /\ client # Null
      /\ loader # Null /\ inst_db = frame[t].obj
  BY <1>1 DEF Good, Progress, Down, Making, Dropping
<1>4. Wired'
  BY <1>1, <1>3 DEF SInv, Wired, RunningWired, links, runtime
<1>5. Good(frame[t])'
  BY <1>1, <1>2, <1>3
     DEF Good, Progress, Down, Leaks, Saves, Making, Unmaking, Switching, Dropping, LoadLabels,
         columns, links, runtime, server
<1> QED
  BY <1>1, <1>2, <1>4, <1>5, After

\* The plugin object is made of the links of the moment.
LEMMA MakePluginStep ==
    ASSUME IInv, SInv, NEW t \in Tasks, MakePlugin(t)
    PROVE  SInv'
<1>1. /\ frame[t].pc = "mkplugin" /\ Good(frame[t]) /\ Steps1(t)
      /\ plugin' = frame[t].obj
      /\ UNCHANGED <<columns, links, started, inst_db, attempts, registered, open,
                     faulty, server>>
  BY Running DEF MakePlugin
<1>2. /\ OthersStay(t) /\ frame'[t].pc = "prestart" /\ frame'[t].obj = frame[t].obj
  BY GotoIs DEF MakePlugin, IInv
<1>3. /\ ~started /\ ~deleted /\ frame[t].obj = attempts /\ client # Null
      /\ loader # Null /\ (meta[loader].database => inst_db \in open)
  BY <1>1 DEF Good, Progress, Down, Making, Dropping
<1>4. /\ built'[frame[t].obj].client = client /\ built'[frame[t].obj].type = loader
      /\ built'[frame[t].obj].db = inst_db
  <2>1. frame[t].obj \in Attempts
    BY <1>1 DEF IInv, FramesOK, FrameOK, ObjLabels
  <2> QED
    BY <2>1 DEF MakePlugin, IInv, StateOK
<1>5. Wired'
  BY <1>1, <1>3 DEF SInv, Wired, RunningWired, links
<1>6. Progress(frame[t])'
  BY <1>1, <1>2, <1>3, <1>4
     DEF Progress, Down, Making, Unmaking, Switching, Dropping, LoadLabels, links, server
<1>7. Leaks(frame[t])' /\ Saves(frame[t])'
  BY <1>1, <1>2, <1>3 DEF Good, Leaks, Saves, Unmaking, columns
<1> QED
  BY <1>1, <1>2, <1>5, <1>6, <1>7, After DEF Good

\* pre_start() returns: the plugin has its handlers.
LEMMA PreStartedStep ==
    ASSUME IInv, SInv, NEW t \in Tasks, PreStarted(t)
    PROVE  SInv'
<1>1. /\ frame[t].pc = "prestart" /\ Good(frame[t]) /\ Steps1(t)
      /\ registered' = registered \cup {frame[t].obj}
      /\ UNCHANGED <<columns, links, runtime, attempts, built, open, faulty, server>>
  BY Running DEF PreStarted
<1>2. /\ OthersStay(t) /\ frame'[t].pc = "pluginstart"
      /\ frame'[t].obj = frame[t].obj
  BY GotoIs DEF PreStarted, IInv
<1>3. ~started
  BY <1>1 DEF Good, Progress, Down, Making
<1>4. Wired'
  BY <1>1, <1>3 DEF SInv, Wired, RunningWired, links, runtime
<1>5. Progress(frame[t])'
  BY <1>1, <1>2
     DEF Good, Progress, Down, Making, Unmaking, Switching, Dropping, LoadLabels, links, runtime,
         server
<1>6. Leaks(frame[t])' /\ Saves(frame[t])'
  BY <1>1, <1>2, <1>3 DEF Good, Leaks, Saves, Unmaking, columns, runtime
<1> QED
  BY <1>1, <1>2, <1>4, <1>5, <1>6, After DEF Good

\* start() returns: the instance is started, and everything is in place.
LEMMA PluginStartedStep ==
    ASSUME IInv, SInv, NEW t \in Tasks, PluginStarted(t)
    PROVE  SInv'
<1>1. /\ frame[t].pc = "pluginstart" /\ Good(frame[t]) /\ Steps1(t) /\ started'
      /\ UNCHANGED <<columns, links, plugin, inst_db, objects, server>>
  BY Running DEF PluginStarted
<1>2. OthersStay(t) /\ frame'[t].pc = "idle"
  BY FinishIs DEF PluginStarted, IInv
<1>3. Wired'
  BY <1>1
     DEF SInv, Wired, RunningWired, Good, Progress, Making, Dropping, links, objects,
         server
<1>4. Progress(frame[t])'
  BY <1>2 DEF Progress, Down, Making, Unmaking, Switching, Dropping, LoadLabels
<1>5. Leaks(frame[t])' /\ Saves(frame[t])'
  BY <1>1, <1>2 DEF Good, Leaks, Saves, Progress, Unmaking, columns, objects
<1> QED
  BY <1>1, <1>2, <1>3, <1>4, <1>5, After DEF Good

\* The constructor, pre_start() or start() of the plugin raises: what the
\* attempt leaves behind is from then on counted as the failure's.
LEMMA AttemptRaises ==
    ASSUME IInv, SInv, NEW t \in Tasks, MakePluginRaises(t) \/ PluginStartRaises(t)
    PROVE  SInv'
<1>1. /\ frame[t].pc \in {"mkplugin", "prestart", "pluginstart"}
      /\ Good(frame[t]) /\ Steps1(t)
      /\ faulty' = faulty \cup {frame[t].obj}
      /\ UNCHANGED <<row, unsaved, links, runtime, attempts, built, registered, open,
                     server>>
  BY Running DEF MakePluginRaises, PluginStartRaises, columns
<1>2. /\ OthersStay(t)
      /\ \/ frame'[t].pc = "idle" /\ col' = col
         \/ /\ frame'[t].pc = "save" /\ frame'[t].ret = "idle"
            /\ frame'[t].snap = col'
  BY FinishIs, DisableIs DEF MakePluginRaises, PluginStartRaises, columns, IInv
<1>3. ~started /\ ~deleted
  BY <1>1 DEF Good, Progress, Down, Making, Dropping
<1>4. Wired'
  BY <1>1, <1>3 DEF SInv, Wired, RunningWired, links, runtime
<1>5. Progress(frame[t])'
  BY <1>1, <1>2, <1>3
     DEF Progress, Down, Making, Unmaking, Switching, Dropping, LoadLabels, links
<1>6. Leaks(frame[t])' /\ Saves(frame[t])'
  BY <1>1, <1>2, <1>3 DEF Good, Leaks, Saves, Unmaking, runtime
<1> QED
  BY <1>1, <1>2, <1>4, <1>5, <1>6, After DEF Good

\* stop() returns to its caller with the instance stopped.
LEMMA Returning ==
    ASSUME FramesOK, NEW t \in Tasks, Return(t),
           frame[t].pc \notin LoadLabels \cup {"save"}, ~started', ~deleted'
    PROVE  /\ OthersStay(t) /\ Progress(frame[t])'
           /\ frame'[t].pc \in {"idle", "start", "switchuser", "switchtype", "drop",
                                "reload"}
<1>1. /\ OthersStay(t) /\ frame'[t].pc = frame[t].ret
      /\ frame'[t].pc # "idle" => frame'[t].ret = "idle"
  BY ReturnIs
<1>2. frame[t].ret \in {"idle", "start", "switchuser", "switchtype", "drop", "reload"}
  BY DEF FramesOK, Frames, FrameOK
<1> QED
  BY <1>1, <1>2 DEF Progress, Down, Making, Unmaking, Switching, Dropping, LoadLabels

\* stop() of an instance that is stopped.
LEMMA StopIgnoredStep ==
    ASSUME IInv, SInv, NEW t \in Tasks, StopIgnored(t)
    PROVE  SInv'
<1>1. /\ frame[t].pc = "stop" /\ Good(frame[t]) /\ Steps1(t)
      /\ ~started /\ ~deleted
      /\ UNCHANGED <<columns, links, runtime, objects, server>>
  BY Running DEF StopIgnored, Good, Progress, Dropping
<1>2. /\ OthersStay(t) /\ Progress(frame[t])'
      /\ frame'[t].pc \in {"idle", "start", "switchuser", "switchtype", "drop",
                           "reload"}
  BY <1>1, Returning DEF StopIgnored, IInv, LoadLabels, links, runtime
<1>3. Wired'
  BY <1>1 DEF SInv, Wired, RunningWired, links, runtime, objects, server
<1>4. Leaks(frame[t])' /\ Saves(frame[t])'
  BY <1>1, <1>2 DEF Good, Leaks, Saves, Unmaking, columns, runtime, objects
<1> QED
  BY <1>1, <1>2, <1>3, <1>4, After DEF Good

\* stop() of a started instance: its plugin object is the one with handlers.
LEMMA StopStep ==
    ASSUME IInv, SInv, NEW t \in Tasks, Stop(t)
    PROVE  SInv'
<1>1. /\ frame[t].pc = "stop" /\ Good(frame[t]) /\ Steps1(t)
      /\ started /\ ~started' /\ ~deleted
      /\ UNCHANGED <<columns, links, plugin, inst_db, objects, server>>
  BY Running DEF Stop, Good, Progress, Dropping
<1>2. plugin \in registered /\ plugin # 0
  BY <1>1 DEF SInv, Wired, RunningWired, IInv, StateOK, Attempts
<1>3. OthersStay(t) /\ frame'[t].pc = "prestop" /\ frame'[t].obj = plugin
  BY <1>2, GotoWithIs DEF Stop, IInv
<1>4. Wired'
  BY <1>1 DEF SInv, Wired, RunningWired, links
<1>5. Progress(frame[t])'
  BY <1>1, <1>3
     DEF Progress, Down, Making, Unmaking, Switching, Dropping, LoadLabels, links
<1>6. Leaks(frame[t])' /\ Saves(frame[t])'
  BY <1>1, <1>3 DEF Good, Leaks, Saves, Unmaking, columns, objects
<1> QED
  BY <1>1, <1>3, <1>4, <1>5, <1>6, After DEF Good

\* The hooks of internal_stop() return or raise.
LEMMA HooksStep ==
    ASSUME IInv, SInv, NEW t \in Tasks,
           PreStopped(t) \/ PreStopRaises(t) \/ PluginStopped(t)
    PROVE  SInv'
<1>1. /\ frame[t].pc \in {"prestop", "pluginstop"} /\ Good(frame[t]) /\ Steps1(t)
      /\ UNCHANGED <<columns, links, runtime, attempts, built, open, server>>
  BY Running DEF PreStopped, PreStopRaises, PluginStopped, objects
<1>2. OthersStay(t) /\ frame'[t].pc \in {"pluginstop", "stopped"}
  BY GotoIs DEF PreStopped, PreStopRaises, PluginStopped, IInv
<1>3. ~started /\ ~deleted
  BY <1>1 DEF Good, Progress, Down, Unmaking, Dropping
<1>4. Wired'
  BY <1>1, <1>3 DEF SInv, Wired, RunningWired, links, runtime
<1>5. Progress(frame[t])'
  BY <1>1, <1>2, <1>3
     DEF Progress, Down, Making, Unmaking, Switching, Dropping, LoadLabels, links, runtime
<1>6. /\ faulty \subseteq faulty'
      /\ \A n \in registered' : n \in faulty'
  <2>1. CASE PreStopped(t)
    BY <1>1, <1>3, <2>1 DEF PreStopped, Good, Leaks
  <2>2. CASE PreStopRaises(t)
    BY <1>1, <1>3, <2>2 DEF PreStopRaises, Good, Leaks
  <2>3. CASE PluginStopped(t)
    <3>1. frame[t].pc = "pluginstop"
      BY <2>3 DEF PluginStopped, Runs
    <3> QED
      BY <1>1, <1>3, <2>3, <3>1 DEF PluginStopped, Good, Leaks, objects
  <2> QED
    BY <2>1, <2>2, <2>3
<1>7. Leaks(frame[t])' /\ Saves(frame[t])'
  BY <1>1, <1>2, <1>3, <1>6 DEF Good, Leaks, Saves, Unmaking, columns, runtime
<1> QED
  BY <1>1, <1>2, <1>4, <1>5, <1>7, After DEF Good

\* self.plugin = None, and the database is stopped next if there is one.
LEMMA StoppedStep ==
    ASSUME IInv, SInv, NEW t \in Tasks, Stopped(t)
    PROVE  SInv'
<1>1. /\ frame[t].pc = "stopped" /\ Good(frame[t]) /\ Steps1(t)
      /\ UNCHANGED <<columns, links, started, inst_db, objects, server>>
  BY Running DEF Stopped
<1>2. ~started /\ ~deleted
  BY <1>1 DEF Good, Progress, Down, Unmaking, Dropping
<1>3. Wired'
  BY <1>1, <1>2 DEF SInv, Wired, RunningWired, links
<1>4. CASE inst_db = 0
  <2>1. /\ OthersStay(t) /\ Progress(frame[t])'
        /\ frame'[t].pc \in {"idle", "start", "switchuser", "switchtype", "drop",
                             "reload"}
    <3>1. FramesOK /\ Return(t) /\ ~started' /\ ~deleted'
      BY <1>1, <1>2, <1>4 DEF Stopped, IInv, links
    <3>2. frame[t].pc \notin LoadLabels \cup {"save"}
      BY <1>1 DEF LoadLabels
    <3> QED
      BY <3>1, <3>2, Returning
  <2>2. inst_db \notin open
    BY <1>4 DEF IInv, StateOK, Attempts
  <2>3. Leaks(frame[t])' /\ Saves(frame[t])'
    BY <1>1, <1>2, <2>1, <2>2 DEF Good, Leaks, Saves, Unmaking, columns, objects
  <2> QED
    BY <1>1, <1>3, <2>1, <2>3, After DEF Good
<1>5. CASE inst_db # 0
  <2>1. OthersStay(t) /\ frame'[t].pc = "dbstop" /\ frame'[t].obj = inst_db
    BY <1>5, GotoWithIs DEF Stopped, IInv
  <2>2. Progress(frame[t])'
    BY <1>1, <1>2, <2>1
       DEF Progress, Down, Making, Unmaking, Switching, Dropping, LoadLabels, links
  <2>3. Leaks(frame[t])' /\ Saves(frame[t])'
    BY <1>1, <1>2, <2>1 DEF Good, Leaks, Saves, Unmaking, columns, objects
  <2> QED
    BY <1>1, <1>3, <2>1, <2>2, <2>3, After DEF Good
<1> QED
  BY <1>4, <1>5

\* The database handle is stopped, or its stop raises.
LEMMA DbStopStep ==
    ASSUME IInv, SInv, NEW t \in Tasks, DbStopped(t) \/ DbStopRaises(t)
    PROVE  SInv'
<1>1. /\ frame[t].pc = "dbstop" /\ Good(frame[t]) /\ Steps1(t)
      /\ UNCHANGED <<columns, links, runtime, attempts, built, registered, server>>
  BY Running DEF DbStopped, DbStopRaises
<1>2. ~started /\ ~deleted /\ frame[t].obj = inst_db
  BY <1>1 DEF Good, Progress, Down, Unmaking, Dropping
<1>3. Wired'
  BY <1>1, <1>2 DEF SInv, Wired, RunningWired, links, runtime
<1>4. /\ OthersStay(t) /\ Progress(frame[t])'
      /\ frame'[t].pc \in {"idle", "start", "switchuser", "switchtype", "drop",
                           "reload"}
  BY <1>1, <1>2, Returning
     DEF DbStopped, DbStopRaises, IInv, LoadLabels, links, runtime
<1>5. /\ faulty \subseteq faulty'
      /\ \A n \in open' : n \in faulty'
  BY <1>1, <1>2 DEF DbStopped, DbStopRaises, Good, Leaks
<1>6. Leaks(frame[t])' /\ Saves(frame[t])'
  BY <1>1, <1>2, <1>4, <1>5 DEF Good, Leaks, Saves, Unmaking, columns, runtime
<1> QED
  BY <1>1, <1>3, <1>4, <1>6, After DEF Good

\* on_external_config_update() raises.
LEMMA NotifyRaisesStep ==
    ASSUME IInv, SInv, NEW t \in Tasks, NotifyRaises(t)
    PROVE  SInv'
<1>1. /\ frame[t].pc = "notify" /\ Good(frame[t]) /\ Steps1(t) /\ unsaved'
      /\ UNCHANGED <<col, row, links, runtime, objects, server>>
  BY Running DEF NotifyRaises
<1>2. OthersStay(t) /\ frame'[t].pc = "idle"
  BY FinishIs DEF NotifyRaises, IInv
<1>3. Wired'
  BY <1>1 DEF SInv, Wired, RunningWired, links, runtime, objects, server
<1>4. Good(frame[t])'
  BY <1>1, <1>2
     DEF Good, Progress, Down, Leaks, Saves, Making, Unmaking, Switching, Dropping, LoadLabels,
         runtime, objects
<1> QED
  BY <1>1, <1>2, <1>3, <1>4, After

\* The client or the loader of a stopped instance is switched and the row
\* saved, or an exception ends the coroutine.
LEMMA SwitchSteps ==
    ASSUME IInv, SInv, NEW t \in Tasks, SwitchUser(t) \/ SwitchType(t)
    PROVE  SInv'
<1>1. /\ frame[t].pc \in Switching /\ Good(frame[t]) /\ Steps1(t)
      /\ UNCHANGED <<row, deleted, lapses, runtime, objects, server>>
  BY Running DEF SwitchUser, SwitchType, Switching
<1>2. ~started /\ ~deleted
  BY <1>1 DEF Good, Progress, Down, Switching, Dropping
<1>4. \/ /\ \E c \in Columns : Save(t, c, "start")
         /\ UNCHANGED unsaved
      \/ Finish(t) /\ (unsaved' \/ UNCHANGED <<col, unsaved>>)
  <2>1. CASE SwitchUser(t)
    <3>1. frame[t].arg \in Users
      BY <2>1 DEF SwitchUser, Runs, IInv, FramesOK, FrameOK
    <3>2. [col EXCEPT !.primary_user = frame[t].arg] \in Columns
      BY <3>1 DEF IInv, StateOK, Columns
    <3> QED
      BY <2>1, <3>2 DEF SwitchUser
  <2>2. CASE SwitchType(t)
    <3>1. frame[t].arg \in Types
      BY <2>2 DEF SwitchType, Runs, IInv, FramesOK, FrameOK
    <3>2. [col EXCEPT !.type = frame[t].arg] \in Columns
      BY <3>1 DEF IInv, StateOK, Columns
    <3>3. unsaved \in BOOLEAN
      BY DEF IInv, StateOK
    <3> QED
      BY <2>2, <3>2, <3>3 DEF SwitchType
  <2> QED
    BY <2>1, <2>2
<1>5. /\ OthersStay(t)
      /\ \/ /\ frame'[t].pc = "save" /\ frame'[t].ret = "start"
            /\ frame'[t].snap = col'
         \/ /\ frame'[t].pc = "idle"
            /\ unsaved' \/ UNCHANGED <<col, unsaved>>
  BY <1>4, SaveIs, FinishIs DEF IInv
<1>6. Wired'
  <2>1. UNCHANGED loaderRefs \/ ~deleted
    BY <1>2
  <2> QED
    BY <1>1, <1>2, <2>1 DEF SInv, Wired, RunningWired, runtime
<1>7. Progress(frame[t])'
  BY <1>1, <1>2, <1>5
     DEF Progress, Down, Making, Unmaking, Switching, Dropping, LoadLabels, runtime
<1>8. Leaks(frame[t])' /\ Saves(frame[t])'
  BY <1>1, <1>2, <1>5
     DEF Good, Leaks, Saves, Unmaking, Switching, runtime, objects
<1> QED
  BY <1>1, <1>5, <1>6, <1>7, <1>8, After DEF Good

\* delete() takes the references away, or fails because one is missing.
LEMMA DropStep ==
    ASSUME IInv, RefsInv, SInv, NEW t \in Tasks, Drop(t)
    PROVE  SInv'
<1>1. /\ frame[t].pc = "drop" /\ Good(frame[t]) /\ Steps1(t)
      /\ UNCHANGED <<columns, client, loader, lapses, runtime, objects, server>>
  BY Running DEF Drop
<1>2. ~started /\ ~deleted
  BY <1>1 DEF Good, Progress, Down, Switching, Dropping
<1>3. loaderRefs \ {loader} = {}
  BY <1>2 DEF RefsInv, RefsMatch
<1>4. \/ Goto(t, "rowdelete") /\ deleted' /\ loaderRefs' = {}
      \/ Finish(t) /\ ~deleted'
  BY <1>2, <1>3 DEF Drop
<1>5. /\ OthersStay(t)
      /\ \/ frame'[t].pc = "rowdelete" /\ deleted' /\ loaderRefs' = {}
         \/ frame'[t].pc = "idle" /\ ~deleted'
  BY <1>4, GotoIs, FinishIs DEF IInv
<1>6. Wired'
  BY <1>1, <1>2, <1>5 DEF SInv, Wired, RunningWired, runtime
<1>7. Progress(frame[t])'
  BY <1>1, <1>2, <1>5
     DEF Progress, Down, Making, Unmaking, Switching, Dropping, LoadLabels, runtime
<1>8. Leaks(frame[t])' /\ Saves(frame[t])'
  BY <1>1, <1>2, <1>5 DEF Good, Leaks, Saves, Unmaking, columns, runtime, objects
<1> QED
  BY <1>1, <1>5, <1>6, <1>7, <1>8, After DEF Good

\* The row goes, then the database, or one of these calls raises.
LEMMA DroppingSteps ==
    ASSUME IInv, SInv, NEW t \in Tasks,
           \/ RowDeleted(t) \/ DropDbStopped(t) \/ DbDeleted(t) \/ DropRaises(t)
    PROVE  SInv'
<1>1. /\ frame[t].pc \in Dropping /\ Good(frame[t]) /\ Steps1(t)
      /\ UNCHANGED <<col, unsaved, links, started, plugin, attempts, built,
                     registered, server>>
      /\ row' = row \/ row' = Null
      /\ open' \subseteq open /\ faulty \subseteq faulty'
  BY Running
     DEF RowDeleted, DropDbStopped, DbDeleted, DropRaises, Dropping, columns, runtime,
         objects
<1>2. ~started
  BY <1>1 DEF Good, Progress, Down
<1>3. OthersStay(t) /\ frame'[t].pc \in {"idle", "dropdbstop", "dropdb"}
  BY FinishIs, GotoIs, GotoWithIs
     DEF RowDeleted, DropDbStopped, DbDeleted, DropRaises, IInv
<1>4. Wired'
  BY <1>1, <1>2 DEF SInv, Wired, RunningWired, links
<1>5. Progress(frame[t])'
  BY <1>1, <1>2, <1>3
     DEF Progress, Down, Making, Unmaking, Switching, Dropping, LoadLabels
<1>6. Leaks(frame[t])' /\ Saves(frame[t])'
  BY <1>1, <1>2, <1>3 DEF Good, Leaks, Saves, Unmaking, Dropping
<1> QED
  BY <1>1, <1>3, <1>4, <1>5, <1>6, After DEF Good

\* The meta of a plugin that a started instance does not run may change, and
\* that of the one it runs if the reload passes the instance by.
LEMMA MetaChanged ==
    ASSUME IInv, Wired, NEW ty, NEW m,
           started /\ ty = loader => "bypassed" \in lapses',
           meta' = meta \/ meta' = [meta EXCEPT ![ty] = m],
           lapses \subseteq lapses',
           UNCHANGED <<client, loader, loaderRefs, deleted, runtime, objects>>
    PROVE  Wired'
<1>1. meta \in [Types -> Metas] /\ loader \in Types \cup {Null}
  BY DEF IInv, StateOK
<1>2. started => /\ ~deleted /\ client # Null /\ loader # Null
                 /\ meta'[loader].database =>
                       inst_db \in open \/ "bypassed" \in lapses'
  BY <1>1 DEF Wired, RunningWired
<1> QED
  BY <1>2 DEF Wired, RunningWired, runtime, objects

\* reload() returns or raises.
LEMMA ReloadSteps ==
    ASSUME IInv, SInv, NEW t \in Tasks, Reloaded(t) \/ ReloadFails(t)
    PROVE  SInv'
<1>1. /\ frame[t].pc = "reload" /\ Good(frame[t]) /\ Steps1(t)
      /\ UNCHANGED <<columns, client, loader, clientRefs, loaderRefs, deleted,
                     runtime, objects, plugins>>
  BY Running DEF Reloaded, ReloadFails
<1>2. ~started \/ frame[t].arg.type \notin loaderRefs
  BY <1>1 DEF Good, Progress
<1>3. NewMeta(t) \/ UNCHANGED <<meta, lapses>>
  BY DEF Reloaded, ReloadFails
<1>4. /\ OthersStay(t)
      /\ \/ frame'[t].pc = "idle"
         \/ /\ frame'[t].pc = "start" /\ frame'[t].ret = "idle"
            /\ ~deleted
  BY BeginIs, FinishIs DEF Reloaded, ReloadFails, IInv, SInv, Wired
<1>5. Wired'
  <2>1. CASE NewMeta(t)
    <3>1. /\ started /\ frame[t].arg.type = loader => "bypassed" \in lapses'
          /\ lapses \subseteq lapses'
          /\ meta' = [meta EXCEPT ![frame[t].arg.type] = frame[t].arg.meta]
      BY <1>2, <2>1 DEF NewMeta
    <3> QED
      BY <1>1, <3>1, MetaChanged DEF SInv
  <2>2. CASE UNCHANGED <<meta, lapses>>
    BY <1>1, <2>2 DEF SInv, Wired, RunningWired, runtime, objects
  <2> QED
    BY <1>3, <2>1, <2>2
<1>6. Progress(frame[t])'
  BY <1>1, <1>4 DEF Progress, Down, Making, Unmaking, Switching, Dropping, LoadLabels
<1>7. Leaks(frame[t])' /\ Saves(frame[t])'
  BY <1>1, <1>4 DEF Good, Leaks, Saves, Unmaking, columns, runtime, objects
<1> QED
  BY <1>1, <1>4, <1>5, <1>6, <1>7, After DEF Good

\* Plugins come and go between calls, and none that the instance runs.
LEMMA ServerSteps ==
    ASSUME Overlap = FALSE, IInv, RefsInv, SInv, NEW ty \in Types,
           DeletePlugin(ty) \/ \E m \in Metas : UploadNew(ty, m)
    PROVE  SInv'
<1>1. /\ AllIdle /\ UNCHANGED <<columns, links, runtime, objects, frame>>
  BY DEF DeletePlugin, UploadNew, Elsewhere
<1>2. \E m : /\ meta' = meta \/ meta' = [meta EXCEPT ![ty] = m]
             /\ meta' # meta => plugins[ty] = "absent"
  BY DEF DeletePlugin, UploadNew
<1>3. Wired'
  <2>1. CASE meta' = meta
    BY <1>1, <2>1 DEF SInv, Wired, RunningWired, links, runtime, objects
  <2>2. CASE meta' # meta
    <3>1. started => ty # loader
      BY <1>2, <2>2 DEF SInv, Wired, RefsInv, LoaderKnown
    <3> QED
      BY <1>1, <1>2, <2>2, <3>1, MetaChanged DEF SInv, links
  <2> QED
    BY <2>1, <2>2
<1>4. AllIdle' /\ Alone'
  BY <1>1 DEF AllIdle, Alone, SInv
<1>5. Good(NoFrame)'
  <2>1. Good(NoFrame)
    BY <1>1 DEF SInv
  <2>2. NoFrame.pc = "idle"
    BY DEF NoFrame
  <2> QED
    BY <1>1, <2>1, <2>2
       DEF Good, Progress, Down, Leaks, Saves, Making, Unmaking, Switching, Dropping, LoadLabels,
           columns, runtime, objects
<1> QED
  BY <1>3, <1>4, <1>5 DEF SInv, AllIdle

\* A fresh instance.
LEMMA InitSInv == Init => SInv
<1> SUFFICES ASSUME Init PROVE SInv
  OBVIOUS
<1>1. \A t \in Tasks : frame[t] = NoFrame
  BY DEF Init
<1>2. NoFrame.pc = "idle"
  BY DEF NoFrame
<1>3. Alone /\ Wired
  BY <1>1, <1>2 DEF Init, Alone, Wired, RunningWired
<1>4. Good(NoFrame)
  BY <1>2
     DEF Init, Good, Progress, Down, Leaks, Saves, Making, Unmaking, Switching, Dropping, LoadLabels
<1> QED
  BY <1>1, <1>2, <1>3, <1>4 DEF SInv

\* Every step keeps the invariant when calls do not overlap.
LEMMA StepSInv ==
    ASSUME Overlap = FALSE, IInv, RefsInv, SInv, [Next]_vars
    PROVE  SInv'
<1>1. ASSUME NEW t \in Tasks, Calls(t) PROVE SInv'
  BY <1>1, CallSteps, SaveSteps, ReloadStep DEF Calls
<1>2. ASSUME NEW t \in Tasks, Steps(t) PROVE SInv'
  BY <1>2, SaveSteps, SavedStep, SaveRaisesStep, GivingUpSteps, LoadStep,
     GotClientStep, ReferenceStep, GotUserStep, StartLoadsStep, StartStep,
     MakeDbStep, DbStartedStep, MakePluginStep, PreStartedStep, PluginStartedStep,
     AttemptRaises, StopIgnoredStep, StopStep, HooksStep, StoppedStep, DbStopStep,
     NotifyRaisesStep, SwitchSteps, DropStep, DroppingSteps, ReloadSteps
     DEF Steps
<1>3. ASSUME NEW ty \in Types, DeletePlugin(ty) \/ \E m \in Metas : UploadNew(ty, m)
      PROVE  SInv'
  BY <1>3, ServerSteps
<1>4. CASE UNCHANGED vars
  BY <1>4
     DEF vars, SInv, Alone, Wired, RunningWired, AllIdle, Good, Progress, Down, Leaks,
         Saves, columns, links, runtime, objects, server
<1> QED
  BY <1>1, <1>2, <1>3, <1>4 DEF Next

\* The whole invariant holds when calls do not overlap.
LEMMA Serial ==
    ASSUME Overlap = FALSE
    PROVE  Spec => [](IInv /\ RefsInv /\ SInv)
<1>1. Init => RefsInv
  BY DEF Init, RefsInv, RefsMatch, LoaderInstalled, LoaderKnown
<1>2. IInv /\ RefsInv /\ SInv /\ [Next]_vars => IInv' /\ RefsInv' /\ SInv'
  BY StepIInv, StepRefsInv, StepSInv, Zenon
<1> QED
  BY InitIInv, InitSInv, <1>1, <1>2, PTL DEF Spec

\* When calls do not overlap, a started instance runs a plugin object that has
\* its handlers and was built for the client, the loader and the open database
\* the instance has now: no update_*(), reload, load() or delete changes a link
\* under a running plugin.  Only a reload that adds a database to the plugin of
\* an instance without a reference finds it without one.
THEOREM Wiring ==
    ASSUME Overlap = FALSE
    PROVE  Spec => []RunningWired
<1>1. SInv => RunningWired
  BY DEF SInv, Wired
<1> QED
  BY <1>1, Serial, PTL

\* When calls do not overlap, start(), stop(), update_primary_user(),
\* update_type(), a plugin reload and delete() leave neither handlers nor an
\* open database of another plugin object behind, unless a hook or a database
\* call of that object raised.
THEOREM NoLeaks ==
    ASSUME Overlap = FALSE
    PROVE  Spec => []LeaksOnlyAfterFailure
<1>1. SInv => LeaksOnlyAfterFailure
  BY DEF SInv, LeaksOnlyAfterFailure, Good, Leaks, NoFrame, Unmaking
<1> QED
  BY <1>1, Serial, PTL

\* When calls do not overlap, every path through the update_*() methods and
\* start() that changes a column also saves the row, except those where the
\* UPDATE or something before it raised.
THEOREM RowSaved ==
    ASSUME Overlap = FALSE
    PROVE  Spec => []RowMatchesMemory
<1>1. SInv => RowMatchesMemory
  BY DEF SInv, RowMatchesMemory, Good, Saves, NoFrame
<1> QED
  BY <1>1, Serial, PTL

\* The loader of a live instance is an installed plugin however calls overlap:
\* DELETE /plugin is refused while the loader has references, and update_type()
\* reads the meta of the loader again after it awaited stop().  The exception
\* is load(), whose link waits for its reference while Client.get() reads.
THEOREM Installed == Spec => []LoaderInstalled
BY References, PTL

-----------------------------------------------------------------------------
(* PluginInstance implements InstanceLife                                  *)

\* A step that changes none of what InstanceLife speaks about.
LEMMA Stutters ==
    ASSUME UNCHANGED <<deleted, started, client, loader, plugin, attempts>>
    PROVE  UNCHANGED Life!life
BY DEF Life!life

\* So does one that changes the plugin object of a stopped instance.
LEMMA StuttersStopped ==
    ASSUME ~started, UNCHANGED <<deleted, started, client, loader, attempts>>
    PROVE  UNCHANGED Life!life
BY DEF Life!life

\* load() is Link, once for the loader and once for the client.
LEMMA LoadIsLink ==
    ASSUME IInv, SInv, NEW t \in Tasks, Load(t) \/ GotClient(t)
    PROVE  Life!Link \/ UNCHANGED Life!life
<1>1. ~deleted /\ UNCHANGED <<deleted, started, plugin, attempts>>
  BY Running DEF Load, GotClient, Good, Progress, Dropping, runtime, objects
<1>2. CASE Load(t)
  <2>1. /\ client' = client /\ col.type \in Types
        /\ loader' = IF loader = Null THEN col.type ELSE loader
    BY <1>2 DEF Load, IInv, StateOK, Columns
  <2>2. CASE started
    BY <1>1, <2>1, <2>2, Stutters DEF SInv, Wired
  <2>3. CASE ~started
    <3>1. CASE loader # Null
      BY <1>1, <2>1, <3>1, Stutters
    <3>2. CASE loader = Null /\ client # Null
      BY <1>1, <2>1, <2>3, <3>2 DEF Life!Link
    <3>3. CASE loader = Null /\ client = Null
      BY <1>1, <2>1, <2>3, <3>3 DEF Life!Link
    <3> QED
      BY <3>1, <3>2, <3>3
  <2> QED
    BY <2>2, <2>3
<1>3. CASE GotClient(t)
  <2>1. ~started /\ client = Null /\ loader # Null /\ frame[t].arg \in Users
    BY <1>3, Running
       DEF GotClient, Good, Progress, Down, IInv, FramesOK, FrameOK, Linked,
           LinkedLabels
  <2> QED
    BY <1>1, <1>3, <2>1 DEF GotClient, Life!Link
<1> QED
  BY <1>2, <1>3

\* start() past loader.load() is Attempt.
LEMMA StartIsAttempt ==
    ASSUME IInv, SInv, NEW t \in Tasks, Start(t)
    PROVE  Life!Attempt
<1>a. PICK l \in {"start", "loaded"} : Runs(t, l)
  BY DEF Start, Ready
<1>b. frame[t].pc \in {"start", "loaded"} /\ Good(frame[t])
  BY <1>a, Running
<1>1. /\ ~deleted /\ ~started /\ client # Null /\ loader # Null
      /\ attempts < MaxStarts /\ attempts' = attempts + 1
      /\ UNCHANGED <<deleted, started, client, loader, plugin>>
  BY <1>b
     DEF Start, Ready, Runs, StartBody, Good, Progress, Down, Dropping, links, runtime
<1> QED
  BY <1>1 DEF Life!Attempt, Life!Linked

\* The plugin's start() returning is Run.
LEMMA StartedIsRun ==
    ASSUME IInv, SInv, NEW t \in Tasks, PluginStarted(t)
    PROVE  Life!Run
<1>1. /\ frame[t].pc = "pluginstart" /\ Good(frame[t]) /\ started'
      /\ UNCHANGED <<deleted, client, loader, plugin, attempts>>
  BY Running DEF PluginStarted, links, objects
<1>2. /\ ~deleted /\ ~started /\ client # Null /\ loader # Null
      /\ plugin = attempts
  BY <1>1 DEF Good, Progress, Down, Making, Dropping
<1>3. attempts > 0
  <2>1. frame[t].obj \in Attempts /\ frame[t].obj = attempts
    BY <1>1 DEF Good, Progress, Making, IInv, FramesOK, FrameOK, ObjLabels
  <2> QED
    BY <2>1, MaxStartsAssumption DEF Attempts
<1> QED
  BY <1>1, <1>2, <1>3 DEF Life!Run, Life!Linked

\* The first step of stop() is Stop.
LEMMA StopIsStop ==
    ASSUME IInv, SInv, NEW t \in Tasks, Stop(t)
    PROVE  Life!Stop
<1>1. /\ ~deleted /\ started /\ ~started'
      /\ UNCHANGED <<deleted, client, loader, attempts>>
  BY Running DEF Stop, Good, Progress, Dropping, links, objects
<1> QED
  BY <1>1 DEF Life!Stop

\* Moving the reference to a new client or loader is Switch.
LEMMA SwitchIsSwitch ==
    ASSUME IInv, SInv, NEW t \in Tasks, SwitchUser(t) \/ SwitchType(t)
    PROVE  Life!Switch \/ UNCHANGED Life!life
<1>1. /\ frame[t].pc \in Switching /\ Good(frame[t])
      /\ UNCHANGED <<deleted, started, plugin, attempts>>
  BY Running DEF SwitchUser, SwitchType, Switching, runtime, objects
<1>2. ~deleted /\ ~started
  BY <1>1 DEF Good, Progress, Down, Switching, Dropping
<1>3. \/ UNCHANGED <<client, loader>>
      \/ client' \in Users /\ UNCHANGED loader
      \/ loader' \in Types /\ UNCHANGED client
  <2>1. CASE SwitchUser(t)
    BY <2>1 DEF SwitchUser, Runs, IInv, FramesOK, FrameOK
  <2>2. CASE SwitchType(t)
    BY <2>2 DEF SwitchType, Runs, IInv, FramesOK, FrameOK
  <2> QED
    BY <2>1, <2>2
<1> QED
  BY <1>1, <1>2, <1>3, Stutters DEF Life!Switch

\* Taking the references away in delete() is Delete.
LEMMA DropIsDelete ==
    ASSUME IInv, SInv, NEW t \in Tasks, Drop(t)
    PROVE  Life!Delete \/ UNCHANGED Life!life
<1>1. /\ frame[t].pc = "drop" /\ Good(frame[t])
      /\ UNCHANGED <<client, loader, started, plugin, attempts>>
      /\ deleted' \/ deleted' = deleted
  BY Running DEF Drop, runtime, objects
<1>2. ~deleted /\ ~started
  BY <1>1 DEF Good, Progress, Down, Switching, Dropping
<1> QED
  BY <1>1, <1>2, Stutters DEF Life!Delete

\* No call, no step of another object and no other step of a coroutine is seen.
LEMMA RestStutters ==
    ASSUME IInv, SInv, NEW t \in Tasks,
           \/ Calls(t) \/ NoClient(t)
           \/ Saved(t) \/ SaveRaises(t) \/ LoadMissing(t) \/ Reference(t)
           \/ LoadRaises(t) \/ GotUser(t) \/ NoUser(t)
           \/ StartIgnored(t) \/ StartLoads(t)
           \/ LoaderRaises(t) \/ MakeDb(t) \/ DbStarted(t) \/ DbFailed(t)
           \/ MakePlugin(t) \/ MakePluginRaises(t) \/ PreStarted(t)
           \/ PluginStartRaises(t) \/ StopIgnored(t) \/ PreStopped(t)
           \/ PreStopRaises(t) \/ PluginStopped(t) \/ Stopped(t) \/ DbStopped(t)
           \/ DbStopRaises(t) \/ Notified(t) \/ NotifyRaises(t) \/ RowDeleted(t)
           \/ DropDbStopped(t) \/ DbDeleted(t) \/ DropRaises(t) \/ Reloaded(t)
           \/ ReloadFails(t)
    PROVE  UNCHANGED Life!life
<1>1. CASE MakePlugin(t) \/ Stopped(t)
  <2>1. ~started
    BY <1>1, Running
       DEF MakePlugin, Stopped, Good, Progress, Down, Making, Unmaking
  <2>2. UNCHANGED <<deleted, started, client, loader, attempts>>
    BY <1>1 DEF MakePlugin, Stopped, links, objects
  <2> QED
    BY <2>1, <2>2, StuttersStopped
<1>2. CASE Calls(t)
  <2>1. UNCHANGED <<deleted, started, client, loader, plugin, attempts>>
    BY <1>2
       DEF Calls, CallLoad, CallStart, CallStop, DeleteInstance, UpdateEnabled,
           UpdateConfig, SaveConfig, UpdatePrimaryUser, UpdateType, ReloadPlugin,
           links, runtime, objects
  <2> QED
    BY <2>1, Stutters
<1>4. CASE NoClient(t)
  <2>1. client = Null
    BY <1>4, Running DEF NoClient, Good, Progress
  <2>2. UNCHANGED <<deleted, started, client, loader, plugin, attempts>>
    BY <1>4, <2>1 DEF NoClient, runtime, objects
  <2> QED
    BY <2>2, Stutters
<1>3. CASE ~(MakePlugin(t) \/ Stopped(t) \/ Calls(t) \/ NoClient(t))
  <2>1. UNCHANGED <<deleted, started, client, loader, plugin, attempts>>
    BY <1>3
       DEF Saved, SaveRaises, LoadMissing, Reference, LoadRaises, GotUser, NoUser,
           StartIgnored, StartLoads, LoaderRaises, MakeDb,
           DbStarted, DbFailed, MakePluginRaises, PreStarted, PluginStartRaises,
           StopIgnored, PreStopped, PreStopRaises, PluginStopped, DbStopped,
           DbStopRaises, Notified, NotifyRaises, RowDeleted, DropDbStopped, DbDeleted,
           DropRaises, Reloaded, ReloadFails, links, runtime, objects
  <2> QED
    BY <2>1, Stutters
<1> QED
  BY <1>1, <1>2, <1>3, <1>4

\* Every step is a step of InstanceLife or leaves it alone.
LEMMA StepLife ==
    ASSUME IInv, SInv, [Next]_vars
    PROVE  [Life!Next]_Life!life
<1>1. ASSUME NEW t \in Tasks, Calls(t) \/ Steps(t)
      PROVE  Life!Next \/ UNCHANGED Life!life
  BY <1>1, LoadIsLink, StartIsAttempt, StartedIsRun, StopIsStop, SwitchIsSwitch,
     DropIsDelete, RestStutters
     DEF Steps, Life!Next
<1>2. ASSUME NEW ty \in Types, DeletePlugin(ty) \/ \E m \in Metas : UploadNew(ty, m)
      PROVE  UNCHANGED Life!life
  BY <1>2, Stutters DEF DeletePlugin, UploadNew, links, runtime, objects
<1>3. CASE UNCHANGED vars
  BY <1>3, Stutters DEF vars, links, runtime, objects
<1> QED
  BY <1>1, <1>2, <1>3 DEF Next

\* The detailed instance of instance.py implements InstanceLife when calls do
\* not overlap: the client and the plugin change only while it is stopped, it
\* is deleted only while it is stopped, and it runs only the newest object.
THEOREM Implementation ==
    ASSUME Overlap = FALSE
    PROVE  Spec => ImplementsLife
<1>1. Init => Life!Init
  BY DEF Init, Life!Init
<1>2. IInv /\ RefsInv /\ SInv /\ [Next]_vars => [Life!Next]_Life!life
  BY StepLife
<1> QED
  BY <1>1, <1>2, Serial, PTL DEF Spec, ImplementsLife, Life!Spec
=============================================================================

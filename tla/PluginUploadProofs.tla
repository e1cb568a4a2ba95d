------------------------- MODULE PluginUploadProofs -------------------------
(***************************************************************************)
(* Proofs about PluginUpload for any number of instances, files, versions  *)
(* and uploads.  The types hold however requests overlap.  When they do    *)
(* not, and every version has one build that compiles, the plugin          *)
(* directory, the loader and the instances agree between requests.         *)
(***************************************************************************)
EXTENDS PluginUpload, TLAPS

-----------------------------------------------------------------------------
(* Types                                                                   *)

Update == {"stop", "reload", "start", "unstart", "rollback", "restart"}

\* An update knows the file it brings and the one it replaces.
UpdateKnows ==
    \A t \in Tasks : frame[t].pc \in Update =>
        frame[t].new \in Paths /\ frame[t].old \in Paths

TInv == TypeOK /\ UpdateKnows

\* A replacement and a new upload get a name of the plugin directory.
LEMMA PathTyped ==
    ASSUME TypeOK, uploads < MaxUploads, NEW c \in Contents
    PROVE  /\ <<c.version, 0>> \in Paths
           /\ ReplacementPath(c) \in Paths
           /\ uploads + 1 \in 0..MaxUploads
BY BoundsAssumption DEF TypeOK, Paths, Versions, ReplacementPath

\* The outcomes of _load(): the loader object keeps its path, and only success
\* makes it a loaded one.
LEMMA LoadIs ==
    ASSUME TypeOK, NEW l \in Loaders, NEW b \in BOOLEAN, NEW r \in Load(l, b)
    PROVE  /\ r.how \in {"ok", "refused", "raises"}
           /\ r.loader \in Loaders
           /\ r.loader.path = l.path /\ r.loader.born = l.born
           /\ r.dirs \in [Paths -> Contents \cup {Null}]
           /\ r.how = "ok" => /\ disk[l.path] # Null
                              /\ disk[l.path].kind = "good"
                              /\ r.loader.loaded = disk[l.path]
           /\ r.how # "ok" => r.loader.loaded = l.loaded
<1> DEFINE c == disk[l.path]
           dir == IF b THEN c
                  ELSE IF l.importer = l.path THEN l.files ELSE Directory(l.path, c)
           read == [l EXCEPT !.version = c.version, !.importer = l.path,
                             !.files = dir]
           keep == IF b \/ l.importer # l.path
                   THEN [dircache EXCEPT ![l.path] = dir] ELSE dircache
           drop == [dircache EXCEPT ![l.path] = Null]
           done == [read EXCEPT !.loaded = c]
<1>1. /\ l.path \in Paths /\ l.files \in Contents /\ c \in Contents \cup {Null}
      /\ dircache \in [Paths -> Contents \cup {Null}]
  BY DEF TypeOK, Loaders
<1>2. CASE c = Null
  BY <1>1, <1>2 DEF Load
<1>3. CASE c # Null
  <2>1. c \in Contents /\ c.version \in Versions /\ dir \in Contents
    BY <1>1, <1>3 DEF Versions, Directory
  <2>2. /\ read \in Loaders /\ read.path = l.path /\ read.born = l.born
        /\ read.loaded = l.loaded
        /\ done \in Loaders /\ done.path = l.path /\ done.born = l.born
        /\ done.loaded = c
    <3> HIDE DEF c, dir
    <3> QED
      BY <1>1, <2>1 DEF Loaders
  <2>3. keep \in [Paths -> Contents \cup {Null}] /\ drop \in [Paths -> Contents \cup {Null}]
    <3> HIDE DEF c, dir
    <3> QED
      BY <1>1, <2>1
  <2>4. PICK o \in Checks(dir, c) :
           r = IF o = "ok" /\ c.kind = "good"
               THEN [how |-> "ok", loader |-> done, dirs |-> keep]
               ELSE IF o = "raises"
               THEN [how |-> o, loader |-> read, dirs |-> keep]
               ELSE [how |-> "refused", loader |-> read, dirs |-> drop]
    BY <1>3 DEF Load
  <2> HIDE DEF c, read, keep, drop, dir, done
  <2>5. \/ r = [how |-> "ok", loader |-> done, dirs |-> keep]
           /\ c.kind = "good"
        \/ r = [how |-> "raises", loader |-> read, dirs |-> keep]
        \/ r = [how |-> "refused", loader |-> read, dirs |-> drop]
    BY <2>4, Zenon
  <2> QED
    BY <1>3, <2>2, <2>3, <2>5 DEF c
<1> QED
  BY <1>2, <1>3

\* reload() of the loader with a path.
LEMMA ReloadIs ==
    ASSUME TypeOK, loader # Null, NEW p \in Paths, NEW r \in Reload(p)
    PROVE  /\ r.how \in {"ok", "refused", "raises"}
           /\ r.loader \in Loaders
           /\ r.loader.path = p /\ r.loader.born = loader.born
           /\ r.dirs \in [Paths -> Contents \cup {Null}]
           /\ r.how = "ok" => /\ disk[p] # Null /\ disk[p].kind = "good"
                              /\ r.loader.loaded = disk[p]
           /\ r.how # "ok" => r.loader.loaded = Null
<1> DEFINE l == [loader EXCEPT !.path = p, !.loaded = Null]
<1>1. loader \in Loaders
  BY DEF TypeOK
<1>2. l \in Loaders /\ l.path = p /\ l.born = loader.born /\ l.loaded = Null
  BY <1>1 DEF Loaders
<1>3. r \in Load(l, TRUE)
  BY DEF Reload
<1> HIDE DEF l
<1> QED
  BY <1>2, <1>3, LoadIs

\* What an update needs of its frame.
Knows(f) == f.pc \in Update => f.new \in Paths /\ f.old \in Paths

FramesTyped == frame \in [Tasks -> Frames] /\ UpdateKnows

LEMMA FrameTyped ==
    ASSUME TInv, NEW t \in Tasks, NEW f \in Frames, Knows(f),
           frame' = [frame EXCEPT ![t] = f]
    PROVE  FramesTyped'
BY DEF TInv, TypeOK, UpdateKnows, Knows, FramesTyped

LEMMA NoFrameTyped == NoFrame \in Frames /\ Knows(NoFrame)
BY BoundsAssumption DEF NoFrame, Frames, Knows, Update

LEMMA FinishTyped ==
    ASSUME TInv, NEW t \in Tasks, Finish(t) PROVE FramesTyped'
BY FrameTyped, NoFrameTyped DEF Finish

\* stop_instances() begins.
LEMMA StopThenTyped ==
    ASSUME TInv, NEW t \in Tasks, NEW f \in Frames,
           NEW await \in Await, NEW hot \in Hot,
           await \in Update \/ hot \in Update => f.new \in Paths /\ f.old \in Paths,
           StopThen(t, f, await, hot)
    PROVE  FramesTyped'
<1>1. Live \in SUBSET Instances
  BY DEF TInv, TypeOK, Live
<1> DEFINE g == [f EXCEPT !.pc = hot]
           h == [f EXCEPT !.pc = await, !.set = Live]
<1>2. /\ g \in Frames /\ g.pc = hot /\ g.new = f.new /\ g.old = f.old
      /\ h \in Frames /\ h.pc = await /\ h.new = f.new /\ h.old = f.old
  BY <1>1 DEF Frames
<1>3. frame' = [frame EXCEPT ![t] = IF Live = {} THEN g ELSE h]
  BY DEF StopThen
<1> HIDE DEF g, h
<1>4. Knows(g) /\ Knows(h)
  BY <1>2 DEF Knows
<1>5. CASE Live = {}
  BY <1>2, <1>3, <1>4, <1>5, FrameTyped
<1>6. CASE Live # {}
  BY <1>2, <1>3, <1>4, <1>6, FrameTyped
<1> QED
  BY <1>5, <1>6

\* stop_instances() ends.
LEMMA StopDoneTyped ==
    ASSUME TInv, NEW t \in Tasks, NEW await \in Await, NEW hot \in Hot,
           hot \in Update => await \in Update,
           StopDone(t, await, hot)
    PROVE  TInv'
<1> DEFINE g == [frame[t] EXCEPT !.pc = hot, !.set = {}]
<1>1. frame[t] \in Frames /\ Knows(frame[t]) /\ frame[t].pc = await
  BY DEF TInv, TypeOK, UpdateKnows, Knows, StopDone, Runs
<1>2. /\ g \in Frames /\ g.pc = hot /\ g.new = frame[t].new
      /\ g.old = frame[t].old
  BY <1>1 DEF Frames
<1>3. frame' = [frame EXCEPT ![t] = g]
  BY DEF TInv, TypeOK, StopDone
<1> HIDE DEF g
<1>4. Knows(g)
  BY <1>1, <1>2 DEF Knows
<1>5. FramesTyped'
  BY <1>2, <1>3, <1>4, FrameTyped
<1>6. running' \in [Instances -> Contents \cup {Null}]
  BY DEF TInv, TypeOK, StopDone
<1> QED
  BY <1>5, <1>6 DEF TInv, TypeOK, FramesTyped, StopDone, files, ghosts

\* start_instances() begins.
LEMMA StartAtTyped ==
    ASSUME TInv, NEW t \in Tasks, NEW l \in Await, NEW E \in SUBSET Instances,
           NEW c \in Contents \cup {Null}, StartAt(t, l, E, c),
           frame[t].pc \notin Update => l \notin Update
    PROVE  FramesTyped'
<1> DEFINE g == [frame[t] EXCEPT !.pc = l, !.set = E, !.cls = c]
<1>1. frame[t] \in Frames /\ Knows(frame[t])
  BY DEF TInv, TypeOK, UpdateKnows, Knows
<1>2. /\ g \in Frames /\ g.pc = l /\ g.new = frame[t].new
      /\ g.old = frame[t].old
  BY <1>1 DEF Frames
<1>3. frame' = [frame EXCEPT ![t] = g]
  BY DEF StartAt
<1> HIDE DEF g
<1>4. Knows(g)
  BY <1>1, <1>2 DEF Knows
<1> QED
  BY <1>2, <1>3, <1>4, FrameTyped

\* start_instances() ends.
LEMMA StartDoneTyped ==
    ASSUME TInv, NEW t \in Tasks, NEW S \in SUBSET frame[t].set,
           NEW L \in SUBSET frame[t].set, StartDone(t, S, L)
    PROVE  /\ running' \in [Instances -> Contents \cup {Null}]
           /\ late' \in [Instances -> Contents \cup {Null}]
           /\ history' \in Histories
           /\ UNCHANGED <<up, refs, uploads>>
<1>1. /\ frame[t].cls \in Contents \cup {Null} /\ frame[t].set \subseteq Instances
      /\ running \in [Instances -> Contents \cup {Null}]
      /\ late \in [Instances -> Contents \cup {Null}]
      /\ history \in Histories
  BY DEF TInv, TypeOK, Frames
<1>2. history' \in Histories
  BY <1>1 DEF StartDone, Histories
<1> QED
  BY <1>1, <1>2 DEF StartDone

LEMMA InitTInv == Init => TInv
<1> SUFFICES ASSUME Init PROVE TInv
  OBVIOUS
<1>1. frame \in [Tasks -> Frames] /\ UpdateKnows
  BY NoFrameTyped DEF Init, UpdateKnows, Knows
<1> QED
  BY <1>1, BoundsAssumption DEF TInv, TypeOK, Init, Histories

Dirs == [Paths -> Contents \cup {Null}]

LEMMA TrashTyped == ASSUME NEW d \in Dirs, NEW p PROVE Trash(d, p) \in Dirs
BY DEF Trash, Dirs

\* A loader of a file of the plugin directory.
LEMMA NewLoaderTyped ==
    ASSUME NEW p \in Paths, NEW c \in Contents, NEW d \in Contents,
           NEW b \in 0..MaxUploads
    PROVE  NewLoader(p, c, d, b) \in Loaders
BY DEF NewLoader, Loaders, Versions

\* The requests that upload.
LEMMA UploadTyped ==
    ASSUME TInv, NEW t \in Tasks, NEW c \in Contents, Upload(t, c)
    PROVE  TInv'
<1>1. TypeOK /\ FramesTyped /\ disk \in Dirs /\ dircache \in Dirs
  BY DEF TInv, TypeOK, FramesTyped, Dirs
<1>2. CASE UploadNew(t, c)
  <2> DEFINE p == <<c.version, 0>>
             dir == Directory(p, c)
  <2>1. p \in Paths /\ uploads' \in 0..MaxUploads
    BY <1>1, <1>2, PathTyped DEF UploadNew
  <2>2. dir \in Contents
    BY <1>1, <2>1 DEF Directory, Dirs
  <2> HIDE DEF dir
  <2>3. PICK o \in Checks(dir, c) :
           /\ disk' = IF o = "refused" THEN Trash(disk, p)
                      ELSE [disk EXCEPT ![p] = c]
           /\ dircache' = [dircache EXCEPT ![p] = IF o = "refused" THEN Null
                                                  ELSE dir]
           /\ loader' = IF o = "ok" THEN NewLoader(p, c, dir, uploads') ELSE Null
           /\ history' = [history EXCEPT !.wanted = o = "ok"]
    BY <1>2 DEF UploadNew, dir
  <2> HIDE DEF p
  <2>4. disk' \in Dirs
    BY <1>1, <2>1, <2>3, TrashTyped DEF Dirs
  <2>5. dircache' \in Dirs
    BY <1>1, <2>1, <2>2, <2>3 DEF Dirs
  <2>6. loader' \in Loaders \cup {Null}
    BY <2>1, <2>2, <2>3, NewLoaderTyped
  <2>7. history' \in Histories
    BY <1>1, <2>3 DEF TypeOK, Histories
  <2>8. UNCHANGED <<up, insts, frame>>
    BY <1>2 DEF UploadNew
  <2> QED
    BY <1>1, <2>1, <2>4, <2>5, <2>6, <2>7, <2>8
       DEF TInv, TypeOK, FramesTyped, UpdateKnows, insts, Dirs
<1>3. CASE UploadReplacement(t, c)
  <2> DEFINE p == ReplacementPath(c)
             f == [NoFrame EXCEPT !.new = p, !.old = loader.path,
                                  !.born = loader.born]
  <2>1. p \in Paths /\ uploads' \in 0..MaxUploads
    BY <1>1, <1>3, PathTyped DEF UploadReplacement
  <2>2. loader \in Loaders
    BY <1>1, <1>3 DEF UploadReplacement, TypeOK
  <2> HIDE DEF p
  <2>3. f \in Frames /\ f.new \in Paths /\ f.old \in Paths
    BY <2>1, <2>2 DEF NoFrame, Frames, Loaders
  <2>4. /\ disk' = [disk EXCEPT ![p] = c]
        /\ StopThen(t, f, "stop", "reload")
        /\ UNCHANGED <<up, loader, dircache, insts, history>>
    BY <1>3 DEF UploadReplacement, p
  <2> HIDE DEF f
  <2>5. FramesTyped'
    BY <2>3, <2>4, StopThenTyped DEF Await, Hot
  <2>6. disk' \in Dirs
    BY <1>1, <2>1, <2>4 DEF Dirs
  <2> QED
    BY <1>1, <2>1, <2>4, <2>5, <2>6 DEF TInv, TypeOK, FramesTyped, insts, Dirs
<1> QED
  BY <1>2, <1>3 DEF Upload

\* reload() in an update, its rollback and a reload request.
LEMMA ReloadTyped ==
    ASSUME TInv, NEW t \in Tasks, NEW E \in Enabled,
           LoadNew(t, E) \/ Rollback(t, E) \/ Reloads(t, E)
    PROVE  TInv'
<1>1. TypeOK /\ FramesTyped /\ disk \in Dirs /\ dircache \in Dirs
  BY DEF TInv, TypeOK, FramesTyped, Dirs
<1>2. E \in SUBSET Instances /\ loader # Null /\ loader \in Loaders
  BY <1>1 DEF Enabled, TypeOK, LoadNew, Rollback, Reloads, Held
<1>3. frame[t] \in Frames /\ Knows(frame[t])
  BY DEF TInv, TypeOK, UpdateKnows, Knows
<1>4. ASSUME NEW p \in Paths, NEW r \in Reload(p),
             loader' = r.loader, dircache' = r.dirs,
             UNCHANGED <<up, insts, ghosts>>,
             disk' \in Dirs, FramesTyped'
      PROVE  TInv'
  <2>1. r.loader \in Loaders /\ r.dirs \in Dirs
    BY <1>1, <1>2, ReloadIs DEF Dirs
  <2> QED
    BY <1>1, <1>4, <2>1 DEF TInv, TypeOK, FramesTyped, insts, ghosts, Dirs
<1>5. ASSUME NEW p \in Paths, NEW r \in Reload(p), NEW l \in {"start", "restart", "rstart"},
             StartAt(t, l, E, r.loader.loaded),
             l # "rstart" => frame[t].pc \in Update
      PROVE  FramesTyped'
  <2>1. r.loader.loaded \in Contents \cup {Null}
    BY <1>1, <1>2, ReloadIs DEF Loaders
  <2> QED
    BY <1>2, <1>5, <2>1, StartAtTyped DEF Await, Update
<1>6. CASE LoadNew(t, E)
  <2>1. frame[t].pc = "reload" /\ frame[t].new \in Paths
    BY <1>3, <1>6 DEF LoadNew, Runs, Knows, Update
  <2>2. PICK r \in Reload(frame[t].new) :
        /\ loader' = r.loader
        /\ dircache' = r.dirs
        /\ \/ /\ r.how = "ok" /\ E # {}
              /\ StartAt(t, "start", E, r.loader.loaded)
              /\ UNCHANGED disk
           \/ /\ r.how = "ok" /\ E = {}
              /\ disk' = Trash(disk, frame[t].old)
              /\ Finish(t)
           \/ /\ r.how = "refused"
              /\ frame' = [frame EXCEPT ![t].pc = "rollback"]
              /\ UNCHANGED disk
           \/ r.how = "raises" /\ Finish(t) /\ UNCHANGED disk
    BY <1>6 DEF LoadNew
  <2>3. disk' \in Dirs
    BY <1>1, <2>2, TrashTyped
  <2>4. ASSUME frame' = [frame EXCEPT ![t].pc = "rollback"] PROVE FramesTyped'
    <3> DEFINE g == [frame[t] EXCEPT !.pc = "rollback"]
    <3>1. g \in Frames /\ Knows(g)
      BY <1>3, <2>1 DEF Frames, Hot, Knows, Update
    <3> QED
      BY <2>4, <3>1, FrameTyped
  <2>5. FramesTyped'
    BY <1>5, <2>1, <2>2, <2>4, FinishTyped DEF Update
  <2> QED
    BY <1>4, <1>6, <2>1, <2>2, <2>3, <2>5 DEF LoadNew
<1>7. CASE Rollback(t, E)
  <2>1. frame[t].pc = "rollback" /\ frame[t].old \in Paths
    BY <1>3, <1>7 DEF Rollback, Runs, Knows, Update
  <2>2. PICK r \in Reload(frame[t].old) :
        /\ loader' = r.loader
        /\ dircache' = r.dirs
        /\ IF r.how = "ok" /\ E # {}
           THEN StartAt(t, "restart", E, r.loader.loaded) /\ UNCHANGED disk
           ELSE disk' = Trash(disk, frame[t].new) /\ Finish(t)
    BY <1>7 DEF Rollback
  <2>3. disk' \in Dirs
    BY <1>1, <2>2, TrashTyped
  <2>4. FramesTyped'
    BY <1>5, <2>1, <2>2, FinishTyped DEF Update
  <2> QED
    BY <1>4, <1>7, <2>1, <2>2, <2>3, <2>4 DEF Rollback
<1>8. CASE Reloads(t, E)
  <2>1. loader.path \in Paths
    BY <1>2 DEF Loaders
  <2>2. PICK r \in Reload(loader.path) :
        /\ loader' = r.loader
        /\ dircache' = r.dirs
        /\ IF r.how = "ok" /\ E # {}
           THEN StartAt(t, "rstart", E, r.loader.loaded) ELSE Finish(t)
    BY <1>8 DEF Reloads
  <2>3. FramesTyped'
    BY <1>5, <2>1, <2>2, FinishTyped
  <2> QED
    BY <1>1, <1>4, <1>8, <2>1, <2>2, <2>3 DEF Reloads
<1> QED
  BY <1>6, <1>7, <1>8

\* The end of start_instances() in each of them.
LEMMA StartsTyped ==
    ASSUME TInv, NEW t \in Tasks, NEW S \in SUBSET frame[t].set,
           NEW L \in SUBSET frame[t].set,
           \/ L = {} /\ Started(t, S)
           \/ StartRaises(t, S, L) \/ RolledBack(t, S, L) \/ ReloadStarted(t, S, L)
    PROVE  TInv'
<1>1. TypeOK /\ FramesTyped /\ disk \in Dirs
  BY DEF TInv, TypeOK, FramesTyped, Dirs
<1>2. /\ running' \in [Instances -> Contents \cup {Null}]
      /\ late' \in [Instances -> Contents \cup {Null}]
      /\ history' \in Histories
      /\ UNCHANGED <<up, refs, uploads>>
  BY StartDoneTyped DEF Started, StartRaises, RolledBack, ReloadStarted
<1>3. UNCHANGED <<loader, dircache>>
  BY DEF Started, StartRaises, RolledBack, ReloadStarted, files
<1>4. disk' \in Dirs
  BY <1>1, TrashTyped DEF Started, StartRaises, RolledBack, ReloadStarted, files
<1>5. FramesTyped'
  <2>1. CASE Finish(t)
    BY <2>1, FinishTyped
  <2>2. CASE StartRaises(t, S, L)
    <3> DEFINE on == {i \in refs : running'[i] # Null}
               f == [frame[t] EXCEPT !.cls = Null, !.set = on]
               g == [f EXCEPT !.pc = IF on = {} THEN "rollback" ELSE "unstart"]
    <3>1. frame[t] \in Frames /\ Knows(frame[t]) /\ frame[t].pc = "start"
      BY <2>2 DEF TInv, TypeOK, UpdateKnows, Knows, StartRaises, Runs
    <3>2. on \in SUBSET Instances
      BY <1>1 DEF TypeOK
    <3>3. frame' = [frame EXCEPT ![t] = IF ~Held(t) THEN NoFrame ELSE g]
      BY <2>2 DEF StartRaises
    <3> HIDE DEF on
    <3>4. g \in Frames /\ Knows(g)
      BY <3>1, <3>2 DEF Frames, Hot, Await, Knows, Update
    <3> HIDE DEF g
    <3> QED
      BY <3>3, <3>4, NoFrameTyped, FrameTyped
  <2> QED
    BY <2>1, <2>2 DEF Started, RolledBack, ReloadStarted
<1> QED
  BY <1>1, <1>2, <1>3, <1>4, <1>5 DEF TInv, TypeOK, FramesTyped, Dirs

\* The other steps of requests.
LEMMA RequestTyped ==
    ASSUME TInv, NEW t \in Tasks,
           LoaderGone(t) \/ ReloadPlugin(t) \/ DeletePlugin(t)
    PROVE  TInv'
<1>1. TypeOK /\ FramesTyped /\ disk \in Dirs
  BY DEF TInv, TypeOK, FramesTyped, Dirs
<1>2. CASE LoaderGone(t)
  <2>1. FramesTyped' /\ disk' \in Dirs
    BY <1>1, <1>2, FinishTyped, TrashTyped DEF LoaderGone
  <2> QED
    BY <1>1, <1>2, <2>1 DEF LoaderGone, TInv, TypeOK, FramesTyped, insts, ghosts, Dirs
<1>3. CASE ReloadPlugin(t)
  <2> DEFINE f == [NoFrame EXCEPT !.born = loader.born]
  <2>1. f \in Frames
    BY <1>1, <1>3, NoFrameTyped DEF ReloadPlugin, TypeOK, Loaders, Frames
  <2>2. StopThen(t, f, "rstop", "rreload")
    BY <1>3 DEF ReloadPlugin
  <2> HIDE DEF f
  <2>3. FramesTyped'
    BY <2>1, <2>2, StopThenTyped DEF Await, Hot, Update
  <2> QED
    BY <1>1, <1>3, <2>3 DEF ReloadPlugin, TInv, TypeOK, FramesTyped, files, insts, ghosts
<1>4. CASE DeletePlugin(t)
  <2>1. disk' \in Dirs /\ dircache' \in Dirs
    BY <1>1, <1>4, TrashTyped DEF DeletePlugin, TypeOK, Dirs
  <2>2. history' \in Histories
    BY <1>1, <1>4 DEF DeletePlugin, TypeOK, Histories
  <2> QED
    BY <1>1, <1>4, <2>1, <2>2
       DEF DeletePlugin, TInv, TypeOK, FramesTyped, UpdateKnows, insts, Dirs
<1> QED
  BY <1>2, <1>3, <1>4

\* The steps of instances.
LEMMA InstanceTyped ==
    ASSUME TInv, NEW i \in Instances,
           \/ CreateInstance(i) \/ DeleteInstance(i) \/ StartInstance(i)
           \/ \E ok \in BOOLEAN : LateStart(i, ok)
    PROVE  TInv'
<1>1. TypeOK /\ FramesTyped
  BY DEF TInv, TypeOK, FramesTyped
<1>2. UNCHANGED <<up, disk, frame, ghosts>>
  BY DEF CreateInstance, DeleteInstance, StartInstance, LateStart, files
<1>3. CASE StartInstance(i)
  <2>1. loader \in Loaders
    BY <1>1, <1>3 DEF StartInstance, TypeOK
  <2>2. PICK r \in IF loader.loaded = Null THEN Load(loader, FALSE)
                   ELSE {[how |-> "ok", loader |-> loader, dirs |-> dircache]} :
        /\ loader' = r.loader
        /\ dircache' = r.dirs
        /\ running' = IF r.how = "ok"
                      THEN [running EXCEPT ![i] = r.loader.loaded] ELSE running
    BY <1>3 DEF StartInstance
  <2>3. r.loader \in Loaders /\ r.dirs \in Dirs
    <3>1. CASE loader.loaded = Null
      BY <1>1, <2>1, <2>2, <3>1, LoadIs DEF Dirs
    <3>2. CASE loader.loaded # Null
      BY <1>1, <2>1, <2>2, <3>2 DEF TypeOK, Dirs
    <3> QED
      BY <3>1, <3>2
  <2>4. running' \in [Instances -> Contents \cup {Null}]
    BY <1>1, <2>2, <2>3 DEF TypeOK, Loaders
  <2>5. UNCHANGED <<refs, late>>
    BY <1>3 DEF StartInstance
  <2> QED
    BY <1>1, <1>2, <2>2, <2>3, <2>4, <2>5
       DEF TInv, TypeOK, FramesTyped, UpdateKnows, ghosts, Dirs
<1>4. CASE ~StartInstance(i)
  <2>1. UNCHANGED <<loader, dircache>>
    BY <1>4 DEF CreateInstance, DeleteInstance, LateStart, files
  <2>2. /\ running' \in [Instances -> Contents \cup {Null}]
        /\ late' \in [Instances -> Contents \cup {Null}]
        /\ refs' \in SUBSET Instances
    BY <1>1, <1>4 DEF CreateInstance, DeleteInstance, LateStart, TypeOK
  <2> QED
    BY <1>1, <1>2, <2>1, <2>2 DEF TInv, TypeOK, FramesTyped, UpdateKnows, ghosts
<1> QED
  BY <1>3, <1>4

\* The crash and the next boot.
LEMMA RestartTyped == ASSUME TInv, Restart \/ RestartFails PROVE TInv'
<1>1. TypeOK /\ Crash
  BY DEF TInv, Restart, RestartFails
<1>2. /\ running' \in [Instances -> Contents \cup {Null}]
      /\ late' \in [Instances -> Contents \cup {Null}]
      /\ uploads' \in 0..MaxUploads
  BY <1>1 DEF Crash, TypeOK
<1>3. history' \in Histories
  BY <1>1 DEF Crash, TypeOK, Histories
<1>4. frame' \in [Tasks -> Frames] /\ UpdateKnows'
  BY <1>1, NoFrameTyped DEF Crash, UpdateKnows, Knows
<1>5. up' \in BOOLEAN /\ refs' \in SUBSET Instances
  BY <1>1 DEF Restart, RestartFails, TypeOK
<1>6. disk' \in Dirs /\ dircache' \in Dirs
  BY <1>1 DEF Restart, RestartFails, TypeOK, Dirs, Files
<1>7. loader' \in Loaders \cup {Null}
  <2>1. ASSUME NEW p \in Files PROVE NewLoader(p, disk[p], disk[p], 0) \in Loaders
    <3>1. p \in Paths /\ disk[p] \in Contents /\ 0 \in 0..MaxUploads
      BY <1>1, BoundsAssumption DEF Files, TypeOK
    <3> QED
      BY <3>1, NewLoaderTyped
  <2> QED
    BY <2>1 DEF Restart, RestartFails
<1> QED
  BY <1>2, <1>3, <1>4, <1>5, <1>6, <1>7 DEF TInv, TypeOK, Dirs

\* Every step keeps the types.
LEMMA StepTInv == TInv /\ [Next]_vars => TInv'
<1> SUFFICES ASSUME TInv, [Next]_vars PROVE TInv'
  OBVIOUS
<1>1. CASE UNCHANGED vars
  BY <1>1 DEF TInv, TypeOK, UpdateKnows, vars, files, insts, ghosts
<1>2. ASSUME NEW t \in Tasks, Stopped(t) PROVE TInv'
  BY <1>2, StopDoneTyped DEF Stopped, Await, Hot, Update
<1>3. ASSUME NEW t \in Tasks, Unstarted(t) PROVE TInv'
  BY <1>3, StopDoneTyped DEF Unstarted, Await, Hot, Update
<1>4. ASSUME NEW t \in Tasks, ReloadStopped(t) PROVE TInv'
  BY <1>4, StopDoneTyped DEF ReloadStopped, Await, Hot, Update
<1> QED
  BY <1>1, <1>2, <1>3, <1>4, UploadTyped, ReloadTyped, StartsTyped, RequestTyped,
     InstanceTyped, RestartTyped
     DEF Next

\* However the requests on a plugin overlap, and whatever files are uploaded:
\* the loader in id_cache has a path of the plugin directory, and a request
\* that updates knows the file it brings and the one it replaces.
THEOREM Typing == Spec => []TypeOK
<1>1. TInv => TypeOK
  BY DEF TInv
<1> QED
  BY <1>1, InitTInv, StepTInv, PTL DEF Spec

-----------------------------------------------------------------------------
(* One request at a time                                                   *)

\* No two requests overlap, and a version is one build, whose main module
\* compiles: the requests of one administrator who does not reuse a version.
Orderly ==
    /\ Overlap = FALSE
    /\ \A c \in Contents : c.kind # "unparsable"
    /\ \A c, d \in Contents : c.version = d.version => c = d

\* One request is in progress.
Alone ==
    \A s, t \in Tasks : frame[s].pc # "idle" /\ frame[t].pc # "idle" => s = t

\* A file, a cached directory and the importer have the version of their name;
\* no name is from the future.
Versioned ==
    /\ \A p \in Paths :
          /\ disk[p] # Null => disk[p].version = p[1] /\ p[2] <= uploads
          /\ dircache[p] # Null => dircache[p].version = p[1]
    /\ loader # Null => loader.files.version = loader.importer[1]

\* The loader has a file, and what it has loaded is that file.
LoaderStored ==
    loader # Null => /\ loader.version = loader.path[1]
                     /\ disk[loader.path] # Null
                     /\ loader.loaded \in {Null, disk[loader.path]}

\* Without a loader there is nothing that uses one.
LoaderNeeded ==
    /\ refs # {} \/ history.wanted => loader # Null
    /\ \A i \in Instances : late[i] # Null => i \in history.strays

Followed == Instances \ history.strays

AllStopped == \A i \in Followed : running[i] = Null

\* The one file, which a restart of the process can load.
Settled == Files = {loader.path} /\ disk[loader.path].kind # "nomodule"

AtRest ==
    /\ loader # Null => Settled
    /\ loader = Null => Files = {}
    /\ \A i \in Followed : running[i] # Null => i \in refs /\ RunsStored(i)

\* Which of its two files the loader of an update has.
OnOld == {"stop", "reload", "restart"}
OnNew == {"start", "unstart", "rollback"}

Stopping == {"stop", "unstart", "rstop"}
Starting == {"start", "restart", "rstart"}

\* The request with frame f is in progress.
Working(f) ==
    /\ loader # Null /\ f.born = loader.born
    /\ IF f.pc \in Update
       THEN /\ f.old # f.new /\ Files = {f.old, f.new}
            /\ disk[f.old].kind # "nomodule"
            /\ loader.path = IF f.pc \in OnOld THEN f.old ELSE f.new
       ELSE Settled
    /\ IF f.pc \in Stopping
       THEN \A i \in Followed : running[i] # Null => i \in f.set
       ELSE AllStopped
    /\ f.pc \in Starting => /\ f.set \subseteq refs
                            /\ f.cls = disk[loader.path] /\ f.cls.kind = "good"

Requests == \A t \in Tasks : frame[t].pc # "idle" => Working(frame[t])

\* The inductive invariant.
IInv ==
    /\ TInv /\ Alone /\ Versioned /\ LoaderStored /\ LoaderNeeded
    /\ (Quiet => AtRest) /\ Requests

\* A step of one request: what is left to show.
LEMMA OneStep ==
    ASSUME IInv, TInv', NEW t \in Tasks, Quiet \/ frame[t].pc # "idle",
           \A s \in Tasks \ {t} : frame'[s] = frame[s],
           Versioned', LoaderStored', LoaderNeeded',
           frame'[t].pc = "idle" => AtRest',
           frame'[t].pc # "idle" => Working(frame[t])'
    PROVE  IInv'
<1>1. \A s \in Tasks \ {t} : frame'[s].pc = "idle"
  BY DEF IInv, Alone, Quiet
<1>2. Alone'
  BY <1>1 DEF Alone
<1>3. Quiet' => AtRest'
  BY DEF Quiet
<1>4. Requests'
  BY <1>1 DEF Requests
<1> QED
  BY <1>2, <1>3, <1>4 DEF IInv

LEMMA FilesTrashed ==
    ASSUME TypeOK, NEW p, disk' = Trash(disk, p)
    PROVE  Files' = Files \ {p} /\ \A q \in Files' : disk'[q] = disk[q]
BY DEF Files, Trash, TypeOK

LEMMA FilesAdded ==
    ASSUME TypeOK, NEW p \in Paths, NEW c \in Contents,
           disk' = [disk EXCEPT ![p] = c]
    PROVE  /\ Files' = Files \cup {p} /\ disk'[p] = c
           /\ \A q \in Paths \ {p} : disk'[q] = disk[q]
BY NullAssumption DEF Files, TypeOK

\* _run_preload_checks() with the right directory.
LEMMA ChecksOrderly ==
    ASSUME Orderly, NEW c \in Contents, NEW o \in Checks(c, c)
    PROVE  o = IF c.kind = "nomodule" THEN "refused" ELSE "ok"
BY DEF Orderly, Checks

\* The loader object l is read from the file with the version of its name.
Read(l, dirs) ==
    /\ l.version = l.path[1] /\ l.files.version = l.importer[1]
    /\ \A p \in Paths : dirs[p] # Null => dirs[p].version = p[1]

\* _load() of a file that is there never meets the directory of another one.
LEMMA LoadOrderly ==
    ASSUME Orderly, IInv, NEW l \in Loaders, NEW b \in BOOLEAN, NEW r \in Load(l, b),
           disk[l.path] # Null, l.files.version = l.importer[1]
    PROVE  /\ r.how = IF disk[l.path].kind = "good" THEN "ok" ELSE "refused"
           /\ Read(r.loader, r.dirs)
<1> DEFINE c == disk[l.path]
           dir == IF b THEN c
                  ELSE IF l.importer = l.path THEN l.files ELSE Directory(l.path, c)
           read == [l EXCEPT !.version = c.version, !.importer = l.path,
                             !.files = dir]
           keep == IF b \/ l.importer # l.path
                   THEN [dircache EXCEPT ![l.path] = dir] ELSE dircache
           drop == [dircache EXCEPT ![l.path] = Null]
           done == [read EXCEPT !.loaded = c]
<1>1. /\ l.path \in Paths /\ l.files \in Contents /\ c \in Contents
      /\ dircache \in Dirs /\ TypeOK
  BY DEF IInv, TInv, TypeOK, Loaders, Dirs
<1>2. c.version = l.path[1]
  BY <1>1 DEF IInv, Versioned
<1>3. dir = c
  <2>1. CASE ~b /\ l.importer # l.path /\ dircache[l.path] # Null
    <3>1. dir = dircache[l.path] /\ dir \in Contents /\ dir.version = l.path[1]
      BY <1>1, <2>1 DEF Directory, Dirs, IInv, Versioned
    <3> QED
      BY <1>1, <1>2, <3>1 DEF Orderly
  <2>2. CASE ~b /\ l.importer = l.path
    BY <1>1, <1>2, <2>2 DEF Orderly
  <2> QED
    BY <2>1, <2>2 DEF Directory
<1>4. PICK o \in Checks(dir, c) :
         r = IF o = "ok" /\ c.kind = "good"
             THEN [how |-> "ok", loader |-> done, dirs |-> keep]
             ELSE IF o = "raises"
             THEN [how |-> o, loader |-> read, dirs |-> keep]
             ELSE [how |-> "refused", loader |-> read, dirs |-> drop]
  BY DEF Load
<1>5. o = IF c.kind = "nomodule" THEN "refused" ELSE "ok"
  BY <1>1, <1>3, <1>4, ChecksOrderly
<1>6. Read(read, keep) /\ Read(read, drop) /\ Read(done, keep)
  <2>1. /\ read.version = c.version /\ read.path = l.path
        /\ read.files = c /\ read.importer = l.path
        /\ done.version = c.version /\ done.path = l.path
        /\ done.files = c /\ done.importer = l.path
    BY <1>3 DEF Loaders
  <2>2. \A p \in Paths : /\ keep[p] # Null => keep[p].version = p[1]
                         /\ drop[p] # Null => drop[p].version = p[1]
    <3>1. \A p \in Paths : dircache[p] # Null => dircache[p].version = p[1]
      BY DEF IInv, Versioned
    <3> HIDE DEF c, dir
    <3> QED
      BY <1>1, <1>2, <1>3, <3>1 DEF Dirs
  <2> HIDE DEF c, read, keep, drop, done
  <2> QED
    BY <1>2, <2>1, <2>2 DEF Read
<1> HIDE DEF read, keep, drop, done, dir
<1>7. CASE c.kind = "good"
  <2>1. r = [how |-> "ok", loader |-> done, dirs |-> keep]
    BY <1>4, <1>5, <1>7
  <2> QED
    BY <1>6, <1>7, <2>1
<1>8. CASE c.kind # "good"
  <2>1. r = [how |-> "refused", loader |-> read, dirs |-> drop]
    BY <1>4, <1>5, <1>8
  <2> QED
    BY <1>6, <1>8, <2>1
<1> QED
  BY <1>7, <1>8

LEMMA ReloadOrderly ==
    ASSUME Orderly, IInv, loader # Null, NEW p \in Paths, disk[p] # Null,
           NEW r \in Reload(p)
    PROVE  /\ r.how = IF disk[p].kind = "good" THEN "ok" ELSE "refused"
           /\ Read(r.loader, r.dirs)
           /\ r.loader \in Loaders /\ r.loader.path = p
           /\ r.loader.born = loader.born
           /\ r.loader.loaded = IF r.how = "ok" THEN disk[p] ELSE Null
<1> DEFINE l == [loader EXCEPT !.path = p, !.loaded = Null]
<1>1. loader \in Loaders /\ loader.files.version = loader.importer[1] /\ TypeOK
  BY DEF IInv, TInv, TypeOK, Versioned
<1>2. /\ l \in Loaders /\ l.path = p /\ l.files = loader.files
      /\ l.importer = loader.importer
  BY <1>1 DEF Loaders
<1>3. r \in Load(l, TRUE)
  BY DEF Reload
<1> HIDE DEF l
<1>4. /\ r.how = IF disk[p].kind = "good" THEN "ok" ELSE "refused"
      /\ Read(r.loader, r.dirs)
  BY <1>1, <1>2, <1>3, LoadOrderly
<1> QED
  BY <1>1, <1>4, ReloadIs

\* upload_new_plugin() into a directory without a file of the plugin.
LEMMA UploadNewStep ==
    ASSUME Orderly, IInv, TInv', NEW t \in Tasks, NEW c \in Contents,
           UploadNew(t, c)
    PROVE  IInv'
<1> DEFINE p == <<c.version, 0>>
           dir == Directory(p, c)
<1>1. /\ TypeOK /\ Quiet /\ loader = Null /\ frame[t].pc = "idle"
      /\ uploads < MaxUploads /\ uploads' = uploads + 1 /\ uploads \in Nat
      /\ UNCHANGED <<up, refs, running, late, frame>>
  BY BoundsAssumption DEF IInv, TInv, TypeOK, UploadNew, Call, Orderly, Runs, insts
<1>2. p \in Paths
  BY <1>1, PathTyped
<1>3. Files = {} /\ refs = {} /\ AllStopped
  BY <1>1 DEF IInv, AtRest, LoaderNeeded, AllStopped
<1>4. dir = c
  BY <1>1, <1>2 DEF Directory, IInv, Versioned, TypeOK, Orderly
<1>5. PICK o \in Checks(dir, c) :
         /\ disk' = IF o = "refused" THEN Trash(disk, p)
                    ELSE [disk EXCEPT ![p] = c]
         /\ dircache' = [dircache EXCEPT ![p] = IF o = "refused" THEN Null
                                                ELSE dir]
         /\ loader' = IF o = "ok" THEN NewLoader(p, c, dir, uploads') ELSE Null
         /\ history' = [history EXCEPT !.wanted = o = "ok"]
  BY DEF UploadNew
<1>6. o = IF c.kind = "nomodule" THEN "refused" ELSE "ok"
  BY <1>4, <1>5, ChecksOrderly
<1>7. /\ history'.strays = history.strays
      /\ history'.wanted = (o = "ok")
  BY <1>1, <1>5 DEF TypeOK, Histories
<1>8. p[1] = c.version /\ p[2] = 0 /\ \A q \in Paths : disk[q] = Null
  BY <1>3 DEF Files
<1> HIDE DEF p, dir
<1>9. AllStopped'
  BY <1>1, <1>3, <1>7 DEF AllStopped, Followed
<1>10. CASE c.kind = "nomodule"
  <2>1. o = "refused"
    BY <1>6, <1>10
  <2>2. /\ disk' = Trash(disk, p) /\ loader' = Null /\ ~history'.wanted
        /\ dircache' = [dircache EXCEPT ![p] = Null]
    BY <1>5, <1>7, <2>1
  <2>3. Files' = {} /\ \A q \in Paths : disk'[q] = Null
    BY <1>1, <1>3, <2>2, FilesTrashed DEF Files
  <2>4. Versioned'
    BY <1>1, <2>2, <2>3 DEF IInv, Versioned, TypeOK
  <2>5. LoaderStored' /\ LoaderNeeded'
    BY <1>1, <1>3, <1>7, <2>2 DEF IInv, LoaderStored, LoaderNeeded
  <2>6. AtRest'
    BY <1>9, <2>2, <2>3 DEF AtRest, AllStopped
  <2> QED
    BY <1>1, <2>4, <2>5, <2>6, OneStep
<1>11. CASE c.kind # "nomodule"
  <2>1. o = "ok"
    BY <1>6, <1>11
  <2>2. /\ disk' = [disk EXCEPT ![p] = c] /\ loader' = NewLoader(p, c, c, uploads')
        /\ dircache' = [dircache EXCEPT ![p] = c]
    BY <1>4, <1>5, <2>1
  <2>3. /\ Files' = {p} /\ disk'[p] = c
        /\ \A q \in Paths \ {p} : disk'[q] = Null
    BY <1>1, <1>2, <1>3, <1>8, <2>2, FilesAdded
  <2>4. /\ loader'.path = p /\ loader'.version = c.version /\ loader'.files = c
        /\ loader'.importer = p /\ loader'.loaded = Null
    BY <2>2 DEF NewLoader
  <2>5. loader' # Null
    <3>1. loader' \in Loaders
      BY <1>1, <1>2, <2>2, PathTyped, NewLoaderTyped
    <3> QED
      BY <3>1, NullAssumption
  <2>6. Versioned'
    BY <1>1, <1>8, <2>2, <2>3, <2>4 DEF IInv, Versioned, TypeOK
  <2>7. LoaderStored' /\ LoaderNeeded'
    BY <1>1, <1>2, <1>7, <1>8, <2>3, <2>4, <2>5, NullAssumption
       DEF IInv, LoaderStored, LoaderNeeded
  <2>8. AtRest'
    BY <1>9, <1>11, <2>3, <2>4, <2>5 DEF AtRest, AllStopped, Settled
  <2> QED
    BY <1>1, <2>6, <2>7, <2>8, OneStep
<1> QED
  BY <1>10, <1>11

\* What stop_instances() makes of the frame f.
LEMMA StopThenIs ==
    ASSUME TypeOK, NEW t \in Tasks, NEW f \in Frames, NEW await, NEW hot,
           StopThen(t, f, await, hot)
    PROVE  /\ \A s \in Tasks \ {t} : frame'[s] = frame[s]
           /\ frame'[t].old = f.old /\ frame'[t].new = f.new
           /\ frame'[t].born = f.born
           /\ \/ Live = {} /\ frame'[t].pc = hot
              \/ frame'[t].pc = await /\ frame'[t].set = Live
BY DEF StopThen, TypeOK, Frames

\* An instance that runs is stopped, whichever it is.
LEMMA LiveIsAll ==
    ASSUME IInv, Quiet
    PROVE  \A i \in Followed : running[i] # Null => i \in Live
BY DEF IInv, AtRest, Live

\* upload_replacement_plugin() puts a second file beside the one in use.
LEMMA UploadReplacementStep ==
    ASSUME Orderly, IInv, TInv', NEW t \in Tasks, NEW c \in Contents,
           UploadReplacement(t, c)
    PROVE  IInv'
<1> DEFINE p == ReplacementPath(c)
           f == [NoFrame EXCEPT !.new = p, !.old = loader.path,
                                !.born = loader.born]
<1>1. /\ TypeOK /\ Quiet /\ loader # Null /\ frame[t].pc = "idle"
      /\ uploads < MaxUploads /\ uploads' = uploads + 1 /\ uploads \in Nat
      /\ UNCHANGED <<up, refs, running, late, loader, dircache, history>>
      /\ disk' = [disk EXCEPT ![p] = c]
      /\ StopThen(t, f, "stop", "reload")
  BY BoundsAssumption
     DEF IInv, TInv, TypeOK, UploadReplacement, Call, Orderly, Runs, insts
<1>2. p \in Paths
  BY <1>1, PathTyped
<1>3. loader \in Loaders /\ loader.path \in Paths
  BY <1>1 DEF TypeOK, Loaders
<1>4. Settled /\ disk[loader.path] # Null
  BY <1>1 DEF IInv, AtRest, LoaderStored
<1>5. p[1] = c.version /\ p[2] <= uploads' /\ p # loader.path
  <2>1. loader.path[2] <= uploads /\ loader.version = loader.path[1]
    BY <1>1, <1>3, <1>4 DEF IInv, Versioned, LoaderStored
  <2>2. CASE c.version # loader.version
    <3>1. p = <<c.version, 0>>
      BY <2>1, <2>2 DEF ReplacementPath
    <3> QED
      BY <1>1, <2>1, <2>2, <3>1
  <2>3. CASE c.version = loader.version
    <3>1. p = <<c.version, uploads + 1>>
      BY <2>1, <2>3 DEF ReplacementPath
    <3> QED
      BY <1>1, <2>1, <2>3, <3>1
  <2> QED
    BY <2>2, <2>3
<1> HIDE DEF p
<1>6. /\ f \in Frames /\ f.new = p /\ f.old = loader.path /\ f.born = loader.born
  BY <1>2, <1>3 DEF NoFrame, Frames, Loaders
<1> HIDE DEF f
<1>7. /\ \A s \in Tasks \ {t} : frame'[s] = frame[s]
      /\ frame'[t].old = loader.path /\ frame'[t].new = p
      /\ frame'[t].born = loader.born
      /\ \/ Live = {} /\ frame'[t].pc = "reload"
         \/ frame'[t].pc = "stop" /\ frame'[t].set = Live
  BY <1>1, <1>6, StopThenIs
<1>8. /\ Files' = {loader.path, p} /\ disk'[p] = c
      /\ \A q \in Paths \ {p} : disk'[q] = disk[q]
  <2>1. /\ Files' = Files \cup {p} /\ disk'[p] = c
        /\ \A q \in Paths \ {p} : disk'[q] = disk[q]
    BY <1>1, <1>2, FilesAdded
  <2> QED
    BY <1>4, <2>1 DEF Settled
<1>9. Versioned'
  <2>1. \A q \in Paths : q[2] \in Nat
    BY BoundsAssumption DEF Paths
  <2> QED
    BY <1>1, <1>5, <1>8, <2>1 DEF IInv, Versioned
<1>10. LoaderStored' /\ LoaderNeeded'
  BY <1>1, <1>3, <1>5, <1>8 DEF IInv, LoaderStored, LoaderNeeded
<1>11. Working(frame[t])'
  <2>1. disk'[loader.path] = disk[loader.path]
    BY <1>3, <1>5, <1>8
  <2>2. \A i \in Followed : running[i] # Null => i \in Live
    BY <1>1, LiveIsAll
  <2> QED
    BY <1>1, <1>4, <1>5, <1>7, <1>8, <2>1, <2>2
       DEF Working, Settled, Update, OnOld, Stopping, Starting, Followed, AllStopped
<1> QED
  BY <1>1, <1>7, <1>9, <1>10, <1>11, OneStep

\* stop_instances() returns: everything that ran is stopped.
LEMMA StopDoneStep ==
    ASSUME IInv, TInv', NEW t \in Tasks, NEW await, NEW hot,
           <<await, hot>> \in {<<"stop", "reload">>, <<"unstart", "rollback">>,
                               <<"rstop", "rreload">>},
           StopDone(t, await, hot)
    PROVE  IInv'
<1>1. /\ TypeOK /\ frame[t].pc = await /\ await # "idle" /\ frame[t] \in Frames
      /\ UNCHANGED <<up, disk, loader, dircache, refs, late, uploads, history>>
  BY DEF IInv, TInv, TypeOK, StopDone, Runs, files, ghosts
<1>2. Working(frame[t])
  BY <1>1 DEF IInv, Requests
<1>3. /\ \A s \in Tasks \ {t} : frame'[s] = frame[s]
      /\ frame'[t].pc = hot /\ frame'[t].old = frame[t].old
      /\ frame'[t].new = frame[t].new /\ frame'[t].born = frame[t].born
  BY <1>1 DEF StopDone, TypeOK, Frames
<1>4. AllStopped'
  BY <1>1, <1>2 DEF StopDone, Working, Stopping, AllStopped, Followed
<1>5. Versioned' /\ LoaderStored' /\ LoaderNeeded'
  BY <1>1 DEF IInv, Versioned, LoaderStored, LoaderNeeded
<1>6. Files' = Files /\ (Settled => Settled')
  BY <1>1 DEF Files, Settled
<1>7. Working(frame[t])'
  BY <1>1, <1>2, <1>3, <1>4, <1>6
     DEF Working, Update, OnOld, Stopping, Starting
<1> QED
  BY <1>1, <1>3, <1>5, <1>7, OneStep

\* The loader after a reload of the path p.
LEMMA Reloaded ==
    ASSUME Orderly, IInv, loader # Null, NEW p \in Paths, disk[p] # Null,
           NEW r \in Reload(p), loader' = r.loader, dircache' = r.dirs,
           UNCHANGED <<uploads, refs, running, late, history>>,
           disk'[p] = disk[p],
           \A q \in Paths : disk'[q] \in {Null, disk[q]}
    PROVE  /\ Versioned' /\ LoaderStored' /\ LoaderNeeded'
           /\ loader' # Null /\ loader'.path = p /\ loader'.born = loader.born
           /\ r.how = IF disk[p].kind = "good" THEN "ok" ELSE "refused"
           /\ r.how = "ok" => r.loader.loaded = disk[p]
<1>1. /\ r.how = IF disk[p].kind = "good" THEN "ok" ELSE "refused"
      /\ Read(r.loader, r.dirs)
      /\ r.loader \in Loaders /\ r.loader.path = p
      /\ r.loader.born = loader.born
      /\ r.loader.loaded = IF r.how = "ok" THEN disk[p] ELSE Null
  BY ReloadOrderly
<1>2. loader' # Null
  BY <1>1, NullAssumption
<1>3. Versioned'
  BY <1>1 DEF IInv, Versioned, Read
<1>4. LoaderStored'
  BY <1>1 DEF LoaderStored, Read
<1>5. LoaderNeeded'
  BY <1>2 DEF IInv, LoaderNeeded
<1> QED
  BY <1>1, <1>2, <1>3, <1>4, <1>5

\* What start_instances() makes of the frame.
LEMMA StartAtIs ==
    ASSUME TypeOK, NEW t \in Tasks, NEW l, NEW E, NEW c, StartAt(t, l, E, c)
    PROVE  /\ \A s \in Tasks \ {t} : frame'[s] = frame[s]
           /\ frame'[t].pc = l /\ frame'[t].set = E /\ frame'[t].cls = c
           /\ frame'[t].old = frame[t].old /\ frame'[t].new = frame[t].new
           /\ frame'[t].born = frame[t].born
BY DEF StartAt, TypeOK, Frames

\* The request is over.
LEMMA FinishIs ==
    ASSUME TypeOK, NEW t \in Tasks, Finish(t)
    PROVE  /\ \A s \in Tasks \ {t} : frame'[s] = frame[s]
           /\ frame'[t].pc = "idle"
BY DEF Finish, NoFrame, TypeOK

\* The update loads its new file; the instances are stopped.
LEMMA LoadNewStep ==
    ASSUME Orderly, IInv, TInv', NEW t \in Tasks, NEW E \in Enabled, LoadNew(t, E)
    PROVE  IInv'
<1> DEFINE old == frame[t].old
           new == frame[t].new
<1>1. /\ TypeOK /\ frame[t].pc = "reload" /\ frame[t] \in Frames
      /\ new \in Paths /\ old \in Paths
      /\ UNCHANGED <<uploads, refs, running, late, history>>
  BY DEF IInv, TInv, TypeOK, UpdateKnows, Update, LoadNew, Runs, insts, ghosts
<1>2. Working(frame[t])
  BY <1>1 DEF IInv, Requests
<1>3. /\ loader # Null /\ frame[t].born = loader.born
      /\ old # new /\ Files = {old, new} /\ disk[old].kind # "nomodule"
      /\ AllStopped /\ disk[new] # Null /\ disk[old] # Null
  BY <1>1, <1>2 DEF Working, Update, Stopping, Files
<1>4. PICK r \in Reload(new) :
        /\ loader' = r.loader
        /\ dircache' = r.dirs
        /\ \/ /\ r.how = "ok" /\ E # {}
              /\ StartAt(t, "start", E, r.loader.loaded)
              /\ UNCHANGED disk
           \/ /\ r.how = "ok" /\ E = {}
              /\ disk' = Trash(disk, old)
              /\ Finish(t)
           \/ /\ r.how = "refused"
              /\ frame' = [frame EXCEPT ![t].pc = "rollback"]
              /\ UNCHANGED disk
           \/ r.how = "raises" /\ Finish(t) /\ UNCHANGED disk
  BY DEF LoadNew
<1> HIDE DEF old, new
<1>5. disk'[new] = disk[new] /\ \A q \in Paths : disk'[q] \in {Null, disk[q]}
  BY <1>1, <1>3, <1>4 DEF Trash, TypeOK
<1>6. /\ Versioned' /\ LoaderStored' /\ LoaderNeeded'
      /\ loader' # Null /\ loader'.path = new /\ loader'.born = loader.born
      /\ r.how = IF disk[new].kind = "good" THEN "ok" ELSE "refused"
      /\ r.how = "ok" => r.loader.loaded = disk[new]
  BY <1>1, <1>3, <1>4, <1>5, Reloaded
<1>7. AllStopped'
  BY <1>1, <1>3 DEF AllStopped, Followed
<1>8. CASE r.how = "ok" /\ E # {}
  <2>1. StartAt(t, "start", E, r.loader.loaded) /\ UNCHANGED disk
    BY <1>4, <1>8
  <2>2. /\ \A s \in Tasks \ {t} : frame'[s] = frame[s]
        /\ frame'[t].pc = "start" /\ frame'[t].set = E
        /\ frame'[t].cls = disk[new]
        /\ frame'[t].old = old /\ frame'[t].new = new
        /\ frame'[t].born = loader.born
    BY <1>1, <1>3, <1>6, <1>8, <2>1, StartAtIs DEF old, new
  <2>3. Working(frame[t])'
    BY <1>1, <1>3, <1>6, <1>7, <1>8, <2>1, <2>2
       DEF Working, Update, OnOld, Stopping, Starting, Files, Enabled
  <2> QED
    BY <1>1, <1>6, <2>2, <2>3, OneStep
<1>9. CASE r.how = "ok" /\ E = {}
  <2>1. Finish(t) /\ disk' = Trash(disk, old)
    BY <1>4, <1>9
  <2>2. Files' = {new} /\ disk'[new].kind = "good"
    BY <1>1, <1>3, <1>5, <1>6, <1>9, <2>1, FilesTrashed
  <2>3. AtRest'
    BY <1>6, <1>7, <2>2 DEF AtRest, AllStopped, Settled
  <2> QED
    BY <1>1, <1>6, <2>1, <2>3, FinishIs, OneStep
<1>10. CASE r.how # "ok"
  <2>1. frame' = [frame EXCEPT ![t].pc = "rollback"] /\ UNCHANGED disk
    BY <1>4, <1>6, <1>10
  <2>2. /\ \A s \in Tasks \ {t} : frame'[s] = frame[s]
        /\ frame'[t].pc = "rollback" /\ frame'[t].old = old
        /\ frame'[t].new = new /\ frame'[t].born = loader.born
    BY <1>1, <1>3, <2>1 DEF TypeOK, Frames, old, new
  <2>3. Working(frame[t])'
    BY <1>1, <1>3, <1>6, <1>7, <2>1, <2>2
       DEF Working, Update, OnOld, Stopping, Starting, Files
  <2> QED
    BY <1>1, <1>6, <2>2, <2>3, OneStep
<1> QED
  BY <1>8, <1>9, <1>10

\* The rollback loads the old file again.
LEMMA RollbackStep ==
    ASSUME Orderly, IInv, TInv', NEW t \in Tasks, NEW E \in Enabled, Rollback(t, E)
    PROVE  IInv'
<1> DEFINE old == frame[t].old
           new == frame[t].new
<1>1. /\ TypeOK /\ frame[t].pc = "rollback" /\ frame[t] \in Frames
      /\ new \in Paths /\ old \in Paths
      /\ UNCHANGED <<uploads, refs, running, late, history>>
  BY DEF IInv, TInv, TypeOK, UpdateKnows, Update, Rollback, Runs, insts, ghosts
<1>2. Working(frame[t])
  BY <1>1 DEF IInv, Requests
<1>3. /\ loader # Null /\ frame[t].born = loader.born
      /\ old # new /\ Files = {old, new} /\ disk[old].kind # "nomodule"
      /\ AllStopped /\ disk[old] # Null
  BY <1>1, <1>2 DEF Working, Update, Stopping, Files
<1>4. PICK r \in Reload(old) :
        /\ loader' = r.loader
        /\ dircache' = r.dirs
        /\ IF r.how = "ok" /\ E # {}
           THEN StartAt(t, "restart", E, r.loader.loaded) /\ UNCHANGED disk
           ELSE disk' = Trash(disk, new) /\ Finish(t)
  BY DEF Rollback
<1> HIDE DEF old, new
<1>5. disk'[old] = disk[old] /\ \A q \in Paths : disk'[q] \in {Null, disk[q]}
  BY <1>1, <1>3, <1>4 DEF Trash, TypeOK
<1>6. /\ Versioned' /\ LoaderStored' /\ LoaderNeeded'
      /\ loader' # Null /\ loader'.path = old /\ loader'.born = loader.born
      /\ r.how = IF disk[old].kind = "good" THEN "ok" ELSE "refused"
      /\ r.how = "ok" => r.loader.loaded = disk[old]
  BY <1>1, <1>3, <1>4, <1>5, Reloaded
<1>7. AllStopped'
  BY <1>1, <1>3 DEF AllStopped, Followed
<1>8. CASE r.how = "ok" /\ E # {}
  <2>1. StartAt(t, "restart", E, r.loader.loaded) /\ UNCHANGED disk
    BY <1>4, <1>8
  <2>2. /\ \A s \in Tasks \ {t} : frame'[s] = frame[s]
        /\ frame'[t].pc = "restart" /\ frame'[t].set = E
        /\ frame'[t].cls = disk[old]
        /\ frame'[t].old = old /\ frame'[t].new = new
        /\ frame'[t].born = loader.born
    BY <1>1, <1>3, <1>6, <1>8, <2>1, StartAtIs DEF old, new
  <2>3. Working(frame[t])'
    BY <1>1, <1>3, <1>6, <1>7, <1>8, <2>1, <2>2
       DEF Working, Update, OnOld, Stopping, Starting, Files, Enabled
  <2> QED
    BY <1>1, <1>6, <2>2, <2>3, OneStep
<1>9. CASE ~(r.how = "ok" /\ E # {})
  <2>1. Finish(t) /\ disk' = Trash(disk, new)
    BY <1>4, <1>9
  <2>2. Files' = {old} /\ disk'[old].kind # "nomodule"
    BY <1>1, <1>3, <1>5, <2>1, FilesTrashed
  <2>3. AtRest'
    BY <1>6, <1>7, <2>2 DEF AtRest, AllStopped, Settled
  <2> QED
    BY <1>1, <1>6, <2>1, <2>3, FinishIs, OneStep
<1> QED
  BY <1>8, <1>9

\* A reload request loads the file again.
LEMMA ReloadsStep ==
    ASSUME Orderly, IInv, TInv', NEW t \in Tasks, NEW E \in Enabled, Reloads(t, E)
    PROVE  IInv'
<1> DEFINE p == loader.path
<1>1. /\ TypeOK /\ frame[t].pc = "rreload" /\ frame[t] \in Frames
      /\ UNCHANGED <<disk, uploads, refs, running, late, history>>
  BY DEF IInv, TInv, TypeOK, Reloads, Runs, insts, ghosts
<1>2. Working(frame[t])
  BY <1>1 DEF IInv, Requests
<1>3. /\ loader # Null /\ frame[t].born = loader.born /\ Settled
      /\ AllStopped /\ disk[p] # Null
  BY <1>1, <1>2 DEF Working, Update, Stopping, IInv, LoaderStored
<1>4. p \in Paths
  BY <1>1, <1>3 DEF TypeOK, Loaders
<1>5. PICK r \in Reload(p) :
        /\ loader' = r.loader
        /\ dircache' = r.dirs
        /\ IF r.how = "ok" /\ E # {}
           THEN StartAt(t, "rstart", E, r.loader.loaded) ELSE Finish(t)
  BY DEF Reloads
<1>6. /\ Versioned' /\ LoaderStored' /\ LoaderNeeded'
      /\ loader' # Null /\ loader'.path = p /\ loader'.born = loader.born
      /\ r.how = IF disk[p].kind = "good" THEN "ok" ELSE "refused"
      /\ r.how = "ok" => r.loader.loaded = disk[p]
  BY <1>1, <1>3, <1>4, <1>5, Reloaded
<1>7. AllStopped' /\ Settled'
  BY <1>1, <1>3, <1>6 DEF AllStopped, Followed, Settled, Files
<1>8. CASE r.how = "ok" /\ E # {}
  <2>1. StartAt(t, "rstart", E, r.loader.loaded)
    BY <1>5, <1>8
  <2>2. /\ \A s \in Tasks \ {t} : frame'[s] = frame[s]
        /\ frame'[t].pc = "rstart" /\ frame'[t].set = E
        /\ frame'[t].cls = disk[p] /\ frame'[t].born = loader.born
    BY <1>1, <1>3, <1>6, <1>8, <2>1, StartAtIs
  <2>3. Working(frame[t])'
    BY <1>1, <1>6, <1>7, <1>8, <2>2 DEF Working, Update, Stopping, Starting, Enabled
  <2> QED
    BY <1>1, <1>6, <2>2, <2>3, OneStep
<1>9. CASE ~(r.how = "ok" /\ E # {})
  <2>1. Finish(t)
    BY <1>5, <1>9
  <2>2. AtRest'
    BY <1>6, <1>7 DEF AtRest, AllStopped
  <2> QED
    BY <1>1, <1>6, <2>1, <2>2, FinishIs, OneStep
<1> QED
  BY <1>8, <1>9

\* start_instances() of the loader's class ends: S of its instances run it, and
\* those that go on alone are no longer followed.
LEMMA StartDoneIs ==
    ASSUME IInv, NEW t \in Tasks, frame[t].pc \in Starting,
           NEW S \in SUBSET frame[t].set, NEW L \in SUBSET frame[t].set,
           StartDone(t, S, L)
    PROVE  /\ Followed' = Followed \ L /\ history'.wanted = history.wanted
           /\ S \subseteq refs
           /\ \A i \in Followed' :
                 /\ i \in S => running'[i] = disk[loader.path]
                 /\ i \notin S => running'[i] = Null
           /\ \A i \in Instances : late'[i] # Null => i \in history'.strays
<1>1. Working(frame[t])
  BY DEF IInv, Requests, Starting
<1>2. /\ AllStopped /\ frame[t].set \subseteq refs
      /\ frame[t].cls = disk[loader.path]
  BY <1>1 DEF Working, Stopping, Starting
<1>3. history'.wanted = history.wanted /\ history'.strays = history.strays \cup L
  BY DEF StartDone, IInv, TInv, TypeOK, Histories
<1>4. Followed' = Followed \ L
  BY <1>3 DEF Followed
<1> QED
  BY <1>2, <1>3, <1>4 DEF StartDone, IInv, LoaderNeeded, AllStopped, Followed

\* The steps that end start_instances() and leave the files to one version.
LEMMA StartedStep ==
    ASSUME IInv, TInv', NEW t \in Tasks, NEW S \in SUBSET frame[t].set,
           NEW L \in SUBSET frame[t].set,
           \/ L = {} /\ Started(t, S)
           \/ RolledBack(t, S, L) \/ ReloadStarted(t, S, L)
    PROVE  IInv'
<1>1. /\ TypeOK /\ frame[t].pc \in Starting /\ StartDone(t, S, L) /\ Finish(t)
      /\ UNCHANGED <<loader, dircache, refs, uploads>>
      /\ frame[t].pc = IF Started(t, S) THEN "start"
                       ELSE IF RolledBack(t, S, L) THEN "restart" ELSE "rstart"
  BY DEF IInv, TInv, Started, RolledBack, ReloadStarted, Runs, Starting, StartDone,
         files
<1>2. Working(frame[t])
  BY <1>1 DEF IInv, Requests, Starting
<1>3. loader # Null /\ Held(t) /\ loader.path \in Paths /\ disk[loader.path] # Null
  BY <1>1, <1>2 DEF Working, Held, TypeOK, Loaders, IInv, LoaderStored
<1>4. /\ Followed' = Followed \ L /\ history'.wanted = history.wanted
      /\ S \subseteq refs
      /\ \A i \in Followed' :
            /\ i \in S => running'[i] = disk[loader.path]
            /\ i \notin S => running'[i] = Null
      /\ \A i \in Instances : late'[i] # Null => i \in history'.strays
  BY <1>1, StartDoneIs
<1>5. /\ Files' = {loader.path} /\ disk'[loader.path] = disk[loader.path]
      /\ disk[loader.path].kind # "nomodule"
      /\ \A q \in Paths : disk'[q] \in {Null, disk[q]}
  <2>1. CASE Started(t, S)
    <3>1. /\ frame[t].old # frame[t].new /\ Files = {frame[t].old, frame[t].new}
          /\ loader.path = frame[t].new /\ disk[loader.path].kind = "good"
      BY <1>1, <1>2, <2>1 DEF Working, Update, OnOld, Starting
    <3>2. disk' = Trash(disk, frame[t].old)
      BY <1>3, <2>1 DEF Started
    <3>3. Files' = {loader.path} /\ disk'[loader.path] = disk[loader.path]
      BY <1>1, <3>1, <3>2, FilesTrashed
    <3> QED
      BY <1>1, <3>1, <3>2, <3>3 DEF Trash, TypeOK
  <2>2. CASE RolledBack(t, S, L) /\ ~Started(t, S)
    <3>1. /\ frame[t].old # frame[t].new /\ Files = {frame[t].old, frame[t].new}
          /\ loader.path = frame[t].old /\ disk[loader.path].kind # "nomodule"
      BY <1>1, <1>2, <2>2 DEF Working, Update, OnOld
    <3>2. disk' = Trash(disk, frame[t].new)
      BY <2>2 DEF RolledBack
    <3>3. Files' = {loader.path} /\ disk'[loader.path] = disk[loader.path]
      BY <1>1, <3>1, <3>2, FilesTrashed
    <3> QED
      BY <1>1, <3>1, <3>2, <3>3 DEF Trash, TypeOK
  <2>3. CASE ReloadStarted(t, S, L) /\ ~Started(t, S) /\ ~RolledBack(t, S, L)
    <3>1. Settled /\ UNCHANGED disk
      BY <1>1, <1>2, <2>3 DEF Working, Update, ReloadStarted, files
    <3> QED
      BY <3>1 DEF Settled, Files
  <2> QED
    BY <2>1, <2>2, <2>3
<1>6. Versioned'
  BY <1>1, <1>5 DEF IInv, Versioned
<1>7. LoaderStored' /\ LoaderNeeded'
  BY <1>1, <1>3, <1>4, <1>5 DEF IInv, LoaderStored, LoaderNeeded
<1>8. AtRest'
  BY <1>1, <1>3, <1>4, <1>5 DEF AtRest, Settled, RunsStored
<1> QED
  BY <1>1, <1>6, <1>7, <1>8, FinishIs, OneStep DEF Starting

\* A start() raises in an update: what came up is stopped again.
LEMMA StartRaisesStep ==
    ASSUME IInv, TInv', NEW t \in Tasks, NEW S \in SUBSET frame[t].set,
           NEW L \in SUBSET frame[t].set, StartRaises(t, S, L)
    PROVE  IInv'
<1> DEFINE on == {i \in refs : running'[i] # Null}
           f == [frame[t] EXCEPT !.cls = Null, !.set = on]
           g == [f EXCEPT !.pc = IF on = {} THEN "rollback" ELSE "unstart"]
<1>1. /\ TypeOK /\ frame[t].pc = "start" /\ frame[t] \in Frames
      /\ UNCHANGED <<disk, loader, dircache, refs, uploads>>
      /\ StartDone(t, S, L)
  BY DEF IInv, TInv, TypeOK, StartRaises, Runs, StartDone, files
<1>2. Working(frame[t])
  BY <1>1 DEF IInv, Requests
<1>3. Held(t)
  BY <1>2 DEF Working, Held
<1>4. /\ Followed' = Followed \ L /\ history'.wanted = history.wanted
      /\ S \subseteq refs
      /\ \A i \in Followed' :
            /\ i \in S => running'[i] = disk[loader.path]
            /\ i \notin S => running'[i] = Null
      /\ \A i \in Instances : late'[i] # Null => i \in history'.strays
  BY <1>1, StartDoneIs DEF Starting
<1>5. frame' = [frame EXCEPT ![t] = g]
  BY <1>3 DEF StartRaises
<1> HIDE DEF on
<1>6. /\ g.pc = IF on = {} THEN "rollback" ELSE "unstart"
      /\ g.set = on /\ g.old = frame[t].old /\ g.new = frame[t].new
      /\ g.born = frame[t].born
  BY <1>1 DEF Frames
<1> HIDE DEF g
<1>7. frame'[t] = g /\ \A s \in Tasks \ {t} : frame'[s] = frame[s]
  BY <1>1, <1>5 DEF TypeOK
<1>8. \A i \in Followed' : running'[i] # Null => i \in on
  BY <1>4 DEF on
<1>9. Versioned' /\ LoaderStored' /\ LoaderNeeded'
  BY <1>1, <1>4 DEF IInv, Versioned, LoaderStored, LoaderNeeded
<1>10. Files' = Files
  BY <1>1 DEF Files
<1>11. Working(frame[t])'
  <2>1. /\ loader # Null /\ frame[t].born = loader.born
        /\ frame[t].old # frame[t].new /\ Files = {frame[t].old, frame[t].new}
        /\ disk[frame[t].old].kind # "nomodule" /\ loader.path = frame[t].new
    BY <1>1, <1>2 DEF Working, Update, OnOld
  <2>2. frame'[t].pc = "rollback" => AllStopped'
    BY <1>6, <1>7, <1>8 DEF AllStopped
  <2> QED
    BY <1>1, <1>6, <1>7, <1>8, <1>10, <2>1, <2>2
       DEF Working, Update, OnOld, Stopping, Starting
<1>12. frame'[t].pc # "idle"
  BY <1>6, <1>7
<1> QED
  BY <1>1, <1>7, <1>9, <1>11, <1>12, OneStep

\* The other steps of requests.
LEMMA RequestStep ==
    ASSUME Orderly, IInv, TInv', NEW t \in Tasks,
           LoaderGone(t) \/ ReloadPlugin(t) \/ DeletePlugin(t)
    PROVE  IInv'
<1>1. TypeOK /\ frame[t] \in Frames
  BY DEF IInv, TInv, TypeOK
<1>2. CASE LoaderGone(t)
  \* The loader of a request that runs alone is never deleted.
  <2>1. frame[t].pc # "idle" /\ ~Held(t)
    BY <1>2 DEF LoaderGone, Runs
  <2> QED
    BY <2>1 DEF IInv, Requests, Working, Held
<1>3. CASE ReloadPlugin(t)
  <2> DEFINE f == [NoFrame EXCEPT !.born = loader.born]
  <2>1. /\ Quiet /\ loader # Null /\ frame[t].pc = "idle"
        /\ StopThen(t, f, "rstop", "rreload")
        /\ UNCHANGED <<up, disk, loader, dircache, refs, running, late, uploads, history>>
    BY <1>3 DEF ReloadPlugin, Call, Orderly, Runs, files, insts, ghosts
  <2>2. f \in Frames /\ f.born = loader.born
    BY <1>1, <2>1, NoFrameTyped DEF TypeOK, Loaders, Frames, NoFrame
  <2> HIDE DEF f
  <2>3. /\ \A s \in Tasks \ {t} : frame'[s] = frame[s]
        /\ frame'[t].born = loader.born
        /\ \/ Live = {} /\ frame'[t].pc = "rreload"
           \/ frame'[t].pc = "rstop" /\ frame'[t].set = Live
    BY <1>1, <2>1, <2>2, StopThenIs
  <2>4. \A i \in Followed : running[i] # Null => i \in Live
    BY <2>1, LiveIsAll
  <2>5. Versioned' /\ LoaderStored' /\ LoaderNeeded' /\ Settled'
    BY <2>1 DEF IInv, Versioned, LoaderStored, LoaderNeeded, AtRest, Settled, Files
  <2>6. Working(frame[t])'
    BY <2>1, <2>3, <2>4, <2>5
       DEF Working, Update, Stopping, Starting, Followed, AllStopped
  <2> QED
    BY <2>1, <2>3, <2>5, <2>6, OneStep
<1>4. CASE DeletePlugin(t)
  <2>1. /\ Quiet /\ loader # Null /\ frame[t].pc = "idle" /\ refs = {}
        /\ loader' = Null /\ disk' = Trash(disk, loader.path)
        /\ dircache' = [dircache EXCEPT ![loader.importer] = Null]
        /\ history' = [history EXCEPT !.wanted = FALSE]
        /\ UNCHANGED <<up, refs, running, late, frame, uploads>>
    BY <1>4 DEF DeletePlugin, Call, Orderly, Runs, insts
  <2>2. history'.wanted = FALSE /\ history'.strays = history.strays
    BY <1>1, <2>1 DEF TypeOK, Histories
  <2>3. Files' = {}
    BY <1>1, <2>1, FilesTrashed DEF IInv, AtRest, Settled
  <2>4. Versioned'
    BY <1>1, <2>1, <2>3 DEF IInv, Versioned, Files, TypeOK
  <2>5. LoaderStored' /\ LoaderNeeded'
    BY <2>1, <2>2 DEF IInv, LoaderStored, LoaderNeeded
  <2>6. AtRest'
    BY <2>1, <2>2, <2>3 DEF IInv, AtRest, Followed
  <2> QED
    BY <2>1, <2>4, <2>5, <2>6, OneStep
<1> QED
  BY <1>2, <1>3, <1>4

\* Steps that no request takes.
LEMMA NoRequest ==
    ASSUME IInv, TInv', Quiet', Versioned', LoaderStored', LoaderNeeded', AtRest'
    PROVE  IInv'
BY DEF IInv, Alone, Quiet, Requests

\* The steps of instances between requests.
LEMMA InstanceStep ==
    ASSUME Orderly, IInv, TInv', NEW i \in Instances,
           CreateInstance(i) \/ DeleteInstance(i) \/ StartInstance(i)
    PROVE  IInv'
<1>1. /\ TypeOK /\ Quiet /\ AtRest /\ UNCHANGED <<up, disk, late, frame, uploads, history>>
  BY DEF IInv, TInv, CreateInstance, DeleteInstance, StartInstance, Elsewhere, Orderly,
         files, ghosts
<1>2. Quiet' /\ Followed' = Followed /\ Files' = Files
  BY <1>1 DEF Quiet, Followed, Files
<1>3. CASE CreateInstance(i)
  <2>1. UNCHANGED <<loader, dircache, running>> /\ refs' = refs \cup {i} /\ loader # Null
    BY <1>3 DEF CreateInstance, files
  <2>2. Versioned' /\ LoaderStored' /\ LoaderNeeded'
    BY <1>1, <2>1 DEF IInv, Versioned, LoaderStored, LoaderNeeded
  <2>3. AtRest'
    BY <1>1, <1>2, <2>1 DEF AtRest, Settled, RunsStored
  <2> QED
    BY <1>2, <2>2, <2>3, NoRequest
<1>4. CASE DeleteInstance(i)
  <2>1. /\ UNCHANGED <<loader, dircache>> /\ refs' = refs \ {i}
        /\ running' = [running EXCEPT ![i] = Null]
    BY <1>4 DEF DeleteInstance, files
  <2>2. Versioned' /\ LoaderStored' /\ LoaderNeeded'
    BY <1>1, <2>1 DEF IInv, Versioned, LoaderStored, LoaderNeeded
  <2>3. AtRest'
    BY <1>1, <1>2, <2>1 DEF AtRest, Settled, RunsStored, TypeOK, Followed
  <2> QED
    BY <1>2, <2>2, <2>3, NoRequest
<1>5. CASE StartInstance(i)
  <2>1. PICK r \in IF loader.loaded = Null THEN Load(loader, FALSE)
                   ELSE {[how |-> "ok", loader |-> loader, dirs |-> dircache]} :
        /\ loader' = r.loader
        /\ dircache' = r.dirs
        /\ running' = IF r.how = "ok"
                      THEN [running EXCEPT ![i] = r.loader.loaded] ELSE running
    BY <1>5 DEF StartInstance
  <2>2. /\ loader # Null /\ loader \in Loaders /\ disk[loader.path] # Null
        /\ loader.files.version = loader.importer[1] /\ i \in refs /\ refs' = refs
    BY <1>1, <1>5 DEF StartInstance, TypeOK, IInv, LoaderStored, Versioned
  <2>3. /\ Read(r.loader, r.dirs) /\ r.loader \in Loaders
        /\ r.loader.path = loader.path
        /\ r.how = "ok" => r.loader.loaded = disk[loader.path]
        /\ r.how # "ok" => r.loader.loaded = Null
    <3>1. CASE loader.loaded = Null
      BY <1>1, <2>1, <2>2, <3>1, LoadOrderly, LoadIs
    <3>2. CASE loader.loaded # Null
      <4>1. r = [how |-> "ok", loader |-> loader, dirs |-> dircache]
        BY <2>1, <3>2
      <4> QED
        BY <2>2, <3>2, <4>1 DEF IInv, Versioned, LoaderStored, Read
    <3> QED
      BY <3>1, <3>2
  <2>4. loader' # Null /\ loader'.path = loader.path
    BY <2>1, <2>3, NullAssumption
  <2>5. Versioned'
    BY <1>1, <2>1, <2>3 DEF IInv, Versioned, Read
  <2>6. LoaderStored' /\ LoaderNeeded'
    BY <1>1, <2>1, <2>2, <2>3, <2>4 DEF IInv, LoaderStored, LoaderNeeded, Read
  <2>7. \A j \in Instances : running'[j] \in {running[j], disk[loader.path]}
                             /\ (j # i => running'[j] = running[j])
    BY <1>1, <2>1, <2>3 DEF TypeOK
  <2>8. AtRest'
    BY <1>1, <1>2, <2>2, <2>4, <2>7 DEF AtRest, Settled, RunsStored, Followed
  <2> QED
    BY <1>2, <2>5, <2>6, <2>8, NoRequest
<1> QED
  BY <1>3, <1>4, <1>5

\* A start that was left behind concerns an instance that is not followed.
LEMMA LateStartStep ==
    ASSUME IInv, TInv', NEW i \in Instances, NEW ok \in BOOLEAN, LateStart(i, ok)
    PROVE  IInv'
<1>1. /\ TypeOK /\ UNCHANGED <<up, disk, loader, dircache, refs, frame, uploads, history>>
      /\ late[i] # Null
      /\ late' = [late EXCEPT ![i] = Null]
      /\ running' = IF ok THEN [running EXCEPT ![i] = late[i]] ELSE running
  BY DEF IInv, TInv, LateStart, files, ghosts
<1>2. i \notin Followed /\ Followed' = Followed /\ Followed \subseteq Instances
  BY <1>1 DEF IInv, LoaderNeeded, Followed
<1>3. \A j \in Followed : running'[j] = running[j]
  BY <1>1, <1>2 DEF TypeOK
<1>4. Versioned' /\ LoaderStored' /\ LoaderNeeded' /\ Files' = Files
  BY <1>1 DEF IInv, Versioned, LoaderStored, LoaderNeeded, TypeOK, Files
<1>5. Quiet' => AtRest'
  BY <1>1, <1>2, <1>3, <1>4 DEF IInv, Quiet, AtRest, Settled, RunsStored
<1>6. Requests'
  <2> SUFFICES ASSUME NEW t \in Tasks, frame'[t].pc # "idle"
               PROVE  Working(frame[t])'
    BY DEF Requests
  <2>1. Working(frame[t]) /\ frame'[t] = frame[t]
    BY <1>1 DEF IInv, Requests
  <2>2. (Settled => Settled') /\ (AllStopped => AllStopped')
    BY <1>1, <1>2, <1>3, <1>4 DEF Settled, AllStopped
  <2> QED
    BY <1>1, <1>2, <1>3, <1>4, <2>1, <2>2 DEF Working
<1>7. Alone'
  BY <1>1 DEF IInv, Alone
<1> QED
  BY <1>4, <1>5, <1>6, <1>7 DEF IInv

\* load_all() after a crash finds a file for the loader, at whatever await the
\* process died.
LEMMA RestartStep == ASSUME Orderly, IInv, TInv', Restart \/ RestartFails PROVE IInv'
<1>1. /\ TypeOK /\ Crash /\ \A p \in Files : p \in Paths /\ disk[p] \in Contents
  BY DEF IInv, TInv, TypeOK, Restart, RestartFails, Files
<1>2. Restart
  BY <1>1 DEF Orderly, RestartFails
<1> DEFINE valid == {p \in Files : disk[p].kind # "nomodule"}
<1>3. loader # Null => valid # {}
  <2> SUFFICES ASSUME loader # Null PROVE valid # {}
    OBVIOUS
  <2>1. CASE Quiet
    BY <2>1 DEF IInv, AtRest, Settled
  <2>2. CASE ~Quiet
    <3>1. PICK t \in Tasks : frame[t].pc # "idle"
      BY <2>2 DEF Quiet
    <3>2. Working(frame[t])
      BY <3>1 DEF IInv, Requests
    <3>3. CASE frame[t].pc \in Update
      BY <3>2, <3>3 DEF Working
    <3>4. CASE frame[t].pc \notin Update
      BY <3>2, <3>4 DEF Working, Settled
    <3> QED
      BY <3>3, <3>4
  <2> QED
    BY <2>1, <2>2
<1>4. /\ Quiet' /\ uploads' = uploads /\ history'.wanted = history.wanted
      /\ \A i \in Instances : running'[i] = Null /\ late'[i] = Null
  BY <1>1 DEF Crash, Quiet, NoFrame, TypeOK, Histories
<1>5. AllStopped'
  BY <1>4 DEF AllStopped, Followed
<1>6. CASE valid = {}
  <2>1. loader' = Null /\ disk' = [p \in Paths |-> Null] /\ refs' = {}
        /\ dircache' = [p \in Paths |-> Null] /\ loader = Null
    BY <1>2, <1>3, <1>6 DEF Restart
  <2>2. Versioned' /\ LoaderStored' /\ Files' = {}
    BY <2>1 DEF Versioned, LoaderStored, Files
  <2>3. LoaderNeeded'
    BY <1>4, <2>1 DEF IInv, LoaderNeeded
  <2>4. AtRest'
    BY <1>5, <2>1, <2>2 DEF AtRest, AllStopped
  <2> QED
    BY <1>4, <2>2, <2>3, <2>4, NoRequest
<1>7. CASE valid # {}
  <2>1. PICK p \in valid :
           /\ loader' = NewLoader(p, disk[p], disk[p], 0)
           /\ disk' = [q \in Paths |-> IF q = p THEN disk[p] ELSE Null]
    BY <1>2, <1>7 DEF Restart
  <2>2. dircache' = [q \in Paths |-> IF q \in valid THEN disk[q] ELSE Null]
    BY <1>2 DEF Restart
  <2>3. /\ p \in Paths /\ disk[p] \in Contents /\ disk[p] # Null
        /\ disk[p].kind # "nomodule" /\ disk[p].version = p[1]
    BY <1>1, <2>1 DEF IInv, Versioned, Files
  <2>4. /\ loader'.path = p /\ loader'.version = p[1] /\ loader'.files = disk[p]
        /\ loader'.importer = p /\ loader'.loaded = Null
    BY <2>1, <2>3 DEF NewLoader
  <2>5. loader' # Null
    <3>1. loader' \in Loaders
      BY <2>1, <2>3, BoundsAssumption, NewLoaderTyped
    <3> QED
      BY <3>1, NullAssumption
  <2>6. Versioned'
    BY <1>4, <2>1, <2>2, <2>3, <2>4 DEF IInv, Versioned, Files
  <2>7. LoaderStored' /\ LoaderNeeded'
    BY <1>4, <2>1, <2>3, <2>4, <2>5 DEF LoaderStored, LoaderNeeded
  <2>8. AtRest'
    BY <1>5, <2>1, <2>3, <2>4, <2>5 DEF AtRest, AllStopped, Settled, Files
  <2> QED
    BY <1>4, <2>6, <2>7, <2>8, NoRequest
<1> QED
  BY <1>6, <1>7

LEMMA InitIInv == Init => IInv
<1> SUFFICES ASSUME Init PROVE IInv
  OBVIOUS
<1>1. TInv
  BY InitTInv
<1>2. /\ Quiet /\ Alone /\ Requests
  BY DEF Init, NoFrame, Quiet, Alone, Requests
<1>3. Versioned /\ LoaderStored /\ LoaderNeeded
  BY DEF Init, Versioned, LoaderStored, LoaderNeeded
<1>4. AtRest
  BY DEF Init, AtRest, Followed, Files
<1> QED
  BY <1>1, <1>2, <1>3, <1>4 DEF IInv

\* Every step keeps the invariant when requests do not overlap.
LEMMA StepIInv == ASSUME Orderly PROVE IInv /\ [Next]_vars => IInv'
<1> SUFFICES ASSUME IInv, [Next]_vars PROVE IInv'
  OBVIOUS
<1>1. TInv'
  BY StepTInv DEF IInv
<1>2. CASE UNCHANGED vars
  BY <1>1, <1>2
     DEF IInv, Alone, Versioned, LoaderStored, LoaderNeeded, Quiet, AtRest, Followed,
         Settled, Files, RunsStored, Requests, Working, AllStopped,
         vars, files, insts, ghosts
<1>3. ASSUME NEW t \in Tasks, Stopped(t) \/ Unstarted(t) \/ ReloadStopped(t)
      PROVE  IInv'
  BY <1>1, <1>3, StopDoneStep DEF Stopped, Unstarted, ReloadStopped
<1>4. ASSUME NEW t \in Tasks, NEW c \in Contents, Upload(t, c) PROVE IInv'
  BY <1>1, <1>4, UploadNewStep, UploadReplacementStep DEF Upload
<1> QED
  BY <1>1, <1>2, <1>3, <1>4, RequestStep, LoadNewStep, RollbackStep, ReloadsStep,
     StartedStep, StartRaisesStep, InstanceStep, LateStartStep, RestartStep
     DEF Next

-----------------------------------------------------------------------------
(* The theorems                                                            *)

\* For any number of instances, versions and uploads, with requests that do not
\* overlap and one build of each version: neither an update, nor a rollback at
\* any point, nor a crash of the process and load_all() leaves a file behind in
\* the plugin directory or loses the one the loader uses.
THEOREM SingleFile == ASSUME Orderly PROVE Spec => []OneFile
<1>1. IInv => OneFile
  BY DEF IInv, OneFile, AtRest, Settled
<1>2. IInv /\ [Next]_vars => IInv'
  BY StepIInv
<1> QED
  BY <1>1, <1>2, InitIInv, PTL DEF Spec

\* Under the same conditions: between requests a running instance runs the
\* class of the file in the plugin directory, unless a start of it outlived the
\* gather() of start_instances().
THEOREM Code == ASSUME Orderly PROVE Spec => []RunsWhatIsStored
<1>1. IInv => RunsWhatIsStored
  BY DEF IInv, RunsWhatIsStored, AtRest, Followed, RunsStored
<1>2. IInv /\ [Next]_vars => IInv'
  BY StepIInv
<1> QED
  BY <1>1, <1>2, InitIInv, PTL DEF Spec

\* Under the same conditions: an uploaded plugin has a loader until DELETE
\* /plugin, through failed updates and crashes in the middle of one.
THEOREM Survival == ASSUME Orderly PROVE Spec => []PluginSurvives
<1>1. IInv => PluginSurvives
  BY DEF IInv, PluginSurvives, LoaderNeeded
<1>2. IInv /\ [Next]_vars => IInv'
  BY StepIInv
<1> QED
  BY <1>1, <1>2, InitIInv, PTL DEF Spec
=============================================================================

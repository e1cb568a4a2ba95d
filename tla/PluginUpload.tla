---------------------------- MODULE PluginUpload ----------------------------
(***************************************************************************)
(* One plugin id: its .mbp files in the plugin directory, its              *)
(* ZippedPluginLoader (loader/zip.py), the directory cache of              *)
(* lib/zipimport.py, and the requests that upload, replace, reload and     *)
(* delete it (management/api/plugin_upload.py, plugin.py), with the crash  *)
(* of the process and load_all() at the next boot.                         *)
(*                                                                         *)
(* Frames, Hot labels and awaits are those of PluginInstance; an instance  *)
(* is reduced to the content it runs, and whether it is enabled to a       *)
(* choice.  loader is the one entry id_cache and path_cache may have for   *)
(* the id: both change together.                                           *)
(***************************************************************************)
EXTENDS Naturals, FiniteSets

CONSTANTS
    Tasks,      \* requests that may be in progress at the same time
    Instances,  \* plugin instances of this plugin
    Contents,   \* files: records with a version, a kind and a build
    MaxUploads, \* bound on uploads
    Overlap,    \* FALSE: a request begins only when no other one is running
    Null

ASSUME BoundsAssumption == MaxUploads \in Nat /\ Overlap \in BOOLEAN

\* Every file has a readable maubot.yaml (verify_meta).  Its main module or
\* class may be missing, its import may raise, or its main module may not
\* compile.
ASSUME ContentsAssumption ==
    \A c \in Contents : c.kind \in {"good", "nomodule", "broken", "unparsable"}

Versions == {c.version : c \in Contents}

\* A file name: the version, and the timestamp (0 for none) that tells apart
\* two uploads of one version.
Paths == Versions \X (0..MaxUploads)

VARIABLES
    up,         \* the process is running
    disk,       \* the content of each path, Null for no file
    loader,     \* the ZippedPluginLoader, Null if none
    dircache,   \* _zip_directory_cache: the content whose directory was read
    refs,       \* loader.references; instances outlive a restart
    running,    \* the content each instance runs, Null if stopped
    late,       \* starts that outlive their gather(): the content, or Null
    frame,      \* the requests in progress
    uploads,    \* uploads so far; also the clock of the timestamps
    history     \* what the properties remember

files  == <<disk, loader, dircache>>
insts  == <<refs, running, late>>
ghosts == <<uploads, history>>
vars   == <<up, files, insts, frame, ghosts>>

\* born tells apart the loader objects of one process.
Loaders == [path : Paths, version : Versions, loaded : Contents \cup {Null},
            importer : Paths, files : Contents, born : 0..MaxUploads]

ASSUME NullAssumption == Null \notin Contents \cup Loaders

Histories == [wanted : BOOLEAN,          \* installed and not deleted since
              strays : SUBSET Instances] \* had a start that outlived its gather()

Hot   == {"reload", "rollback", "rreload"}
Await == {"stop", "start", "unstart", "restart", "rstop", "rstart"}

NoFrame == [pc |-> "idle", new |-> Null, old |-> Null, cls |-> Null,
            set |-> {}, born |-> 0]

Frames == [pc : Hot \cup Await \cup {"idle"}, new : Paths \cup {Null},
           old : Paths \cup {Null}, cls : Contents \cup {Null},
           set : SUBSET Instances, born : 0..MaxUploads]

Quiet == \A t \in Tasks : frame[t].pc = "idle"

Files == {p \in Paths : disk[p] # Null}

-----------------------------------------------------------------------------
(* The event loop                                                          *)

NoneHot == \A t \in Tasks : frame[t].pc \notin Hot

Runs(t, l) ==
    /\ frame[t].pc = l
    /\ \A s \in Tasks \ {t} : frame[s].pc \notin Hot

Call(t) == up /\ Runs(t, "idle") /\ (Overlap \/ Quiet)

Elsewhere == up /\ NoneHot /\ (Overlap \/ Quiet)

Finish(t) == frame' = [frame EXCEPT ![t] = NoFrame]

\* The loader object this request found when it began is still the loader.
Held(t) == loader # Null /\ loader.born = frame[t].born

Live == {i \in refs : running[i] # Null}

\* stop_instances(), then the label hot.  Gathering nothing does not suspend.
StopThen(t, f, await, hot) ==
    frame' = [frame EXCEPT ![t] =
        IF Live = {} THEN [f EXCEPT !.pc = hot]
        ELSE [f EXCEPT !.pc = await, !.set = Live]]

StopDone(t, await, hot) ==
    /\ Runs(t, await)
    /\ running' = [i \in Instances |-> IF i \in frame[t].set THEN Null
                                       ELSE running[i]]
    /\ frame' = [frame EXCEPT ![t].pc = hot, ![t].set = {}]
    /\ UNCHANGED <<up, files, refs, late, ghosts>>

\* The sets of instances that may be enabled now: one whose start is still in
\* progress is.
Enabled == {E \in SUBSET refs : \A i \in refs : late[i] # Null => i \in E}

\* start_instances() begins: the enabled instances take the loader's class.
StartAt(t, l, E, cls) ==
    frame' = [frame EXCEPT ![t] = [@ EXCEPT !.pc = l, !.set = E, !.cls = cls]]

\* The gather() ends: S came up, and the starts in L go on without it.
\* gather() does not cancel them when another one raises.
StartDone(t, S, L) ==
    /\ S \cap L = {}
    /\ running' = [i \in Instances |-> IF i \in S THEN frame[t].cls
                                       ELSE running[i]]
    /\ late' = [i \in Instances |-> IF i \in L THEN frame[t].cls ELSE late[i]]
    /\ history' = [history EXCEPT !.strays = @ \cup L]
    /\ UNCHANGED <<up, refs, uploads>>

\* Some start() raised, so that not all of them came up or go on.
Raised(t, S, L) == S \cup L # frame[t].set

-----------------------------------------------------------------------------
(* ZippedPluginLoader                                                      *)

\* trash(): the file leaves the plugin directory.
Trash(d, p) == [d EXCEPT ![p] = Null]

\* _run_preload_checks() of content c with the directory of dir.  Reading
\* with the directory of another file works by luck, or raises ZipImportError
\* (refused), or an exception nobody expects (raises), as compiling does.
Checks(dir, c) ==
    (IF dir = c THEN {} ELSE {"refused", "raises"})
        \cup {IF c.kind = "nomodule" THEN "refused"
              ELSE IF c.kind = "unparsable" THEN "raises" ELSE "ok"}

\* zipimporter(): the directory of the archive, from the cache if it is there.
Directory(p, c) == IF dircache[p] # Null THEN dircache[p] ELSE c

NewLoader(p, c, dir, born) ==
    [path |-> p, version |-> c.version, loaded |-> Null, importer |-> p,
     files |-> dir, born |-> born]

\* _load() of loader object l: the possible outcomes.  The meta and the
\* importer stay as read when it fails; refusing drops the cached directory.
Load(l, reset) ==
    LET c   == disk[l.path]
        dir == IF reset THEN c
               ELSE IF l.importer = l.path THEN l.files ELSE Directory(l.path, c)
        read == [l EXCEPT !.version = c.version, !.importer = l.path,
                          !.files = dir]
        keep == IF reset \/ l.importer # l.path
                THEN [dircache EXCEPT ![l.path] = dir] ELSE dircache
        drop == [dircache EXCEPT ![l.path] = Null]
    IN  IF c = Null THEN {[how |-> "refused", loader |-> l, dirs |-> dircache]}
        ELSE {IF o = "ok" /\ c.kind = "good"
              THEN [how |-> "ok", loader |-> [read EXCEPT !.loaded = c],
                    dirs |-> keep]
              ELSE IF o = "raises"
              THEN [how |-> o, loader |-> read, dirs |-> keep]
              ELSE [how |-> "refused", loader |-> read, dirs |-> drop]
              : o \in Checks(dir, c)}

\* Mutant: a reload that looks at the file the loader already has.
ReloadInPlace(p) == Load([loader EXCEPT !.loaded = Null], TRUE)

\* reload(new_path=p) = _unload(), the new path, and _load() with a fresh
\* directory.  The path stays changed when loading fails.
Reload(p) == Load([loader EXCEPT !.path = p, !.loaded = Null], TRUE)

-----------------------------------------------------------------------------
(* Uploads                                                                 *)

\* upload_new_plugin(): write the file and preload it, or trash it.  An
\* exception that is not a MaubotZipImportError leaves the file in place.
UploadNew(t, c) ==
    LET p   == <<c.version, 0>>
        dir == Directory(p, c)
    IN
    /\ Call(t)
    /\ loader = Null
    /\ uploads < MaxUploads
    /\ uploads' = uploads + 1
    /\ \E o \in Checks(dir, c) :
        /\ disk' = IF o = "refused" THEN Trash(disk, p)
                   ELSE [disk EXCEPT ![p] = c]
        /\ dircache' = [dircache EXCEPT ![p] = IF o = "refused" THEN Null
                                               ELSE dir]
        /\ loader' = IF o = "ok" THEN NewLoader(p, c, dir, uploads') ELSE Null
        /\ history' = [history EXCEPT !.wanted = o = "ok"]
    /\ UNCHANGED <<up, insts, frame>>

\* The name of a replacement: the version in the old name is replaced, and a
\* timestamp is added when the version is the same.  (A name that does not
\* show the version of the meta gets a suffix; it is a new name too.)
ReplacementPath(c) ==
    IF loader.path[1] = loader.version /\ c.version # loader.version
    THEN <<c.version, 0>> ELSE <<c.version, uploads + 1>>

\* Mutant: the new file takes the place of the old one at once.
UploadReplacementOver(t, c) ==
    LET p == ReplacementPath(c) IN
    /\ Call(t)
    /\ loader # Null
    /\ uploads < MaxUploads
    /\ uploads' = uploads + 1
    /\ disk' = [Trash(disk, loader.path) EXCEPT ![p] = c]
    /\ StopThen(t, [NoFrame EXCEPT !.new = p, !.old = loader.path,
                                   !.born = loader.born], "stop", "reload")
    /\ UNCHANGED <<up, loader, dircache, insts, history>>

\* upload_replacement_plugin() writes the new file and stops the instances.
UploadReplacement(t, c) ==
    LET p == ReplacementPath(c) IN
    /\ Call(t)
    /\ loader # Null
    /\ uploads < MaxUploads
    /\ uploads' = uploads + 1
    /\ disk' = [disk EXCEPT ![p] = c]
    /\ StopThen(t, [NoFrame EXCEPT !.new = p, !.old = loader.path,
                                   !.born = loader.born], "stop", "reload")
    /\ UNCHANGED <<up, loader, dircache, insts, history>>

\* put_plugin() and upload_plugin() with a readable file: a plugin nobody has
\* yet is new; one that exists is replaced, or left alone without
\* allow_override, which changes nothing.
Upload(t, c) == UploadNew(t, c) \/ UploadReplacement(t, c)

Stopped(t) == StopDone(t, "stop", "reload")

\* The new version is loaded, then the instances in E are started; or the
\* upload is rolled back.  An unexpected exception ends the request here.
LoadNew(t, E) ==
    /\ Runs(t, "reload")
    /\ Held(t)
    /\ \E r \in Reload(frame[t].new) :
        /\ loader' = r.loader
        /\ dircache' = r.dirs
        /\ \/ /\ r.how = "ok" /\ E # {}
              /\ StartAt(t, "start", E, r.loader.loaded)
              /\ UNCHANGED disk
           \/ /\ r.how = "ok" /\ E = {}
              /\ disk' = Trash(disk, frame[t].old)
              /\ Finish(t)
           \/ /\ r.how = "refused"
              /\ frame' = [frame EXCEPT ![t].pc = "rollback"]
              /\ UNCHANGED disk
           \/ r.how = "raises" /\ Finish(t) /\ UNCHANGED disk
    /\ UNCHANGED <<up, insts, ghosts>>

\* Mutant: the old version is not trashed after a successful update.
StartedKeepingOld(t, S) ==
    /\ Runs(t, "start")
    /\ StartDone(t, S, {})
    /\ Finish(t)
    /\ UNCHANGED files

\* start_instances() returns: the old version goes to the trash.  The log
\* line before that raises if the loader was deleted meanwhile.
Started(t, S) ==
    /\ Runs(t, "start")
    /\ StartDone(t, S, {})
    /\ disk' = IF Held(t) THEN Trash(disk, frame[t].old) ELSE disk
    /\ Finish(t)
    /\ UNCHANGED <<loader, dircache>>

\* A start() raises: stop_instances(), then the rollback, unless the loader
\* was deleted.
StartRaises(t, S, L) ==
    /\ Runs(t, "start")
    /\ Raised(t, S, L)
    /\ StartDone(t, S, L)
    /\ LET on == {i \in refs : running'[i] # Null}
           f  == [frame[t] EXCEPT !.cls = Null, !.set = on]
       IN frame' = [frame EXCEPT ![t] =
              IF ~Held(t) THEN NoFrame
              ELSE [f EXCEPT !.pc = IF on = {} THEN "rollback" ELSE "unstart"]]
    /\ UNCHANGED files

Unstarted(t) == StopDone(t, "unstart", "rollback")

\* reload(old_path), then start_instances(), or give up.  Either way the new
\* file ends in the trash.
Rollback(t, E) ==
    /\ Runs(t, "rollback")
    /\ Held(t)
    /\ \E r \in Reload(frame[t].old) :
        /\ loader' = r.loader
        /\ dircache' = r.dirs
        /\ IF r.how = "ok" /\ E # {}
           THEN StartAt(t, "restart", E, r.loader.loaded) /\ UNCHANGED disk
           ELSE disk' = Trash(disk, frame[t].new) /\ Finish(t)
    /\ UNCHANGED <<up, insts, ghosts>>

RolledBack(t, S, L) ==
    /\ Runs(t, "restart")
    /\ L # {} => Raised(t, S, L)
    /\ StartDone(t, S, L)
    /\ disk' = Trash(disk, frame[t].new)
    /\ Finish(t)
    /\ UNCHANGED <<loader, dircache>>

\* The loader was deleted meanwhile: its path is None, and reload() raises.
\* Only the rollback has a finally clause, which trashes the new file.
LoaderGone(t) ==
    /\ Runs(t, "reload") \/ Runs(t, "rollback") \/ Runs(t, "rreload")
    /\ ~Held(t)
    /\ disk' = IF frame[t].pc = "rollback" THEN Trash(disk, frame[t].new)
               ELSE disk
    /\ Finish(t)
    /\ UNCHANGED <<up, loader, dircache, insts, ghosts>>

-----------------------------------------------------------------------------
(* Reload and delete                                                       *)

ReloadPlugin(t) ==
    /\ Call(t)
    /\ loader # Null
    /\ StopThen(t, [NoFrame EXCEPT !.born = loader.born], "rstop", "rreload")
    /\ UNCHANGED <<up, files, insts, ghosts>>

ReloadStopped(t) == StopDone(t, "rstop", "rreload")

\* reload() in place.  If it raises, the instances stay stopped.
Reloads(t, E) ==
    /\ Runs(t, "rreload")
    /\ Held(t)
    /\ \E r \in Reload(loader.path) :
        /\ loader' = r.loader
        /\ dircache' = r.dirs
        /\ IF r.how = "ok" /\ E # {}
           THEN StartAt(t, "rstart", E, r.loader.loaded) ELSE Finish(t)
    /\ UNCHANGED <<up, disk, insts, ghosts>>

ReloadStarted(t, S, L) ==
    /\ Runs(t, "rstart")
    /\ L # {} => Raised(t, S, L)
    /\ StartDone(t, S, L)
    /\ Finish(t)
    /\ UNCHANGED files

\* Mutant: delete() leaves the loader, with its path cleared, in id_cache.
DeletePluginCached(t) ==
    /\ Call(t)
    /\ loader # Null /\ refs = {}
    /\ loader' = [loader EXCEPT !.path = Null]
    /\ disk' = Trash(disk, loader.path)
    /\ history' = [history EXCEPT !.wanted = FALSE]
    /\ UNCHANGED <<up, dircache, insts, frame, uploads>>

\* DELETE /plugin/{id}: refused while there are references.  The directory
\* cache is dropped for the importer in use only.
DeletePlugin(t) ==
    /\ Call(t)
    /\ loader # Null
    /\ refs = {}
    /\ loader' = Null
    /\ dircache' = [dircache EXCEPT ![loader.importer] = Null]
    /\ disk' = Trash(disk, loader.path)
    /\ history' = [history EXCEPT !.wanted = FALSE]
    /\ UNCHANGED <<up, insts, frame, uploads>>

-----------------------------------------------------------------------------
(* Instances and the process                                               *)

CreateInstance(i) ==
    /\ Elsewhere
    /\ loader # Null /\ i \notin refs
    /\ refs' = refs \cup {i}
    /\ UNCHANGED <<up, files, running, late, frame, ghosts>>

DeleteInstance(i) ==
    /\ Elsewhere
    /\ i \in refs
    /\ refs' = refs \ {i}
    /\ running' = [running EXCEPT ![i] = Null]
    /\ UNCHANGED <<up, files, late, frame, ghosts>>

\* start() of an instance on its own: load() imports the file if needed.
StartInstance(i) ==
    /\ Elsewhere
    /\ loader # Null /\ i \in refs /\ running[i] = Null
    /\ \E r \in IF loader.loaded = Null THEN Load(loader, FALSE)
                ELSE {[how |-> "ok", loader |-> loader, dirs |-> dircache]} :
        /\ loader' = r.loader
        /\ dircache' = r.dirs
        /\ running' = IF r.how = "ok"
                      THEN [running EXCEPT ![i] = r.loader.loaded] ELSE running
    /\ UNCHANGED <<up, disk, refs, late, frame, ghosts>>

\* A start that its gather() left behind ends: the instance now runs the
\* class that start took, or the start fails or a later one has won.
LateStart(i, ok) ==
    /\ up /\ NoneHot
    /\ late[i] # Null
    /\ late' = [late EXCEPT ![i] = Null]
    /\ running' = IF ok THEN [running EXCEPT ![i] = late[i]] ELSE running
    /\ UNCHANGED <<up, files, refs, frame, ghosts>>

\* The process dies at some await and boots again.
Crash ==
    /\ up /\ NoneHot
    /\ running' = [i \in Instances |-> Null]
    /\ late' = [i \in Instances |-> Null]
    /\ frame' = [t \in Tasks |-> NoFrame]
    /\ history' = [history EXCEPT !.strays = {}]
    /\ UNCHANGED uploads

\* load_all() takes the files in the order of os.listdir: the first that
\* passes the checks becomes the loader, and the others are trashed (the
\* directories of the valid ones stay cached).
Restart ==
    LET valid == {p \in Files : disk[p].kind # "nomodule"} IN
    /\ Crash
    /\ \A p \in Files : disk[p].kind # "unparsable"
    /\ dircache' = [p \in Paths |-> IF p \in valid THEN disk[p] ELSE Null]
    /\ \/ /\ valid = {}
          /\ loader' = Null
          /\ disk' = [p \in Paths |-> Null]
          /\ refs' = {}
       \/ /\ \E p \in valid :
                /\ loader' = NewLoader(p, disk[p], disk[p], 0)
                /\ disk' = [q \in Paths |-> IF q = p THEN disk[p] ELSE Null]
          /\ UNCHANGED refs
    /\ UNCHANGED up

\* A file whose main module does not compile makes load_all() raise, and the
\* process exits.  (Files listed before it may have been trashed.)
RestartFails ==
    /\ Crash
    /\ \E p \in Files : disk[p].kind = "unparsable"
    /\ up' = FALSE
    /\ loader' = Null
    /\ dircache' = [p \in Paths |-> Null]
    /\ UNCHANGED <<disk, refs>>

-----------------------------------------------------------------------------
Init ==
    /\ up = TRUE
    /\ disk = [p \in Paths |-> Null]
    /\ loader = Null
    /\ dircache = [p \in Paths |-> Null]
    /\ refs = {}
    /\ running = [i \in Instances |-> Null]
    /\ late = [i \in Instances |-> Null]
    /\ frame = [t \in Tasks |-> NoFrame]
    /\ uploads = 0
    /\ history = [wanted |-> FALSE, strays |-> {}]

Next ==
    \/ \E t \in Tasks, c \in Contents : Upload(t, c)
    \/ \E t \in Tasks :
          \/ Stopped(t) \/ Unstarted(t) \/ LoaderGone(t)
          \/ ReloadPlugin(t) \/ ReloadStopped(t) \/ DeletePlugin(t)
    \/ \E t \in Tasks, E \in Enabled :
          LoadNew(t, E) \/ Rollback(t, E) \/ Reloads(t, E)
    \/ \E t \in Tasks : \E S, L \in SUBSET frame[t].set :
          \/ L = {} /\ Started(t, S)
          \/ StartRaises(t, S, L) \/ RolledBack(t, S, L) \/ ReloadStarted(t, S, L)
    \/ \E i \in Instances :
          \/ CreateInstance(i) \/ DeleteInstance(i) \/ StartInstance(i)
          \/ \E ok \in BOOLEAN : LateStart(i, ok)
    \/ Restart
    \/ RestartFails

Spec == Init /\ [][Next]_vars

-----------------------------------------------------------------------------
(* Properties                                                              *)

\* The loader, the files and the requests have the types the code gives them.
\* A loader in id_cache has a path: delete() takes it out when it clears it.
TypeOK ==
    /\ up \in BOOLEAN
    /\ disk \in [Paths -> Contents \cup {Null}]
    /\ loader \in Loaders \cup {Null}
    /\ dircache \in [Paths -> Contents \cup {Null}]
    /\ refs \in SUBSET Instances
    /\ running \in [Instances -> Contents \cup {Null}]
    /\ late \in [Instances -> Contents \cup {Null}]
    /\ frame \in [Tasks -> Frames]
    /\ uploads \in 0..MaxUploads
    /\ history \in Histories

\* Between requests the plugin directory holds the file of the loader and no
\* other one: neither an update, nor a rollback at any point, nor a crash
\* leaves a version behind or loses the one in use.
OneFile ==
    Quiet => Files = IF loader = Null THEN {} ELSE {loader.path}

\* Instance i runs nothing, or the file of the loader.
RunsStored(i) ==
    running[i] # Null => loader # Null /\ running[i] = disk[loader.path]

\* Between requests an instance runs the code that is on disk, so that a
\* restart of the process brings back the same version, unless one of its
\* starts was left behind by a gather() in which another one raised.
RunsWhatIsStored ==
    Quiet => \A i \in Instances \ history.strays : RunsStored(i)

\* A plugin that was uploaded disappears only by a deletion: not by a failed
\* update, and not by a crash in the middle of one.
PluginSurvives == Quiet /\ history.wanted => loader # Null
=============================================================================

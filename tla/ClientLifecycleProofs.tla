----------------------- MODULE ClientLifecycleProofs -----------------------
(***************************************************************************)
(* Proofs about ClientLifecycle for every set of tasks, servers and tokens *)
(* and every bound: typing, the identity of a started client and the       *)
(* uniqueness of its sync loop, under arbitrary overlap of calls; and that *)
(* a started client syncs when asked to, when calls do not overlap.        *)
(***************************************************************************)
EXTENDS ClientLifecycle, TLAPS

\* Labels of start() after whoami() was answered.
Confirmed == {"filter", "profile", "crypto", "startsync", "remote"}

\* What a frame holds at each label, when g is the client in use and v the
\* confirmed ones.  A whoami() that is still unanswered may be about a client
\* that has been replaced since.
FrameOK(f, g, v) ==
    /\ f.pc = "save" => f.snap \in Columns
    /\ f.next # "idle" => f.pc = "save"
    /\ f.pc = "uaccess" => f.arg \in Details
    /\ f.pc = "whoami" => f.obj \in 1..g
    /\ f.pc \in Confirmed \/ f.next = "profile" => g \in v

FramesOK ==
    /\ frame \in [Tasks -> Frames]
    /\ \A t \in Tasks : FrameOK(frame[t], gen, verified)

\* The part of TypeOK that is not about the frames.
StateOK ==
    /\ col \in Columns
    /\ row \in Columns \cup {Null}
    /\ deleted \in BOOLEAN /\ started \in BOOLEAN /\ stalled \in BOOLEAN
    /\ gen \in Clients
    /\ syncing \in SUBSET Clients /\ verified \in SUBSET Clients
    /\ calls \in 0..MaxCalls

\* Every client object but the first was confirmed before it was put to use.
SwappedVerified == gen # 1 => gen \in verified

\* The inductive invariant, without and with the frames.
DataInv == StateOK /\ SwappedVerified /\ StartedVerified /\ OneSyncLoop
IInv == DataInv /\ FramesOK

\* A step may replace the client, and only confirms more.
Grows ==
    /\ gen' \in Nat /\ gen <= gen'
    /\ gen \in verified => gen' \in verified'

\* The invariant contains the properties that TLC checks.
LEMMA IInvImplies == IInv => TypeOK /\ StartedVerified /\ OneSyncLoop
BY DEF IInv, DataInv, StateOK, FramesOK, TypeOK

\* The frame of an idle task.
LEMMA NoFrameTyped ==
    NoFrame \in Frames /\ \A g, v : FrameOK(NoFrame, g, v)
BY BoundsAssumption DEF NoFrame, Frames, FrameOK, Confirmed

\* postinit() establishes the invariant.
LEMMA InitIInv == Init => IInv
<1> SUFFICES ASSUME Init PROVE IInv
  OBVIOUS
<1>1. 0 \in 0..MaxCalls /\ 1 \in Clients
  BY BoundsAssumption DEF Clients
<1>2. FramesOK
  BY NoFrameTyped DEF Init, FramesOK
<1>3. StateOK
  BY <1>1 DEF Init, StateOK
<1> QED
  BY <1>2, <1>3
     DEF Init, IInv, DataInv, SwappedVerified, StartedVerified, OneSyncLoop

-----------------------------------------------------------------------------
(* Each way a step moves a coroutine keeps the frames in order             *)

\* Replacing one frame by a good one keeps all frames good.
LEMMA Replaced ==
    ASSUME FramesOK, Grows, gen \in Nat, NEW t \in Tasks, NEW f \in Frames,
           FrameOK(f, gen', verified'), frame' = [frame EXCEPT ![t] = f]
    PROVE  FramesOK'
<1>1. /\ frame' \in [Tasks -> Frames]
      /\ \A s \in Tasks : frame'[s] = IF s = t THEN f ELSE frame[s]
  BY DEF FramesOK
<1>2. ASSUME NEW s \in Tasks PROVE FrameOK(frame[s], gen', verified')
  <2>1. FrameOK(frame[s], gen, verified) /\ frame[s] \in Frames
    BY DEF FramesOK
  <2> QED
    BY <2>1 DEF FrameOK, Grows, Confirmed, Frames
<1>3. \A s \in Tasks : FrameOK(frame'[s], gen', verified')
  BY <1>1, <1>2, Zenon
<1> QED
  BY <1>1, <1>3 DEF FramesOK

\* The coroutine ends.
LEMMA Finished ==
    ASSUME FramesOK, Grows, gen \in Nat, NEW t \in Tasks, Finish(t)
    PROVE  FramesOK'
BY NoFrameTyped, Replaced DEF Finish

\* A coroutine begins, or a request goes on to its next part.
LEMMA Begun ==
    ASSUME FramesOK, Grows, gen \in Nat, NEW t \in Tasks,
           NEW l \in (Hot \cup {"uprofile"}) \ {"startsync"},
           NEW r \in {"idle", "uflags", "drop"},
           Begin(t, l, r)
    PROVE  FramesOK'
<1> DEFINE f == [NoFrame EXCEPT !.pc = l, !.ret = r]
<1>1. f \in Frames /\ f.pc = l /\ f.next = "idle"
  BY NoFrameTyped DEF Frames, NoFrame, Await
<1>2. FrameOK(f, gen', verified')
  BY <1>1 DEF FrameOK, Confirmed, Hot
<1> QED
  BY <1>1, <1>2, Replaced DEF Begin

\* The frame of a coroutine that returned is good in every state.
LEMMA ReturnGood ==
    ASSUME FramesOK, NEW t \in Tasks
    PROVE  /\ Returned(frame[t]) \in Frames
           /\ \A g, v : FrameOK(Returned(frame[t]), g, v)
<1>1. frame[t] \in Frames
  BY DEF FramesOK
<1>2. CASE frame[t].ret = "idle"
  BY <1>2, NoFrameTyped DEF Returned
<1>3. CASE frame[t].ret # "idle"
  <2> DEFINE f == [NoFrame EXCEPT !.pc = frame[t].ret]
  <2>1. frame[t].ret \in {"uflags", "drop"}
    BY <1>1, <1>3 DEF Frames
  <2>2. f \in Frames /\ f.pc = frame[t].ret /\ f.next = "idle"
    BY <2>1, NoFrameTyped DEF Frames, NoFrame, Hot
  <2>3. \A g, v : FrameOK(f, g, v)
    BY <2>1, <2>2 DEF FrameOK, Confirmed
  <2> QED
    BY <1>3, <2>2, <2>3 DEF Returned
<1> QED
  BY <1>2, <1>3

\* A coroutine returns to its caller.
LEMMA ReturnedOK ==
    ASSUME FramesOK, Grows, gen \in Nat, NEW t \in Tasks, Return(t)
    PROVE  FramesOK'
BY ReturnGood, Replaced DEF Return

\* A coroutine moves to the label l.
LEMMA Moved ==
    ASSUME FramesOK, Grows, gen \in Nat, NEW t \in Tasks,
           NEW l \in (Hot \cup Await) \ {"save", "uaccess", "whoami"},
           l \in Confirmed => gen' \in verified',
           frame[t].pc # "save",
           Goto(t, l)
    PROVE  FramesOK'
<1> DEFINE f == [frame[t] EXCEPT !.pc = l]
<1>1. frame[t] \in Frames /\ FrameOK(frame[t], gen, verified)
  BY DEF FramesOK
<1>2. f \in Frames /\ f.pc = l /\ f.next = frame[t].next
  BY <1>1 DEF Frames
<1>3. f.next = "idle"
  BY <1>1, <1>2 DEF FrameOK
<1>4. FrameOK(f, gen', verified')
  BY <1>2, <1>3 DEF FrameOK
<1>5. frame' = [frame EXCEPT ![t] = f]
  BY DEF Goto
<1> QED
  BY <1>2, <1>4, <1>5, Replaced

\* A coroutine starts to save columns c.
LEMMA Saving ==
    ASSUME FramesOK, Grows, gen \in Nat, NEW t \in Tasks, NEW c \in Columns,
           NEW l \in {"idle", "profile", "resync"},
           l = "profile" => gen' \in verified',
           Save(t, c, l)
    PROVE  FramesOK'
<1> DEFINE f == [frame[t] EXCEPT !.pc = "save", !.next = l, !.snap = c]
<1>1. frame[t] \in Frames
  BY DEF FramesOK
<1>2. f \in Frames /\ f.pc = "save" /\ f.next = l /\ f.snap = c
  BY <1>1 DEF Frames, Await
<1>3. FrameOK(f, gen', verified')
  BY <1>2 DEF FrameOK, Confirmed
<1>4. frame' = [frame EXCEPT ![t] = f]
  BY DEF Save
<1> QED
  BY <1>2, <1>3, <1>4, Replaced

-----------------------------------------------------------------------------
(* Every step keeps the invariant                                          *)

\* A step that moves only a frame.
LEMMA OnlyFrames ==
    ASSUME DataInv, gen \in Nat, UNCHANGED data
    PROVE  DataInv' /\ Grows
BY DEF DataInv, StateOK, SwappedVerified, StartedVerified, OneSyncLoop, Grows,
       data

\* A call counts, within the bound.
LEMMA Counted ==
    ASSUME DataInv, NEW t \in Tasks, Call(t)
    PROVE  calls' \in 0..MaxCalls
BY BoundsAssumption DEF DataInv, StateOK, Call

\* One step per action: the data first, then the frame that moved.
LEMMA StepIInv == IInv /\ [Next]_vars => IInv'
<1> SUFFICES ASSUME IInv, [Next]_vars PROVE FramesOK' /\ DataInv'
  BY DEF IInv
<1>0. /\ DataInv /\ FramesOK /\ gen \in Nat /\ col \in Columns
      /\ \A t \in Tasks :
            frame[t] \in Frames /\ FrameOK(frame[t], gen, verified)
  BY BoundsAssumption DEF IInv, DataInv, StateOK, FramesOK, Clients
<1>1. ASSUME NEW t \in Tasks, CallStart(t)
      PROVE  FramesOK' /\ DataInv'
  <2>1. calls' \in 0..MaxCalls
    BY <1>0, <1>1, Counted DEF CallStart
  <2>2. DataInv' /\ Grows
    BY <1>0, <1>1, <2>1 DEF CallStart, DataInv, StateOK, SwappedVerified,
       StartedVerified,
       OneSyncLoop, Grows
  <2> QED
    BY <1>0, <1>1, <2>2, Begun DEF CallStart, Hot
<1>2. ASSUME NEW t \in Tasks, CallStop(t)
      PROVE  FramesOK' /\ DataInv'
  <2>1. calls' \in 0..MaxCalls
    BY <1>0, <1>2, Counted DEF CallStop
  <2>2. DataInv' /\ Grows
    BY <1>0, <1>2, <2>1 DEF CallStop, DataInv, StateOK, SwappedVerified,
       StartedVerified,
       OneSyncLoop, Grows
  <2> QED
    BY <1>0, <1>2, <2>2, Begun DEF CallStop, Hot
<1>3. ASSUME NEW t \in Tasks, DeleteClient(t)
      PROVE  FramesOK' /\ DataInv'
  <2>1. calls' \in 0..MaxCalls
    BY <1>0, <1>3, Counted DEF DeleteClient
  <2>2. DataInv' /\ Grows
    BY <1>0, <1>3, <2>1 DEF DeleteClient, DataInv, StateOK, SwappedVerified,
       StartedVerified,
       OneSyncLoop, Grows
  <2> QED
    BY <1>0, <1>3, <2>2, Begun DEF DeleteClient, Hot
<1>4. ASSUME NEW t \in Tasks, Wake(t)
      PROVE  FramesOK' /\ DataInv'
  <2>1. DataInv' /\ Grows
    BY <1>0, <1>4, OnlyFrames DEF Wake
  <2> QED
    BY <1>0, <1>4, <2>1, Moved DEF Wake, Runs, Hot, Await, Confirmed
<1>5. ASSUME NEW t \in Tasks, Start(t)
      PROVE  FramesOK' /\ DataInv'
  <2>1. DataInv' /\ Grows
    BY <1>0, <1>5, OnlyFrames DEF Start
  <2> QED
    BY <1>0, <1>5, <2>1, Moved DEF Start, Runs, Hot, Await, Confirmed
<1>6. ASSUME NEW t \in Tasks, ProfileUpdated(t)
      PROVE  FramesOK' /\ DataInv'
  <2>1. DataInv' /\ Grows
    BY <1>0, <1>6, OnlyFrames DEF ProfileUpdated
  <2> QED
    BY <1>0, <1>6, <2>1, Moved DEF ProfileUpdated, Runs, Hot, Await, Confirmed
<1>7. ASSUME NEW t \in Tasks, StartIgnored(t)
      PROVE  FramesOK' /\ DataInv'
  <2>1. DataInv' /\ Grows
    BY <1>0, <1>7, OnlyFrames DEF StartIgnored
  <2> QED
    BY <1>0, <1>7, <2>1, ReturnedOK DEF StartIgnored
<1>8. ASSUME NEW t \in Tasks, StartRaises(t)
      PROVE  FramesOK' /\ DataInv'
  <2>1. DataInv' /\ Grows
    BY <1>0, <1>8, OnlyFrames DEF StartRaises
  <2> QED
    BY <1>0, <1>8, <2>1, ReturnedOK DEF StartRaises
<1>9. ASSUME NEW t \in Tasks, PluginsStarted(t)
      PROVE  FramesOK' /\ DataInv'
  <2>1. DataInv' /\ Grows
    BY <1>0, <1>9, OnlyFrames DEF PluginsStarted
  <2> QED
    BY <1>0, <1>9, <2>1, ReturnedOK DEF PluginsStarted
<1>10. ASSUME NEW t \in Tasks, CryptoClosed(t)
      PROVE  FramesOK' /\ DataInv'
  <2>1. DataInv' /\ Grows
    BY <1>0, <1>10, OnlyFrames DEF CryptoClosed
  <2> QED
    BY <1>0, <1>10, <2>1, ReturnedOK DEF CryptoClosed
<1>11. ASSUME NEW t \in Tasks, AccessRefused(t)
      PROVE  FramesOK' /\ DataInv'
  <2>1. DataInv' /\ Grows
    BY <1>0, <1>11, OnlyFrames DEF AccessRefused
  <2> QED
    BY <1>0, <1>11, <2>1, Finished DEF AccessRefused
<1>12. ASSUME NEW t \in Tasks, ProfileRaises(t)
      PROVE  FramesOK' /\ DataInv'
  <2>1. DataInv' /\ Grows
    BY <1>0, <1>12, OnlyFrames DEF ProfileRaises
  <2> QED
    BY <1>0, <1>12, <2>1, Finished DEF ProfileRaises
<1>13. ASSUME NEW t \in Tasks, Resync(t)
      PROVE  FramesOK' /\ DataInv'
  <2>1. DataInv' /\ Grows
    BY <1>0, <1>13 DEF Resync, StartSync, DataInv, StateOK, SwappedVerified,
       StartedVerified,
       OneSyncLoop, Grows
  <2> QED
    BY <1>0, <1>13, <2>1, Finished DEF Resync
<1>14. ASSUME NEW t \in Tasks, AccessCrypto(t)
      PROVE  FramesOK' /\ DataInv'
  <2>1. DataInv' /\ Grows
    BY <1>0, <1>14 DEF AccessCrypto, StartSync, DataInv, StateOK,
       SwappedVerified, StartedVerified,
       OneSyncLoop, Grows
  <2> QED
    BY <1>0, <1>14, <2>1, Moved DEF AccessCrypto, Runs, Hot, Await, Confirmed
<1>15. ASSUME NEW t \in Tasks, AccessCryptoRaises(t)
      PROVE  FramesOK' /\ DataInv'
  <2>1. DataInv' /\ Grows
    BY <1>0, <1>15 DEF AccessCryptoRaises, DataInv, StateOK, SwappedVerified,
       StartedVerified,
       OneSyncLoop, Grows
  <2> QED
    BY <1>0, <1>15, <2>1, Finished DEF AccessCryptoRaises
<1>16. ASSUME NEW t \in Tasks, RowDeleted(t)
      PROVE  FramesOK' /\ DataInv'
  <2>1. DataInv' /\ Grows
    BY <1>0, <1>16 DEF RowDeleted, DataInv, StateOK, SwappedVerified,
       StartedVerified,
       OneSyncLoop, Grows
  <2> QED
    BY <1>0, <1>16, <2>1, Finished DEF RowDeleted
<1>17. ASSUME NEW t \in Tasks, Drop(t)
      PROVE  FramesOK' /\ DataInv'
  <2>1. DataInv' /\ Grows
    BY <1>0, <1>17 DEF Drop, DataInv, StateOK, SwappedVerified,
       StartedVerified,
       OneSyncLoop, Grows
  <2> QED
    BY <1>0, <1>17, <2>1, Moved DEF Drop, Runs, Hot, Await, Confirmed
<1>18. ASSUME NEW t \in Tasks, PluginsStopped(t)
      PROVE  FramesOK' /\ DataInv'
  <2>1. DataInv' /\ Grows
    BY <1>0, <1>18 DEF PluginsStopped, StopSync, DataInv, StateOK,
       SwappedVerified, StartedVerified,
       OneSyncLoop, Grows
  <2> QED
    BY <1>0, <1>18, <2>1, Moved, ReturnedOK DEF PluginsStopped, Runs, Hot,
       Await, Confirmed
<1>19. ASSUME NEW t \in Tasks, SaveRefused(t)
      PROVE  FramesOK' /\ DataInv'
  <2>1. DataInv' /\ Grows
    BY <1>0, <1>19 DEF SaveRefused, DataInv, StateOK, SwappedVerified,
       StartedVerified,
       OneSyncLoop, Grows
  <2> QED
    BY <1>0, <1>19, <2>1, Finished, ReturnedOK DEF SaveRefused
<1>20. ASSUME NEW t \in Tasks, ProfileSet(t)
      PROVE  FramesOK' /\ DataInv'
  <2>1. DataInv' /\ Grows
    BY <1>0, <1>20, OnlyFrames DEF ProfileSet
  <2>2. gen \in verified /\ frame[t].pc # "save"
    BY <1>0, <1>20 DEF ProfileSet, Runs, FrameOK, Confirmed
  <2>3. gen' \in verified'
    BY <2>1, <2>2 DEF Grows
  <2> QED
    BY <1>0, <1>20, <2>1, <2>2, <2>3, Moved DEF ProfileSet, Hot, Await
<1>21. ASSUME NEW t \in Tasks, CryptoStarted(t)
      PROVE  FramesOK' /\ DataInv'
  <2>1. DataInv' /\ Grows
    BY <1>0, <1>21, OnlyFrames DEF CryptoStarted
  <2>2. gen \in verified /\ frame[t].pc # "save"
    BY <1>0, <1>21 DEF CryptoStarted, Runs, FrameOK, Confirmed
  <2>3. gen' \in verified'
    BY <2>1, <2>2 DEF Grows
  <2> QED
    BY <1>0, <1>21, <2>1, <2>2, <2>3, Moved DEF CryptoStarted, Hot
<1>22. ASSUME NEW t \in Tasks, StartsSync(t)
      PROVE  FramesOK' /\ DataInv'
  <2>1. gen \in verified /\ frame[t].pc # "save"
    BY <1>0, <1>22 DEF StartsSync, Runs, FrameOK, Confirmed
  <2>2. DataInv' /\ Grows
    BY <1>0, <1>22, <2>1 DEF StartsSync, StartSync, DataInv, StateOK,
       SwappedVerified, StartedVerified,
       OneSyncLoop, Grows
  <2>3. gen' \in verified'
    BY <2>1, <2>2 DEF Grows
  <2> QED
    BY <1>0, <1>22, <2>1, <2>2, <2>3, Moved DEF StartsSync, Await
<1>23. ASSUME NEW t \in Tasks, Started(t)
      PROVE  FramesOK' /\ DataInv'
  <2>1. gen \in verified /\ frame[t].pc # "save"
    BY <1>0, <1>23 DEF Started, Runs, FrameOK, Confirmed
  <2>2. DataInv' /\ Grows
    BY <1>0, <1>23, <2>1 DEF Started, DataInv, StateOK, SwappedVerified,
       StartedVerified,
       OneSyncLoop, Grows
  <2> QED
    BY <1>0, <1>23, <2>1, <2>2, Moved DEF Started, Await, Confirmed
<1>24. ASSUME NEW t \in Tasks, WhoamiRefused(t)
      PROVE  FramesOK' /\ DataInv'
  <2> DEFINE new == [col EXCEPT !.enabled = FALSE]
  <2>1. new \in Columns
    BY <1>0 DEF Columns
  <2>2. DataInv' /\ Grows
    BY <1>0, <1>24, <2>1 DEF WhoamiRefused, Save, DataInv, StateOK,
       SwappedVerified, StartedVerified,
       OneSyncLoop, Grows
  <2> QED
    BY <1>0, <1>24, <2>1, <2>2, Saving DEF WhoamiRefused
<1>25. ASSUME NEW t \in Tasks, GiveUp(t)
      PROVE  FramesOK' /\ DataInv'
  <2> DEFINE new == [col EXCEPT !.enabled = FALSE]
  <2>1. new \in Columns
    BY <1>0 DEF Columns
  <2>2. DataInv' /\ Grows
    BY <1>0, <1>25, <2>1 DEF GiveUp, Save, DataInv, StateOK, SwappedVerified,
       StartedVerified,
       OneSyncLoop, Grows
  <2> QED
    BY <1>0, <1>25, <2>1, <2>2, Saving DEF GiveUp
<1>26. ASSUME NEW t \in Tasks, FilterCreated(t)
      PROVE  FramesOK' /\ DataInv'
  <2> DEFINE new == [col EXCEPT !.filter_id = TRUE]
  <2>1. new \in Columns
    BY <1>0 DEF Columns
  <2>2. DataInv' /\ Grows
    BY <1>0, <1>26, <2>1 DEF FilterCreated, Save, DataInv, StateOK,
       SwappedVerified, StartedVerified,
       OneSyncLoop, Grows
  <2>3. gen \in verified
    BY <1>0, <1>26 DEF FilterCreated, Runs, FrameOK, Confirmed
  <2>4. gen' \in verified'
    BY <2>2, <2>3 DEF Grows
  <2> QED
    BY <1>0, <1>26, <2>1, <2>2, <2>4, Saving DEF FilterCreated
<1>27. ASSUME NEW t \in Tasks, ClearCache(t)
      PROVE  FramesOK' /\ DataInv'
  <2> DEFINE new == [col EXCEPT !.filter_id = FALSE]
  <2>1. new \in Columns
    BY <1>0 DEF Columns
  <2>2. calls' \in 0..MaxCalls
    BY <1>0, <1>27, Counted DEF ClearCache
  <2>3. DataInv' /\ Grows
    BY <1>0, <1>27, <2>1, <2>2 DEF ClearCache, StopSync, Save, DataInv,
       StateOK, SwappedVerified, StartedVerified,
       OneSyncLoop, Grows
  <2> QED
    BY <1>0, <1>27, <2>1, <2>3, Saving DEF ClearCache
<1>28. ASSUME NEW t \in Tasks, NEW e \in BOOLEAN, NEW s \in BOOLEAN, UpdateFlags(t, e, s)
      PROVE  FramesOK' /\ DataInv'
  <2> DEFINE new == [col EXCEPT !.enabled = e, !.sync = s]
  <2>1. new \in Columns
    BY <1>0 DEF Columns
  <2>2. syncing' \subseteq syncing \cup {gen}
    BY <1>28 DEF UpdateFlags, StopSync
  <2>3. DataInv' /\ Grows
    BY <1>0, <1>28, <2>1, <2>2 DEF UpdateFlags, Save, DataInv, StateOK,
       SwappedVerified, StartedVerified,
       OneSyncLoop, Grows
  <2> QED
    BY <1>0, <1>28, <2>1, <2>3, Saving DEF UpdateFlags
<1>29. ASSUME NEW t \in Tasks, NEW b \in BOOLEAN, UpdateStarted(t, b)
      PROVE  FramesOK' /\ DataInv'
  <2>1. DataInv' /\ Grows
    BY <1>0, <1>29, OnlyFrames DEF UpdateStarted
  <2>2. PICK l \in {"uflags", "begin", "stop"}, r \in {"idle", "uflags"} :
            Begin(t, l, r)
    BY <1>0, <1>29 DEF UpdateStarted, DataInv, StateOK
  <2> QED
    BY <1>0, <2>1, <2>2, Begun DEF Hot
<1>30. ASSUME NEW t \in Tasks, VersionsAnswered(t)
      PROVE  FramesOK' /\ DataInv'
  <2> DEFINE f == [frame[t] EXCEPT !.pc = "whoami", !.obj = gen]
  <2>1. DataInv' /\ Grows
    BY <1>0, <1>30, OnlyFrames DEF VersionsAnswered
  <2>2. gen \in 0..MaxSwaps + 1 /\ gen \in 1..gen /\ gen' = gen
    BY <1>0, <1>30, BoundsAssumption
       DEF VersionsAnswered, data, DataInv, StateOK, Clients
  <2>3. /\ f \in Frames /\ f.pc = "whoami" /\ f.obj = gen
        /\ f.next = frame[t].next
    BY <1>0, <2>2 DEF Frames, Await
  <2>4. f.next = "idle"
    BY <1>0, <1>30, <2>3 DEF VersionsAnswered, Runs, FrameOK
  <2>5. FrameOK(f, gen', verified')
    BY <2>2, <2>3, <2>4 DEF FrameOK, Confirmed
  <2>6. frame' = [frame EXCEPT ![t] = f]
    BY <1>30 DEF VersionsAnswered
  <2> QED
    BY <1>0, <2>1, <2>3, <2>5, <2>6, Replaced
<1>31. ASSUME NEW t \in Tasks, WhoamiOk(t)
      PROVE  FramesOK' /\ DataInv'
  <2>1. frame[t].obj \in 1..gen /\ frame[t].pc = "whoami"
    BY <1>0, <1>31 DEF WhoamiOk, Runs, FrameOK
  <2>2. gen' = gen /\ gen' \in verified'
    BY <1>0, <1>31, <2>1 DEF WhoamiOk, DataInv, SwappedVerified
  <2>3. frame[t].obj \in Clients
    BY <1>0, <2>1, BoundsAssumption DEF DataInv, StateOK, Clients
  <2>4. DataInv' /\ Grows
    <3>1. verified' \in SUBSET Clients
      BY <1>0, <1>31, <2>3 DEF WhoamiOk, DataInv, StateOK
    <3>2. UNCHANGED <<col, row, deleted, started, gen, syncing, stalled, calls>>
      BY <1>31 DEF WhoamiOk
    <3> QED
      BY <1>0, <2>2, <3>1, <3>2 DEF DataInv, StateOK, SwappedVerified,
         StartedVerified,
       OneSyncLoop, Grows
  <2>5. PICK l \in {"profile", "filter"} : Goto(t, l)
    BY <1>31 DEF WhoamiOk
  <2> QED
    BY <1>0, <2>1, <2>2, <2>4, <2>5, Moved DEF Await
<1>32. ASSUME NEW t \in Tasks, AccessOk(t)
      PROVE  FramesOK' /\ DataInv'
  <2> DEFINE l == IF Crypto THEN "ucrypto" ELSE "uprofile"
             f == [frame[t] EXCEPT !.pc = l, !.arg = Null]
  <2>1. frame[t].arg \in Details /\ frame[t].next = "idle"
    BY <1>0, <1>32 DEF AccessOk, Runs, FrameOK
  <2>2. col' \in Columns
    BY <1>0, <1>32, <2>1 DEF AccessOk, SwapClient, Details, Columns
  <2>3. gen' = gen + 1 /\ gen' \in Clients
    BY <1>0, <1>32, BoundsAssumption
       DEF AccessOk, SwapClient, DataInv, StateOK, Clients
  <2>4. syncing' \subseteq {gen'}
    BY <1>0, <1>32, <2>3 DEF AccessOk, SwapClient, StopSync, DataInv,
       OneSyncLoop
  <2>5. DataInv' /\ Grows
    BY <1>0, <1>32, <2>2, <2>3, <2>4 DEF AccessOk, DataInv, StateOK,
       SwappedVerified, StartedVerified,
       OneSyncLoop, Grows
  <2>6. f \in Frames /\ f.pc = l /\ f.next = "idle"
    BY <1>0, <2>1 DEF Frames, Await
  <2>7. FrameOK(f, gen', verified')
    BY <2>6 DEF FrameOK, Confirmed
  <2>8. frame' = [frame EXCEPT ![t] = f]
    BY <1>32 DEF AccessOk
  <2> QED
    BY <1>0, <2>5, <2>6, <2>7, <2>8, Replaced
<1>33. ASSUME NEW t \in Tasks, UpdateClient(t)
      PROVE  FramesOK' /\ DataInv'
  <2>0. calls' \in 0..MaxCalls
    BY <1>0, <1>33, Counted DEF UpdateClient
  <2>1. DataInv' /\ Grows
    <3>1. UNCHANGED <<col, row, deleted, started, gen, syncing, verified,
                      stalled>>
      BY <1>33 DEF UpdateClient
    <3> QED
      BY <1>0, <2>0, <3>1 DEF DataInv, StateOK, SwappedVerified,
         StartedVerified,
       OneSyncLoop, Grows
  <2>2. ASSUME NEW d \in Details,
               frame' = [frame EXCEPT ![t] =
                   [NoFrame EXCEPT !.pc = "uaccess", !.arg = d]]
        PROVE  FramesOK'
    <3> DEFINE f == [NoFrame EXCEPT !.pc = "uaccess", !.arg = d]
    <3>1. /\ f \in Frames /\ f.pc = "uaccess" /\ f.arg = d
          /\ f.next = "idle"
      BY NoFrameTyped DEF Frames, NoFrame, Await
    <3>2. FrameOK(f, gen', verified')
      BY <3>1 DEF FrameOK, Confirmed
    <3> QED
      BY <1>0, <2>1, <2>2, <3>1, <3>2, Replaced
  <2> QED
    BY <1>0, <1>33, <2>1, <2>2, Begun DEF UpdateClient, Hot
<1>34. ASSUME NEW t \in Tasks, Retry(t)
      PROVE  FramesOK' /\ DataInv'
  <2>1. DataInv' /\ Grows
    BY <1>0, <1>34, OnlyFrames DEF Retry
  <2> DEFINE f == [NoFrame EXCEPT !.pc = "sleep", !.try = frame[t].try + 1]
  <2>2. PICK s \in Tasks \ {t} :
            frame' = [frame EXCEPT ![t] = Returned(frame[t]), ![s] = f]
    BY <1>34 DEF Retry
  <2>3. frame[t].try + 1 \in 0..MaxTry
    BY <1>0, <1>34, BoundsAssumption DEF Retry, Frames
  <2>4. f \in Frames /\ f.pc = "sleep" /\ f.next = "idle"
    BY <2>3, NoFrameTyped DEF Frames, NoFrame, Await
  <2>5. FrameOK(f, gen', verified')
    BY <2>4 DEF FrameOK, Confirmed
  <2>6. /\ Returned(frame[t]) \in Frames
        /\ FrameOK(Returned(frame[t]), gen', verified')
    BY <1>0, ReturnGood
  <2>7. \A r \in Tasks : FrameOK(frame[r], gen', verified')
    BY <1>0, <1>34 DEF Retry, data
  <2>8. \A r \in Tasks : frame'[r] = IF r = s THEN f
                                     ELSE IF r = t THEN Returned(frame[t])
                                     ELSE frame[r]
    BY <1>0, <2>2 DEF FramesOK
  <2>9. frame' \in [Tasks -> Frames]
    BY <1>0, <2>2, <2>4, <2>6 DEF FramesOK
  <2>10. \A r \in Tasks : FrameOK(frame'[r], gen', verified')
    BY <2>5, <2>6, <2>7, <2>8, Zenon
  <2> QED
    BY <2>1, <2>9, <2>10 DEF FramesOK
<1>35. ASSUME NEW t \in Tasks, Saved(t)
      PROVE  FramesOK' /\ DataInv'
  <2>1. frame[t].snap \in Columns
    BY <1>0, <1>35 DEF Saved, Runs, FrameOK
  <2>2. DataInv' /\ Grows
    BY <1>0, <1>35, <2>1 DEF Saved, DataInv, StateOK, SwappedVerified,
       StartedVerified,
       OneSyncLoop, Grows
  <2>3. CASE frame[t].next = "idle"
    BY <1>0, <1>35, <2>2, <2>3, ReturnedOK DEF Saved, Return
  <2>4. CASE frame[t].next # "idle"
    <3> DEFINE f == [frame[t] EXCEPT !.pc = frame[t].next, !.next = "idle",
                                     !.snap = Null]
    <3>1. /\ frame[t].next \in {"profile", "resync"}
          /\ frame[t].next \in Hot \cup Await \cup {"idle"}
      BY <1>0, <2>4 DEF Frames, Hot, Await
    <3>2. f \in Frames /\ f.pc = frame[t].next /\ f.next = "idle"
      BY <1>0, <3>1 DEF Frames
    <3>3. frame[t].next = "profile" => gen' \in verified'
      BY <1>0, <2>2 DEF FrameOK, Grows
    <3>4. FrameOK(f, gen', verified')
      BY <3>1, <3>2, <3>3 DEF FrameOK, Confirmed
    <3>5. frame' = [frame EXCEPT ![t] = f]
      BY <1>35, <2>4 DEF Saved
    <3> QED
      BY <1>0, <2>2, <3>2, <3>4, <3>5, Replaced
  <2> QED
    BY <2>3, <2>4
<1>36. ASSUME NEW t \in Tasks, Stop(t)
      PROVE  FramesOK' /\ DataInv'
  <2>1. /\ started' = FALSE
        /\ UNCHANGED <<col, row, deleted, gen, syncing, verified, stalled, calls>>
    BY <1>36 DEF Stop
  <2>2. DataInv' /\ Grows
    <3>1. StateOK'
      BY <1>0, <2>1 DEF DataInv, StateOK
    <3>2. SwappedVerified' /\ OneSyncLoop' /\ Grows
      BY <1>0, <2>1 DEF DataInv, SwappedVerified, OneSyncLoop, Grows
    <3>3. StartedVerified'
      BY <2>1 DEF StartedVerified
    <3> QED
      BY <3>1, <3>2, <3>3 DEF DataInv
  <2> QED
    BY <1>0, <1>36, <2>2, Moved, ReturnedOK DEF Stop, Runs, Await, Confirmed
<1>37. CASE UNCHANGED vars
  <2>1. DataInv' /\ Grows
    BY <1>0, <1>37, OnlyFrames DEF vars, data
  <2> QED
    BY <1>0, <1>37, <2>1 DEF vars, FramesOK
<1> QED
  BY <1>1, <1>2, <1>3, <1>4, <1>5, <1>6, <1>7, <1>8, <1>9, <1>10, <1>11,
     <1>12, <1>13, <1>14, <1>15, <1>16, <1>17, <1>18, <1>19, <1>20, <1>21,
     <1>22, <1>23, <1>24, <1>25, <1>26, <1>27, <1>28, <1>29, <1>30, <1>31,
     <1>32, <1>33, <1>34, <1>35, <1>36, <1>37
     DEF Next, Calls, Steps

\* Typing: every variable of the model, frames included, keeps its type.
THEOREM Typing == Spec => []TypeOK
BY InitIInv, StepIInv, IInvImplies, PTL DEF Spec

\* However calls overlap, a started client uses a client object for which
\* the homeserver confirmed the user and device.
THEOREM Identity == Spec => []StartedVerified
BY InitIInv, StepIInv, IInvImplies, PTL DEF Spec

\* However calls overlap, at most one sync loop runs, that of the client in
\* use: a replaced client never syncs again.
THEOREM SyncLoop == Spec => []OneSyncLoop
BY InitIInv, StepIInv, IInvImplies, PTL DEF Spec

-----------------------------------------------------------------------------
(* Calls that do not overlap                                               *)

\* The coroutine with frame f is doing something.
Awake(f) == f.pc \notin {"idle", "sleep"}

Alone == \A s, t \in Tasks : Awake(frame[s]) /\ Awake(frame[t]) => s = t

\* A started client whose sync flag is on syncs, or an exception cut a
\* restart of its loop short.
Synced == started /\ ~stalled /\ col.sync => gen \in syncing

\* The coroutine with frame f has stopped the loop and will start it again.
Cut(f) == f.pc \in {"ucrypto", "resync"} \/ (f.pc = "save" /\ f.next = "resync")

\* It is in start() or stop(), where the client is not started.
Down(f) ==
    \/ f.pc \in {"versions", "whoami", "filter", "profile", "crypto", "startsync",
                 "remote", "stopplugins"}
    \/ f.pc = "save" /\ f.next = "profile"

Good(f) ==
    /\ Cut(f) \/ Synced
    /\ Down(f) => ~started
    /\ f.pc = "remote" /\ col.sync => gen \in syncing

SInv ==
    /\ Alone
    /\ Quiet => Synced
    /\ \A t \in Tasks : Awake(frame[t]) => Good(frame[t])

\* Task t may step: it is in progress, or nobody is.
Steps1(t) == Quiet \/ Awake(frame[t])

\* The frames of the others stay, or begin to sleep.
OthersStay(t) ==
    \A s \in Tasks \ {t} : frame'[s] = frame[s] \/ frame'[s].pc = "sleep"

\* The coroutine that steps is in a good state.
LEMMA Before ==
    ASSUME SInv, NEW t \in Tasks, Steps1(t)
    PROVE  Good(frame[t])
BY DEF SInv, Steps1, Quiet, Awake, Good, Cut, Down

\* It is enough to show that it leaves one behind.
LEMMA After ==
    ASSUME SInv, NEW t \in Tasks, Steps1(t), OthersStay(t), Good(frame[t])'
    PROVE  SInv'
<1>1. \A s \in Tasks \ {t} : ~Awake(frame'[s])
  BY DEF SInv, Alone, Steps1, OthersStay, Quiet, Awake
<1>2. Alone'
  BY <1>1 DEF Alone, Awake
<1>3. \A s \in Tasks : Awake(frame'[s]) => Good(frame[s])'
  BY <1>1
<1>4. Quiet' => Synced'
  BY DEF Quiet, Good, Cut
<1> QED
  BY <1>2, <1>3, <1>4 DEF SInv, Awake

\* The frame that each of the moves makes.
LEMMA BeginIs ==
    ASSUME FramesOK, NEW t \in Tasks, NEW l, NEW r, Begin(t, l, r)
    PROVE  OthersStay(t) /\ frame'[t].pc = l
BY DEF Begin, FramesOK, OthersStay, NoFrame

LEMMA FinishIs ==
    ASSUME FramesOK, NEW t \in Tasks, Finish(t)
    PROVE  OthersStay(t) /\ frame'[t].pc = "idle"
BY DEF Finish, FramesOK, OthersStay, NoFrame

LEMMA GotoIs ==
    ASSUME FramesOK, NEW t \in Tasks, NEW l, Goto(t, l)
    PROVE  OthersStay(t) /\ frame'[t].pc = l
BY DEF Goto, FramesOK, OthersStay, Frames

LEMMA ReturnedIs ==
    ASSUME FramesOK, NEW t \in Tasks
    PROVE  Returned(frame[t]).pc \in {"idle", "uflags", "drop"}
BY DEF Returned, FramesOK, Frames, NoFrame

LEMMA ReturnIs ==
    ASSUME FramesOK, NEW t \in Tasks, Return(t)
    PROVE  OthersStay(t) /\ frame'[t].pc \in {"idle", "uflags", "drop"}
<1>1. frame'[t] = Returned(frame[t])
  BY DEF Return, FramesOK
<1>2. OthersStay(t)
  BY DEF Return, FramesOK, OthersStay
<1> QED
  BY <1>1, <1>2, ReturnedIs

LEMMA SaveIs ==
    ASSUME FramesOK, NEW t \in Tasks, NEW c, NEW l, Save(t, c, l)
    PROVE  /\ OthersStay(t) /\ frame'[t].pc = "save" /\ frame'[t].next = l
           /\ col' = c
BY DEF Save, FramesOK, OthersStay, Frames

\* A call begins only when nothing but sleeping retries is in progress.
LEMMA CallIs ==
    ASSUME Overlap = FALSE, SInv, NEW t \in Tasks, Call(t)
    PROVE  Synced /\ Steps1(t)
BY DEF Call, SInv, Steps1

\* A task that is in progress may step, and is in a good state.
LEMMA Running ==
    ASSUME SInv, NEW t \in Tasks, NEW l, Runs(t, l), l \notin {"idle", "sleep"}
    PROVE  frame[t].pc = l /\ Good(frame[t]) /\ Steps1(t)
BY Before DEF Runs, Steps1, Awake

\* A step that leaves the loop alone and goes to a label that asks nothing.
LEMMA Passing ==
    ASSUME SInv, NEW t \in Tasks, Steps1(t), Synced, OthersStay(t),
           frame'[t].pc \in {"idle", "begin", "stop", "drop", "rowdelete", "uaccess",
                             "uprofile", "ustarted", "uflags", "cryptoclose"},
           UNCHANGED <<col, started, gen, syncing, stalled>>
    PROVE  SInv'
<1>1. Good(frame[t])'
  BY DEF Good, Cut, Down, Synced
<1> QED
  BY <1>1, After

\* The request asks the homeserver about new access details.
Asks(t) ==
    \E d \in Details :
        frame' = [frame EXCEPT ![t] = [NoFrame EXCEPT !.pc = "uaccess", !.arg = d]]

LEMMA AsksIs ==
    ASSUME FramesOK, NEW t \in Tasks, Asks(t)
    PROVE  OthersStay(t) /\ frame'[t].pc = "uaccess"
<1>1. PICK d \in Details :
          frame' = [frame EXCEPT ![t] = [NoFrame EXCEPT !.pc = "uaccess", !.arg = d]]
  BY Zenon DEF Asks
<1> QED
  BY <1>1 DEF OthersStay, NoFrame, FramesOK

\* _update_client() begins a request and changes nothing yet.
LEMMA UpdateClientIs ==
    ASSUME FramesOK, NEW t \in Tasks, UpdateClient(t)
    PROVE  /\ Call(t) /\ OthersStay(t)
           /\ frame'[t].pc \in {"uprofile", "ustarted", "uaccess"}
           /\ UNCHANGED <<col, started, gen, syncing, stalled>>
<1>1. /\ Call(t)
      /\ Begin(t, "uprofile", "idle") \/ Begin(t, "ustarted", "idle") \/ Asks(t)
  BY Zenon DEF UpdateClient, Asks
<1>2. UNCHANGED <<col, started, gen, syncing, stalled>>
  <2>1. UNCHANGED <<col, row, deleted, started, gen, syncing, verified, stalled>>
    BY Zenon DEF UpdateClient
  <2> QED
    BY <2>1
<1>3. OthersStay(t) /\ frame'[t].pc \in {"uprofile", "ustarted", "uaccess"}
  BY <1>1, BeginIs, AsksIs
<1> QED
  BY <1>1, <1>2, <1>3

\* The calls that only begin a coroutine, and the end of a sleep.
LEMMA BeginSteps ==
    ASSUME Overlap = FALSE, IInv, SInv, NEW t \in Tasks,
           CallStart(t) \/ CallStop(t) \/ DeleteClient(t) \/ UpdateClient(t) \/ Wake(t)
    PROVE  SInv'
<1>1. CASE UpdateClient(t)
  BY <1>1, UpdateClientIs, CallIs, Passing DEF IInv
<1>2. CASE CallStart(t) \/ CallStop(t) \/ DeleteClient(t)
  BY <1>2, CallIs, BeginIs, Passing DEF CallStart, CallStop, DeleteClient, IInv
<1>3. CASE Wake(t)
  <2>1. Synced /\ Steps1(t) /\ UNCHANGED <<col, started, gen, syncing, stalled>>
    BY <1>3 DEF Wake, SInv, Steps1, data
  <2> QED
    BY <1>3, <2>1, GotoIs, Passing DEF Wake, IInv
<1> QED
  BY <1>1, <1>2, <1>3

\* The steps of a coroutine that only end it or send it on.
LEMMA PassingSteps ==
    ASSUME IInv, SInv, NEW t \in Tasks,
           \/ StartIgnored(t) \/ StartRaises(t) \/ PluginsStarted(t)
           \/ CryptoClosed(t) \/ Drop(t) \/ RowDeleted(t) \/ AccessRefused(t)
           \/ ProfileUpdated(t) \/ ProfileRaises(t)
           \/ \E b \in BOOLEAN : UpdateStarted(t, b)
    PROVE  SInv'
<1>1. PICK l \in {"begin", "filter", "profile", "crypto", "startplugins",
                  "cryptoclose", "drop", "rowdelete", "uaccess", "uprofile",
                  "ustarted"} : Runs(t, l)
  BY DEF StartIgnored, StartRaises, PluginsStarted, CryptoClosed, Drop, RowDeleted,
         AccessRefused, ProfileUpdated, ProfileRaises, UpdateStarted
<1>2. Synced /\ Steps1(t)
  BY <1>1, Running DEF Good, Cut
<1>3. UNCHANGED <<col, started, gen, syncing, stalled>>
  BY DEF StartIgnored, StartRaises, PluginsStarted, CryptoClosed, Drop, RowDeleted,
         AccessRefused, ProfileUpdated, ProfileRaises, UpdateStarted, data
<1>4. /\ OthersStay(t)
      /\ frame'[t].pc \in {"idle", "uflags", "drop", "rowdelete", "ustarted", "begin",
                           "stop"}
  <2>1. CASE \E b \in BOOLEAN : UpdateStarted(t, b)
    <3>1. PICK m \in {"uflags", "begin", "stop"}, r \in {"idle", "uflags"} :
              Begin(t, m, r)
      BY <2>1 DEF UpdateStarted, IInv, DataInv, StateOK
    <3> QED
      BY <3>1, BeginIs DEF IInv
  <2>2. CASE ~\E b \in BOOLEAN : UpdateStarted(t, b)
    BY <2>2, ReturnIs, FinishIs, GotoIs
       DEF StartIgnored, StartRaises, PluginsStarted, CryptoClosed, Drop, RowDeleted,
           AccessRefused, ProfileUpdated, ProfileRaises, IInv
  <2> QED
    BY <2>1, <2>2
<1> QED
  BY <1>2, <1>3, <1>4, Passing

\* The homeserver failed: start() returns and a retry sleeps.
LEMMA RetryStep ==
    ASSUME IInv, SInv, NEW t \in Tasks, Retry(t)
    PROVE  SInv'
<1>1. Synced /\ Steps1(t)
  BY Running DEF Retry, Good, Cut
<1> DEFINE f == [NoFrame EXCEPT !.pc = "sleep", !.try = frame[t].try + 1]
<1>2. PICK s \in Tasks \ {t} :
          frame' = [frame EXCEPT ![t] = Returned(frame[t]), ![s] = f]
  BY DEF Retry
<1>3. f.pc = "sleep"
  BY DEF NoFrame
<1> HIDE DEF f
<1>4. \A r \in Tasks : frame'[r] = IF r = s THEN f
                                   ELSE IF r = t THEN Returned(frame[t])
                                   ELSE frame[r]
  BY <1>2 DEF IInv, FramesOK
<1>5. OthersStay(t) /\ frame'[t].pc \in {"idle", "uflags", "drop"}
  BY <1>3, <1>4, ReturnedIs DEF OthersStay, IInv
<1>6. UNCHANGED <<col, started, gen, syncing, stalled>>
  BY DEF Retry, data
<1> QED
  BY <1>1, <1>5, <1>6, Passing

\* start() on its way: the client is not started before it is done.
LEMMA StartSteps ==
    ASSUME IInv, SInv, NEW t \in Tasks,
           \/ Start(t) \/ VersionsAnswered(t) \/ WhoamiOk(t) \/ ProfileSet(t)
           \/ CryptoStarted(t)
    PROVE  SInv'
<1>1. PICK l \in {"begin", "versions", "whoami", "profile", "crypto"} : Runs(t, l)
  BY DEF Start, VersionsAnswered, WhoamiOk, ProfileSet, CryptoStarted
<1>2. Steps1(t) /\ Good(frame[t]) /\ frame[t].pc = l
  BY <1>1, Running
<1>3. ~started
  BY <1>2 DEF Start, VersionsAnswered, WhoamiOk, ProfileSet, CryptoStarted, Runs,
     Good, Down
<1>4. started' = started
  BY DEF Start, VersionsAnswered, WhoamiOk, ProfileSet, CryptoStarted, data
<1>5. /\ OthersStay(t)
      /\ frame'[t].pc \in {"versions", "whoami", "filter", "profile", "crypto",
                           "startsync"}
  <2>1. CASE VersionsAnswered(t)
    BY <2>1 DEF VersionsAnswered, OthersStay, IInv, FramesOK, Frames
  <2>2. CASE ~VersionsAnswered(t)
    BY <2>2, GotoIs DEF Start, WhoamiOk, ProfileSet, CryptoStarted, IInv
  <2> QED
    BY <2>1, <2>2
<1>6. Good(frame[t])'
  BY <1>3, <1>4, <1>5 DEF Good, Synced
<1> QED
  BY <1>2, <1>5, <1>6, After

\* start() saves the filter or that it gave up.
LEMMA StartSaves ==
    ASSUME IInv, SInv, NEW t \in Tasks,
           WhoamiRefused(t) \/ GiveUp(t) \/ FilterCreated(t)
    PROVE  SInv'
<1>1. PICK l \in {"versions", "whoami", "filter"} : Runs(t, l)
  BY DEF WhoamiRefused, GiveUp, FilterCreated
<1>2. Steps1(t) /\ ~started
  BY <1>1, Running DEF Good, Down
<1>3. started' = started
  BY DEF WhoamiRefused, GiveUp, FilterCreated
<1>4. OthersStay(t) /\ frame'[t].pc = "save"
  BY SaveIs DEF WhoamiRefused, GiveUp, FilterCreated, IInv
<1>5. Good(frame[t])'
  BY <1>2, <1>3, <1>4 DEF Good, Synced
<1> QED
  BY <1>2, <1>4, <1>5, After

\* The loop starts, and only then the client counts as started.
LEMMA StartedSteps ==
    ASSUME IInv, SInv, NEW t \in Tasks, StartsSync(t) \/ Started(t)
    PROVE  SInv'
<1>1. CASE StartsSync(t)
  <2>1. Steps1(t) /\ ~started
    BY <1>1, Running DEF StartsSync, Good, Down
  <2>2. /\ started' = started /\ col' = col /\ gen' = gen
        /\ col.sync => gen \in syncing'
    BY <1>1 DEF StartsSync, StartSync
  <2>3. OthersStay(t) /\ frame'[t].pc = "remote"
    BY <1>1, GotoIs DEF StartsSync, IInv
  <2>4. Good(frame[t])'
    BY <2>1, <2>2, <2>3 DEF Good, Synced
  <2> QED
    BY <2>1, <2>3, <2>4, After
<1>2. CASE Started(t)
  <2>1. Steps1(t) /\ (col.sync => gen \in syncing)
    BY <1>2, Running DEF Started, Good
  <2>2. UNCHANGED <<col, gen, syncing>>
    BY <1>2 DEF Started
  <2>3. OthersStay(t) /\ frame'[t].pc = "startplugins"
    BY <1>2, GotoIs DEF Started, IInv
  <2>4. Good(frame[t])'
    BY <2>1, <2>2, <2>3 DEF Good, Synced, Down
  <2> QED
    BY <2>1, <2>3, <2>4, After
<1> QED
  BY <1>1, <1>2

\* stop() marks the client as stopped before it stops the loop.
LEMMA StopSteps ==
    ASSUME IInv, SInv, NEW t \in Tasks, Stop(t) \/ PluginsStopped(t)
    PROVE  SInv'
<1>1. Steps1(t) /\ ~started'
  <2>1. CASE Stop(t)
    BY <2>1, Running DEF Stop
  <2>2. CASE PluginsStopped(t)
    BY <2>2, Running DEF PluginsStopped, Good, Down
  <2> QED
    BY <2>1, <2>2
<1>2. /\ OthersStay(t)
      /\ frame'[t].pc \in {"idle", "uflags", "drop", "stopplugins", "cryptoclose"}
  BY GotoIs, ReturnIs DEF Stop, PluginsStopped, IInv
<1>3. Good(frame[t])'
  BY <1>1, <1>2 DEF Good, Synced
<1> QED
  BY <1>1, <1>2, <1>3, After

\* clear_cache() stops the loop and saves.
LEMMA ClearCacheStep ==
    ASSUME Overlap = FALSE, IInv, SInv, NEW t \in Tasks, ClearCache(t)
    PROVE  SInv'
<1>1. Steps1(t)
  BY CallIs DEF ClearCache
<1>2. OthersStay(t) /\ frame'[t].pc = "save" /\ frame'[t].next = "resync"
  BY SaveIs DEF ClearCache, IInv
<1>3. Good(frame[t])'
  BY <1>2 DEF Good, Cut, Down
<1> QED
  BY <1>1, <1>2, <1>3, After

\* The UPDATE commits, or the database refuses it: clear_cache() then never
\* starts the loop again.
LEMMA SavedSteps ==
    ASSUME IInv, SInv, NEW t \in Tasks, Saved(t) \/ SaveRefused(t)
    PROVE  SInv'
<1>1. frame[t].pc = "save" /\ Good(frame[t]) /\ Steps1(t)
  BY Running DEF Saved, SaveRefused
<1>2. UNCHANGED <<col, started, gen, syncing>>
  BY DEF Saved, SaveRefused
<1>3. CASE Saved(t)
  <2>1. stalled' = stalled
    BY <1>3 DEF Saved
  <2>2. CASE frame[t].next = "idle"
    <3>1. OthersStay(t) /\ frame'[t].pc \in {"idle", "uflags", "drop"}
      BY <1>3, <2>2, ReturnIs DEF Saved, Return, IInv
    <3> QED
      BY <1>1, <1>2, <2>1, <2>2, <3>1, Passing DEF Good, Cut
  <2>3. CASE frame[t].next # "idle"
    <3>1. OthersStay(t) /\ frame'[t].pc = frame[t].next
      BY <1>3, <2>3 DEF Saved, OthersStay, IInv, FramesOK, Frames
    <3>2. frame[t].next \in {"profile", "resync"}
      BY <2>3 DEF IInv, FramesOK, Frames
    <3>3. Good(frame[t])'
      BY <1>1, <1>2, <2>1, <3>1, <3>2 DEF Good, Cut, Down, Synced
    <3> QED
      BY <1>1, <3>1, <3>3, After
  <2> QED
    BY <2>2, <2>3
<1>4. CASE SaveRefused(t)
  <2>1. OthersStay(t) /\ frame'[t].pc \in {"idle", "uflags", "drop"}
    BY <1>4, FinishIs, ReturnIs DEF SaveRefused, IInv
  <2>2. stalled' = (stalled \/ frame[t].next = "resync")
    BY <1>4 DEF SaveRefused
  <2>3. Good(frame[t])'
    BY <1>1, <1>2, <2>1, <2>2 DEF Good, Cut, Down, Synced
  <2> QED
    BY <1>1, <2>1, <2>3, After
<1> QED
  BY <1>3, <1>4

\* clear_cache() and update_access_details() start the loop again.
LEMMA ResyncSteps ==
    ASSUME IInv, SInv, NEW t \in Tasks, Resync(t) \/ AccessCrypto(t)
    PROVE  SInv'
<1>1. Steps1(t)
  BY Running DEF Resync, AccessCrypto
<1>2. /\ col' = col /\ gen' = gen
      /\ col.sync => gen \in syncing'
  BY DEF Resync, AccessCrypto, StartSync
<1>3. OthersStay(t) /\ frame'[t].pc \in {"idle", "uprofile"}
  BY FinishIs, GotoIs DEF Resync, AccessCrypto, IInv
<1>4. Good(frame[t])'
  BY <1>2, <1>3 DEF Good, Synced, Down
<1> QED
  BY <1>1, <1>3, <1>4, After

\* update_access_details() puts the new client to use, with its loop or with
\* encryption to be started first.
LEMMA AccessSteps ==
    ASSUME IInv, SInv, NEW t \in Tasks, AccessOk(t) \/ AccessCryptoRaises(t)
    PROVE  SInv'
<1>1. CASE AccessOk(t)
  <2>1. Steps1(t)
    BY <1>1, Running DEF AccessOk
  <2>2. /\ OthersStay(t)
        /\ frame'[t].pc = IF Crypto THEN "ucrypto" ELSE "uprofile"
    BY <1>1 DEF AccessOk, OthersStay, IInv, FramesOK, Frames
  <2>3. col'.sync = col.sync
    BY <1>1 DEF AccessOk, SwapClient, IInv, DataInv, StateOK, Columns
  <2>4. ~Crypto /\ col.sync => gen' \in syncing'
    BY <1>1 DEF AccessOk, SwapClient
  <2>5. Good(frame[t])'
    BY <2>2, <2>3, <2>4 DEF Good, Cut, Synced, Down
  <2> QED
    BY <2>1, <2>2, <2>5, After
<1>2. CASE AccessCryptoRaises(t)
  <2>1. Steps1(t)
    BY <1>2, Running DEF AccessCryptoRaises
  <2>2. OthersStay(t) /\ frame'[t].pc = "idle" /\ stalled'
    BY <1>2, FinishIs DEF AccessCryptoRaises, IInv
  <2>3. Good(frame[t])'
    BY <2>2 DEF Good, Synced, Down
  <2> QED
    BY <2>1, <2>2, <2>3, After
<1> QED
  BY <1>1, <1>2

\* update_sync() starts or stops the loop of a started client with its flag.
LEMMA FlagsStep ==
    ASSUME IInv, SInv, NEW t \in Tasks, NEW e \in BOOLEAN, NEW s \in BOOLEAN,
           UpdateFlags(t, e, s)
    PROVE  SInv'
<1>1. Steps1(t) /\ Synced
  BY Running DEF UpdateFlags, Good, Cut
<1>2. /\ OthersStay(t) /\ frame'[t].pc = "save" /\ frame'[t].next = "idle"
      /\ col' = [col EXCEPT !.enabled = e, !.sync = s]
  BY SaveIs DEF UpdateFlags, IInv
<1>3. col'.sync = s
  BY <1>2 DEF IInv, DataInv, StateOK, Columns
<1>4. UNCHANGED <<started, gen, stalled>>
  BY DEF UpdateFlags
<1>5. Synced'
  <2>1. CASE ~started \/ ~s
    BY <1>3, <1>4, <2>1 DEF Synced
  <2>2. CASE started /\ s /\ s = col.sync
    <3>1. syncing' = syncing
      BY <2>2 DEF UpdateFlags
    <3> QED
      BY <1>1, <1>3, <1>4, <2>2, <3>1 DEF Synced
  <2>3. CASE started /\ s /\ s # col.sync
    <3>1. syncing' = syncing \cup {gen}
      BY <2>3 DEF UpdateFlags
    <3> QED
      BY <1>4, <3>1 DEF Synced
  <2> QED
    BY <2>1, <2>2, <2>3
<1>6. Good(frame[t])'
  BY <1>2, <1>5 DEF Good, Down
<1> QED
  BY <1>1, <1>2, <1>6, After

\* Every step keeps the invariant when calls do not overlap.
LEMMA StepSInv ==
    ASSUME Overlap = FALSE, IInv, SInv, [Next]_vars
    PROVE  SInv'
<1>1. ASSUME NEW t \in Tasks, Calls(t) PROVE SInv'
  BY <1>1, BeginSteps, ClearCacheStep DEF Calls
<1>2. ASSUME NEW t \in Tasks, Steps(t) PROVE SInv'
  BY <1>2, SavedSteps, BeginSteps, PassingSteps, StartSteps, StartSaves, RetryStep,
     StartedSteps, StopSteps, ResyncSteps, AccessSteps, FlagsStep
     DEF Steps
<1>3. CASE UNCHANGED vars
  BY <1>3 DEF vars, SInv, Alone, Awake, Quiet, Synced, Good, Cut, Down
<1> QED
  BY <1>1, <1>2, <1>3 DEF Next

\* When calls do not overlap, a started client whose sync flag is on syncs
\* between calls: clear_cache(), update_access_details(), update_sync(), stop()
\* and start() in any order never leave it started and silent, unless an
\* exception came between the stop and the start of the loop.
THEOREM Syncing ==
    ASSUME Overlap = FALSE
    PROVE  Spec => []SyncsWhenAsked
<1>1. Init => SInv
  BY DEF Init, SInv, Alone, Awake, Quiet, Synced, NoFrame
<1>2. IInv /\ SInv /\ [Next]_vars => IInv' /\ SInv'
  BY StepIInv, StepSInv, Zenon
<1>3. SInv => SyncsWhenAsked
  BY DEF SInv, SyncsWhenAsked, Synced
<1> QED
  BY InitIInv, <1>1, <1>2, <1>3, PTL DEF Spec
=============================================================================

-------------------------- MODULE ClientAuthProofs --------------------------
(***************************************************************************)
(* Proofs about ClientAuth for any number of requests, sessions, devices   *)
(* and restarts: every login was asked for by an administrator, a client   *)
(* has the device that whoami named, and no acknowledged login token is    *)
(* lost while maubot runs.                                                 *)
(***************************************************************************)
EXTENDS ClientAuth, FiniteSetTheorems, TLAPS

\* What a request in progress holds, when s are the sessions.  Past the
\* middleware an administrator asked; past whoami the token is one of the
\* account and, but for POST /client/new, the device passed the comparison.
FrameOK(f, s) ==
    /\ f.pc # "idle" => f.asker
    /\ f.pc \in {"future", "cancelled"} => f.session \in Sessions
    /\ f.pc = "cancelled" => s[f.session].fut = "set"
    /\ f.pc \in {"exists", "make"} => f.token # 0
    /\ f.pc = "exists" => f.new
    /\ f.pc = "make" /\ ~f.new => DeviceFits(f)

FramesOK ==
    /\ frame \in [Tasks -> Frames]
    /\ \A t \in Tasks : FrameOK(frame[t], session)

\* The part of TypeOK that is not about the frames.
StateOK ==
    /\ config \in [secret : Secrets, admins : SUBSET Users]
    /\ issued \subseteq Bearers
    /\ restarts \in 0..MaxRestarts
    /\ config.secret <= restarts
    /\ requests \in 0..MaxRequests
    /\ session \in [Sessions -> [fut : {"none", "pending", "set", "cancelled"},
                                 update : BOOLEAN, asker : BOOLEAN]]
    /\ waiters \cup received \cup dropped \cup sent \cup accepted
           \subseteq Sessions
    /\ devices \subseteq [id : Device, asked : BOOLEAN] /\ IsFiniteSet(devices)
    /\ client \in [token : Device, device : Device \cup {Null},
                   new : BOOLEAN] \cup {Null}

\* A session was begun by an administrator, and one that is waited for was
\* begun.
SessionsOK ==
    /\ \A i \in Sessions : session[i].fut # "none" => session[i].asker
    /\ \A i \in waiters : session[i].fut # "none"

\* The device of the client, without the typing that DeviceOfToken contains.
DeviceFitsClient ==
    client # Null /\ ~client.new /\ client.token \notin Unnamed =>
        client.device \in {Null, client.token}

\* The inductive invariant, without and with the frames.
DataInv ==
    StateOK /\ SessionsOK /\ LoginsAuthorised /\ DeviceFitsClient
        /\ AcknowledgedKept
IInv == DataInv /\ FramesOK

\* A future that is set stays set.
SetStays == \A i \in Sessions : session[i].fut = "set" => session'[i].fut = "set"

\* The invariant contains the properties that TLC checks.
LEMMA IInvImplies ==
    IInv => LoginsAuthorised /\ DeviceOfToken /\ AcknowledgedKept
BY DEF IInv, DataInv, StateOK, FramesOK, TypeOK, DeviceOfToken, DeviceFitsClient

\* The frame of a request that is over.
LEMMA NoFrameOK == NoFrame \in Frames /\ \A s : FrameOK(NoFrame, s)
BY BoundsAssumption DEF NoFrame, Frames, FrameOK

LEMMA InitIInv == Init => IInv
<1> SUFFICES ASSUME Init PROVE IInv
  OBVIOUS
<1>1. FramesOK
  BY NoFrameOK DEF Init, FramesOK
<1>2. StateOK
  BY FS_EmptySet, BoundsAssumption
     DEF Init, StateOK, Secrets, Users, Bearers, Device
<1>3. SessionsOK /\ LoginsAuthorised /\ DeviceFitsClient /\ AcknowledgedKept
  BY DEF Init, SessionsOK, LoginsAuthorised, DeviceFitsClient,
         AcknowledgedKept
<1> QED
  BY <1>1, <1>2, <1>3 DEF IInv, DataInv

-----------------------------------------------------------------------------
(* Each way a step moves a request keeps the frames in order               *)

\* Replacing one frame by a good one keeps all frames good.
LEMMA Replaced ==
    ASSUME FramesOK, SetStays, NEW t \in Tasks, NEW f \in Frames,
           FrameOK(f, session'), frame' = [frame EXCEPT ![t] = f]
    PROVE  FramesOK'
<1>1. /\ frame' \in [Tasks -> Frames]
      /\ \A s \in Tasks : frame'[s] = IF s = t THEN f ELSE frame[s]
  BY DEF FramesOK
<1>2. ASSUME NEW s \in Tasks PROVE FrameOK(frame[s], session')
  <2>1. FrameOK(frame[s], session)
    BY DEF FramesOK
  <2> QED
    BY <2>1 DEF FrameOK, SetStays
<1>3. \A s \in Tasks : FrameOK(frame'[s], session')
  BY <1>1, <1>2, Zenon
<1> QED
  BY <1>1, <1>3 DEF FramesOK

\* No request moves.
LEMMA Kept ==
    ASSUME FramesOK, SetStays, UNCHANGED frame
    PROVE  FramesOK'
<1>1. ASSUME NEW s \in Tasks PROVE FrameOK(frame[s], session')
  <2>1. FrameOK(frame[s], session)
    BY DEF FramesOK
  <2> QED
    BY <2>1 DEF FrameOK, SetStays
<1> QED
  BY <1>1 DEF FramesOK

\* A request is answered.
LEMMA Answered ==
    ASSUME FramesOK, SetStays, NEW t \in Tasks, Answer(t)
    PROVE  FramesOK'
BY NoFrameOK, Replaced DEF Answer

\* A request goes on to the label l.
LEMMA Moved ==
    ASSUME FramesOK, SetStays, NEW t \in Tasks, frame[t].pc # "idle",
           NEW l \in {"register", "login", "cancelled", "exists", "make"},
           l = "cancelled" => /\ frame[t].session \in Sessions
                              /\ session[frame[t].session].fut = "set",
           l \in {"exists", "make"} => frame[t].token # 0,
           l = "exists" => frame[t].new,
           l = "make" /\ ~frame[t].new => DeviceFits(frame[t]),
           Goto(t, l)
    PROVE  FramesOK'
<1> DEFINE f == [frame[t] EXCEPT !.pc = l]
<1>1. frame[t] \in Frames /\ FrameOK(frame[t], session)
  BY DEF FramesOK
<1>2. /\ f \in Frames /\ f.pc = l /\ f.asker = frame[t].asker
      /\ f.session = frame[t].session /\ f.token = frame[t].token
      /\ f.new = frame[t].new /\ f.device = frame[t].device
  BY <1>1 DEF Frames
<1>3. FrameOK(f, session')
  BY <1>1, <1>2 DEF FrameOK, SetStays, DeviceFits
<1>4. frame' = [frame EXCEPT ![t] = f]
  BY DEF Goto
<1> QED
  BY <1>2, <1>3, <1>4, Replaced

\* The middleware lets a request in whose token is valid, within the bound.
LEMMA LetIn ==
    ASSUME StateOK, NEW t \in Tasks, NEW path, path # "complete", NEW b,
           Request(t, path, b)
    PROVE  IsValid(b) /\ requests' \in 0..MaxRequests
BY BoundsAssumption DEF Request, Allowed, StateOK

\* A step that only lets a request in, or moves one.
LEMMA OnlyFrames ==
    ASSUME DataInv, UNCHANGED <<mgmt, sso, devices, client>>,
           requests' \in 0..MaxRequests
    PROVE  DataInv' /\ SetStays
BY DEF DataInv, StateOK, SessionsOK, LoginsAuthorised, DeviceFitsClient,
       AcknowledgedKept, SetStays, mgmt, sso

\* The homeserver makes a device: its number is a new one within the bound,
\* and the request that asked for it was an administrator's.
LEMMA Made ==
    ASSUME StateOK, LoginsAuthorised, FramesOK, SetStays, NEW t \in Tasks,
           frame[t].pc # "idle", NEW l \in {"cwhoami", "get"}, NewDevice(t, l)
    PROVE  /\ devices' \subseteq [id : Device, asked : BOOLEAN]
           /\ IsFiniteSet(devices')
           /\ LoginsAuthorised'
           /\ FramesOK'
<1> DEFINE n == Cardinality(devices) + 1
           f == [frame[t] EXCEPT !.pc = l, !.token = n, !.device = n]
<1>1. n \in Device
  BY FS_CardinalityType, BoundsAssumption DEF StateOK, NewDevice, Device
<1>2. frame[t] \in Frames /\ FrameOK(frame[t], session) /\ frame[t].asker = TRUE
  BY DEF FramesOK, FrameOK, Frames
<1>3. devices' = devices \cup {[id |-> n, asked |-> TRUE]}
  BY <1>2 DEF NewDevice
<1>4. IsFiniteSet(devices')
  BY <1>3, FS_AddElement DEF StateOK
<1>5. [id |-> n, asked |-> TRUE] \in [id : Device, asked : BOOLEAN]
  BY <1>1
<1>6. /\ devices' \subseteq [id : Device, asked : BOOLEAN]
      /\ LoginsAuthorised'
  <2>1. devices' \subseteq [id : Device, asked : BOOLEAN]
    BY <1>3, <1>5, Zenon DEF StateOK
  <2>2. ASSUME NEW d \in devices' PROVE d.asked
    <3>1. d \in devices \/ d = [id |-> n, asked |-> TRUE]
      BY <1>3, <2>2, Zenon
    <3> QED
      BY <3>1 DEF LoginsAuthorised
  <2> QED
    BY <2>1, <2>2 DEF LoginsAuthorised
<1>7. n \in 0..MaxDevices /\ n \in Device \cup {Null}
  BY <1>1, BoundsAssumption DEF Device
<1>8. f \in Frames /\ f.pc = l /\ f.asker
  <2> HIDE DEF n
  <2> QED
    BY <1>2, <1>7 DEF Frames
<1>9. FrameOK(f, session')
  BY <1>8 DEF FrameOK
<1>10. CASE frame[t].update
  <2>1. frame' = [frame EXCEPT ![t] = f]
    BY <1>10, Zenon DEF NewDevice
  <2> QED
    BY <1>4, <1>6, <1>8, <1>9, <2>1, Replaced
<1>11. CASE ~frame[t].update
  <2>1. frame' = [frame EXCEPT ![t] = NoFrame]
    BY <1>11, Zenon DEF NewDevice
  <2> QED
    BY <1>4, <1>6, <2>1, NoFrameOK, Replaced
<1> QED
  BY <1>10, <1>11

\* A request that the middleware let in starts with a good frame.
LEMMA Started ==
    ASSUME DataInv, FramesOK, NEW t \in Tasks, NEW b,
           NEW path, path # "complete", Request(t, path, b),
           UNCHANGED <<mgmt, sso, devices, client>>,
           NEW f \in Frames, f.asker,
           f.pc \in {"nonce", "login", "flows", "get", "cwhoami", "future"},
           f.pc = "future" => f.session \in Sessions,
           frame' = [frame EXCEPT ![t] = f]
    PROVE  FramesOK' /\ DataInv'
<1>1. DataInv' /\ SetStays
  BY LetIn, OnlyFrames DEF DataInv
<1>2. FrameOK(f, session')
  BY DEF FrameOK
<1> QED
  BY <1>1, <1>2, Replaced

\* Every step keeps the invariant.
LEMMA StepIInv == IInv /\ [Next]_vars => IInv'
<1> SUFFICES ASSUME IInv, [Next]_vars PROVE FramesOK' /\ DataInv'
  BY DEF IInv
<1>0. /\ DataInv /\ StateOK /\ LoginsAuthorised /\ SessionsOK
      /\ AcknowledgedKept /\ DeviceFitsClient /\ FramesOK
      /\ \A t \in Tasks : frame[t] \in Frames /\ FrameOK(frame[t], session)
  BY DEF IInv, DataInv, FramesOK
<1>1. ASSUME NEW u \in Users, LogIn(u) PROVE FramesOK' /\ DataInv'
  <2>1. [user |-> u, secret |-> config.secret] \in Bearers
    BY <1>0 DEF StateOK, Bearers
  <2>2. issued' \subseteq Bearers
    BY <1>0, <1>1, <2>1 DEF LogIn, StateOK
  <2>3. DataInv' /\ SetStays
    BY <1>0, <1>1, <2>2 DEF LogIn, sso, DataInv, StateOK, SessionsOK,
       LoginsAuthorised, DeviceFitsClient, AcknowledgedKept, SetStays
  <2> QED
    BY <1>0, <1>1, <2>3, Kept DEF LogIn
<1>2. ASSUME Restart PROVE FramesOK' /\ DataInv'
  <2>1. FramesOK'
    BY <1>2, NoFrameOK DEF Restart, FramesOK
  <2>2. /\ config' \in [secret : Secrets, admins : SUBSET Users]
        /\ restarts' \in 0..MaxRestarts
        /\ config'.secret <= restarts'
    BY <1>0, <1>2, BoundsAssumption DEF Restart, StateOK, Secrets
  <2>3. DataInv'
    BY <1>0, <1>2, <2>2 DEF Restart, DataInv, StateOK, SessionsOK,
       LoginsAuthorised, DeviceFitsClient, AcknowledgedKept
  <2> QED
    BY <2>1, <2>3
<1>3. ASSUME NEW t \in Tasks, NEW b \in issued, Register(t, b)
      PROVE  FramesOK' /\ DataInv'
  <2>1. IsValid(b) = TRUE
    BY <1>0, <1>3, LetIn DEF Register, IsValid
  <2>2. PICK u \in BOOLEAN : frame' = [frame EXCEPT ![t] =
             [NoFrame EXCEPT !.pc = "nonce", !.asker = TRUE, !.update = u]]
    BY <1>3, <2>1 DEF Register
  <2> DEFINE f == [NoFrame EXCEPT !.pc = "nonce", !.asker = TRUE,
                                  !.update = u]
  <2>3. f \in Frames /\ f.asker /\ f.pc = "nonce"
    BY NoFrameOK DEF NoFrame, Frames
  <2> HIDE DEF f
  <2> QED
    BY <1>0, <1>3, <2>2, <2>3, Started DEF Register, f
<1>4. ASSUME NEW t \in Tasks, NEW b \in issued, Login(t, b)
      PROVE  FramesOK' /\ DataInv'
  <2>1. IsValid(b) = TRUE
    BY <1>0, <1>4, LetIn DEF Login, IsValid
  <2>2. PICK u \in BOOLEAN, l \in {"login", "flows"} :
             frame' = [frame EXCEPT ![t] =
                [NoFrame EXCEPT !.pc = l, !.asker = TRUE, !.update = u]]
    BY <1>4, <2>1 DEF Login
  <2> DEFINE f == [NoFrame EXCEPT !.pc = l, !.asker = TRUE, !.update = u]
  <2>3. f \in Frames /\ f.asker /\ f.pc = l
    BY NoFrameOK DEF NoFrame, Frames
  <2> HIDE DEF f
  <2> QED
    BY <1>0, <1>4, <2>2, <2>3, Started DEF Login, f
<1>5. ASSUME NEW t \in Tasks, NEW b \in issued, Put(t, b)
      PROVE  FramesOK' /\ DataInv'
  <2>1. IsValid(b) = TRUE
    BY <1>0, <1>5, LetIn DEF Put, IsValid
  <2>2. PICK n \in {0} \cup Ids, d \in Ids \cup {Null}, new \in BOOLEAN :
             frame' = [frame EXCEPT ![t] =
                [NoFrame EXCEPT !.pc = IF new THEN "cwhoami" ELSE "get",
                                !.asker = TRUE, !.new = new, !.token = n,
                                !.device = d]]
    BY <1>5, <2>1 DEF Put
  <2> DEFINE f == [NoFrame EXCEPT !.pc = IF new THEN "cwhoami" ELSE "get",
                                  !.asker = TRUE, !.new = new, !.token = n,
                                  !.device = d]
  <2>3. n \in 0..MaxDevices /\ d \in Device \cup {Null}
    BY <1>0, BoundsAssumption DEF StateOK, Ids, Device
  <2>4. f \in Frames /\ f.asker /\ f.pc \in {"cwhoami", "get"}
    BY <2>3, NoFrameOK DEF NoFrame, Frames
  <2> HIDE DEF f
  <2> QED
    BY <1>0, <1>5, <2>2, <2>4, Started DEF Put, f
<1>6. ASSUME NEW t \in Tasks, NEW b \in issued, NEW i \in Sessions,
             Wait(t, b, i)
      PROVE  FramesOK' /\ DataInv'
  <2>1. (IsValid(b) /\ session[i].asker) = TRUE
    <3>1. IsValid(b)
      BY <1>0, <1>6, LetIn DEF Wait
    <3>2. session[i].asker
      BY <1>0, <1>6 DEF Wait, SessionsOK
    <3> QED
      BY <3>1, <3>2, Zenon
  <2> DEFINE f == [NoFrame EXCEPT !.pc = "future", !.session = i,
                                  !.update = session[i].update,
                                  !.asker = TRUE]
  <2>2. frame' = [frame EXCEPT ![t] = f]
    BY <1>6, <2>1 DEF Wait
  <2>3. f \in Frames /\ f.asker /\ f.pc = "future" /\ f.session = i
    BY <1>0, NoFrameOK DEF NoFrame, Frames, StateOK
  <2> HIDE DEF f
  <2> QED
    BY <1>0, <1>6, <2>2, <2>3, Started DEF Wait
<1>7. ASSUME NEW t \in Tasks, Failed(t) PROVE FramesOK' /\ DataInv'
  BY <1>0, <1>7, OnlyFrames, Answered DEF Failed, StateOK
<1>8. ASSUME NEW t \in Tasks, Nonce(t) PROVE FramesOK' /\ DataInv'
  BY <1>0, <1>8, OnlyFrames, Moved DEF Nonce, StateOK
<1>9. ASSUME NEW t \in Tasks, Registered(t) PROVE FramesOK' /\ DataInv'
  <2>1. SetStays
    BY <1>9 DEF Registered, sso, SetStays
  <2>2. /\ devices' \subseteq [id : Device, asked : BOOLEAN]
        /\ IsFiniteSet(devices') /\ LoginsAuthorised' /\ FramesOK'
    BY <1>0, <1>9, <2>1, Made DEF Registered
  <2> QED
    BY <1>0, <1>9, <2>2 DEF Registered, mgmt, sso, DataInv, StateOK,
       SessionsOK, DeviceFitsClient, AcknowledgedKept
<1>10. ASSUME NEW t \in Tasks, Flows(t) PROVE FramesOK' /\ DataInv'
  <2>1. PICK i \in Sessions :
            /\ session[i].fut = "none"
            /\ waiters' = waiters \cup {i}
            /\ session' = [session EXCEPT ![i] =
                   [fut |-> "pending", update |-> frame[t].update,
                    asker |-> frame[t].asker]]
    BY <1>10 DEF Flows
  <2>2. frame[t].asker = TRUE /\ frame[t].update \in BOOLEAN
    BY <1>0, <1>10 DEF Flows, FrameOK, Frames
  <2>3. session' = [session EXCEPT ![i] =
            [fut |-> "pending", update |-> frame[t].update, asker |-> TRUE]]
    BY <2>1, <2>2
  <2>4. /\ session' \in [Sessions -> [fut : {"none", "pending", "set",
                                             "cancelled"},
                                      update : BOOLEAN, asker : BOOLEAN]]
        /\ session'[i].fut = "pending" /\ session'[i].asker
        /\ \A j \in Sessions \ {i} : session'[j] = session[j]
    BY <1>0, <2>2, <2>3 DEF StateOK
  <2>5. SetStays /\ SessionsOK' /\ AcknowledgedKept'
    BY <1>0, <1>10, <2>1, <2>4 DEF Flows, SetStays, SessionsOK,
       AcknowledgedKept, StateOK
  <2>6. FramesOK'
    BY <1>0, <1>10, <2>5, Answered DEF Flows
  <2> QED
    BY <1>0, <1>10, <2>1, <2>4, <2>5, <2>6 DEF Flows, mgmt, DataInv, StateOK,
       DeviceFitsClient, LoginsAuthorised
<1>11. ASSUME NEW t \in Tasks, Waited(t) PROVE FramesOK' /\ DataInv'
  <2>1. frame[t].session \in Sessions /\ SetStays
    BY <1>0, <1>11 DEF Waited, FrameOK, SetStays
  <2>2. FramesOK'
    BY <1>0, <1>11, <2>1, Moved DEF Waited
  <2> QED
    BY <1>0, <1>11, <2>1, <2>2 DEF Waited, mgmt, DataInv, StateOK, SessionsOK,
       DeviceFitsClient, LoginsAuthorised, AcknowledgedKept
<1>12. ASSUME NEW t \in Tasks, Cancelled(t) PROVE FramesOK' /\ DataInv'
  <2>1. frame[t].session \in Sessions /\ SetStays
    BY <1>0, <1>12 DEF Cancelled, FrameOK, SetStays
  <2>2. FramesOK'
    BY <1>0, <1>12, <2>1, Answered DEF Cancelled
  <2>3. AcknowledgedKept'
    BY <1>0, <1>12, <2>1 DEF Cancelled, Fut, AcknowledgedKept
  <2> QED
    BY <1>0, <1>12, <2>1, <2>2, <2>3 DEF Cancelled, mgmt, DataInv, StateOK,
       SessionsOK, DeviceFitsClient, LoginsAuthorised
<1>13. ASSUME NEW t \in Tasks, LoggedIn(t) PROVE FramesOK' /\ DataInv'
  <2>1. SetStays
    BY <1>13 DEF LoggedIn, SetStays
  <2>2. /\ devices' \subseteq [id : Device, asked : BOOLEAN]
        /\ IsFiniteSet(devices') /\ LoginsAuthorised' /\ FramesOK'
    BY <1>0, <1>13, <2>1, Made DEF LoggedIn
  <2>3. accepted' \subseteq Sessions
    BY <1>0, <1>13 DEF LoggedIn, StateOK, Frames
  <2> QED
    BY <1>0, <1>13, <2>2, <2>3 DEF LoggedIn, mgmt, DataInv, StateOK,
       SessionsOK, DeviceFitsClient, AcknowledgedKept
<1>14. ASSUME NEW t \in Tasks, Get(t) PROVE FramesOK' /\ DataInv'
  <2>1. DataInv' /\ SetStays
    BY <1>0, <1>14, OnlyFrames DEF Get, StateOK
  <2> DEFINE d == IF frame[t].device # Null \/ client = Null
                  THEN frame[t].device ELSE client.device
             f == [frame[t] EXCEPT !.pc = "cwhoami"]
             g == [frame[t] EXCEPT !.pc = "uwhoami", !.device = d]
  <2>2. d \in Device \cup {Null} /\ frame[t].asker
    BY <1>0, <1>14 DEF Get, StateOK, Frames, FrameOK
  <2>3. frame' \in {[frame EXCEPT ![t] = f], [frame EXCEPT ![t] = g],
                    [frame EXCEPT ![t] = NoFrame]}
    BY <1>14, Zenon DEF Get
  <2> HIDE DEF d
  <2>4. /\ f \in Frames /\ FrameOK(f, session')
        /\ g \in Frames /\ FrameOK(g, session')
    BY <1>0, <2>2 DEF Frames, FrameOK
  <2> HIDE DEF f, g
  <2> QED
    BY <1>0, <2>1, <2>3, <2>4, NoFrameOK, Replaced
<1>15. ASSUME NEW t \in Tasks, CreateWhoami(t) PROVE FramesOK' /\ DataInv'
  BY <1>0, <1>15, OnlyFrames, Answered, Moved DEF CreateWhoami, StateOK
<1>16. ASSUME NEW t \in Tasks, Exists(t) PROVE FramesOK' /\ DataInv'
  BY <1>0, <1>16, OnlyFrames, Answered, Moved DEF Exists, StateOK, FrameOK
<1>17. ASSUME NEW t \in Tasks, Make(t) PROVE FramesOK' /\ DataInv'
  <2>1. frame[t].token \in Device
    BY <1>0, <1>17, BoundsAssumption DEF Make, FrameOK, Frames, Device
  <2>2. Details(frame[t]) \in [token : Device, device : Device \cup {Null},
                               new : BOOLEAN]
    BY <1>0, <2>1 DEF Details, Frames
  <2>3. /\ client' \in [token : Device, device : Device \cup {Null},
                        new : BOOLEAN] \cup {Null}
        /\ DeviceFitsClient' /\ SetStays
    BY <1>0, <1>17, <2>2 DEF Make, Details, FrameOK, DeviceFits,
       DeviceFitsClient, StateOK, sso, SetStays
  <2>4. FramesOK'
    BY <1>0, <1>17, <2>3, Answered DEF Make
  <2> QED
    BY <1>0, <1>17, <2>3, <2>4 DEF Make, mgmt, sso, DataInv, StateOK,
       SessionsOK, LoginsAuthorised, AcknowledgedKept
<1>18. ASSUME NEW t \in Tasks, UpdateWhoami(t) PROVE FramesOK' /\ DataInv'
  <2>1. frame[t].token # 0 => frame[t].token \in Device
    BY <1>0, BoundsAssumption DEF Frames, Device
  <2>2. frame[t].token # 0 =>
            Details(frame[t]) \in [token : Device, device : Device \cup {Null},
                                   new : BOOLEAN]
    BY <1>0, <2>1 DEF Details, Frames
  <2>3. /\ client' \in [token : Device, device : Device \cup {Null},
                        new : BOOLEAN] \cup {Null}
        /\ DeviceFitsClient' /\ SetStays
    BY <1>0, <1>18, <2>2 DEF UpdateWhoami, Details, DeviceFits,
       DeviceFitsClient, StateOK, sso, SetStays
  <2>4. FramesOK'
    BY <1>0, <1>18, <2>3, Answered DEF UpdateWhoami
  <2> QED
    BY <1>0, <1>18, <2>3, <2>4 DEF UpdateWhoami, mgmt, sso, DataInv, StateOK,
       SessionsOK, LoginsAuthorised, AcknowledgedKept
<1>19. ASSUME NEW t \in Tasks, Cancel(t) PROVE FramesOK' /\ DataInv'
  <2>1. frame[t].session \in Sessions
    BY <1>0, <1>19 DEF Cancel, FrameOK
  <2>2. CASE /\ Fut(t) = "pending"
             /\ session' = [session EXCEPT ![frame[t].session].fut =
                                "cancelled"]
             /\ UNCHANGED frame
    <3>1. /\ session' \in [Sessions -> [fut : {"none", "pending", "set",
                                               "cancelled"},
                                        update : BOOLEAN, asker : BOOLEAN]]
          /\ \A j \in Sessions :
                /\ session'[j].asker = session[j].asker
                /\ session'[j].fut = IF j = frame[t].session THEN "cancelled"
                                     ELSE session[j].fut
      BY <1>0, <2>1, <2>2 DEF StateOK
    <3>2. SetStays /\ SessionsOK' /\ AcknowledgedKept'
      BY <1>0, <1>19, <2>1, <2>2, <3>1 DEF Cancel, Fut, SetStays, SessionsOK,
         AcknowledgedKept, StateOK
    <3>3. FramesOK'
      BY <1>0, <2>2, <3>2, Kept
    <3> QED
      BY <1>0, <1>19, <3>1, <3>2, <3>3 DEF Cancel, mgmt, DataInv, StateOK,
         DeviceFitsClient, LoginsAuthorised
  <2>3. CASE Fut(t) = "set" /\ Goto(t, "cancelled") /\ UNCHANGED session
    <3>1. SetStays
      BY <2>3 DEF SetStays
    <3>2. FramesOK'
      BY <1>0, <1>19, <2>1, <2>3, <3>1, Moved DEF Cancel, Fut
    <3> QED
      BY <1>0, <1>19, <2>3, <3>2 DEF Cancel, mgmt, DataInv, StateOK,
         SessionsOK, DeviceFitsClient, LoginsAuthorised, AcknowledgedKept
  <2> QED
    BY <1>19, <2>2, <2>3 DEF Cancel
<1>20. ASSUME NEW i \in Sessions, Complete(i) PROVE FramesOK' /\ DataInv'
  <2>1. /\ session' \in [Sessions -> [fut : {"none", "pending", "set",
                                             "cancelled"},
                                      update : BOOLEAN, asker : BOOLEAN]]
        /\ \A j \in Sessions :
              /\ session'[j].asker = session[j].asker
              /\ session'[j].fut = IF j = i THEN "set" ELSE session[j].fut
    BY <1>0, <1>20 DEF Complete, StateOK
  <2>2. SetStays /\ SessionsOK' /\ AcknowledgedKept'
    BY <1>0, <1>20, <2>1 DEF Complete, SetStays, SessionsOK,
       AcknowledgedKept, StateOK
  <2>3. FramesOK'
    BY <1>0, <1>20, <2>2, Kept DEF Complete
  <2> QED
    BY <1>0, <1>20, <2>1, <2>2, <2>3 DEF Complete, mgmt, DataInv, StateOK,
       DeviceFitsClient, LoginsAuthorised
<1>21. ASSUME UNCHANGED vars PROVE FramesOK' /\ DataInv'
  <2>1. DataInv' /\ SetStays
    BY <1>0, <1>21, OnlyFrames DEF vars, mgmt, sso, StateOK
  <2> QED
    BY <1>0, <1>21, <2>1, Kept DEF vars
<1> QED
  BY <1>1, <1>2, <1>3, <1>4, <1>5, <1>6, <1>7, <1>8, <1>9, <1>10, <1>11,
     <1>12, <1>13, <1>14, <1>15, <1>16, <1>17, <1>18, <1>19, <1>20, <1>21
     DEF Next, Handler

-----------------------------------------------------------------------------
(* The theorems                                                            *)

\* Every device that the homeserver made was asked for by requests of somebody
\* who was an administrator then (middleware.py auth, _do_login, _do_sso).
THEOREM Authorised == Spec => []LoginsAuthorised
BY InitIInv, StepIInv, IInvImplies, PTL DEF Spec

\* Every part of the state keeps its shape, and the stored device id is the
\* one that whoami named for the stored access token, if it named one and the
\* client was not made by POST /client/new (update_access_details,
\* _create_client).
THEOREM Devices == Spec => []DeviceOfToken
BY InitIInv, StepIInv, IInvImplies, PTL DEF Spec

\* A login token that complete_sso acknowledged was sent, or can be fetched, or
\* was dropped by the cancellation of the wait that held it (wait_sso), for as
\* long as the process lives.
THEOREM Acknowledged == Spec => []AcknowledgedKept
BY InitIInv, StepIInv, IInvImplies, PTL DEF Spec
=============================================================================

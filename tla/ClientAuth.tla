----------------------------- MODULE ClientAuth -----------------------------
(***************************************************************************)
(* Tokens of the management API (management/api/auth.py, login.py,         *)
(* middleware.py, config.py) and what administrators use them for in       *)
(* management/api/client_auth.py: registering, password login and single   *)
(* sign-on, up to the access details of the client they update.            *)
(*                                                                         *)
(* One Matrix account. The homeserver numbers the devices it makes; number *)
(* n is also the access token of device n. Token 0 belongs to another      *)
(* account. A request is a task; "flows", "login" and so on are the awaits *)
(* at which it may be suspended.                                           *)
(***************************************************************************)
EXTENDS Naturals, FiniteSets

CONSTANTS
    Tasks,          \* requests that may be in progress at the same time
    Sessions,       \* SSO session ids, drawn at random and never again
    MaxDevices,     \* bound on devices of the account
    Unnamed,        \* tokens whose whoami answer has no device id
    MaxRequests,    \* bound on requests
    MaxRestarts,    \* bound on restarts of maubot
    Null            \* Python's None

ASSUME BoundsAssumption ==
    MaxDevices \in Nat /\ MaxRequests \in Nat /\ MaxRestarts \in Nat
ASSUME NullAssumption == Null \notin Sessions \cup Nat

VARIABLES
    config,     \* server.unshared_secret and admins (root is always one)
    issued,     \* tokens of the management API in the hands of somebody
    restarts,
    requests,
    frame,      \* the requests in progress
    waiters,    \* the keys of sso_waiters
    session,    \* the requests and the futures in sso_waiters
    received,   \* sessions of this process with an acknowledged token
    dropped,    \* sessions whose wait was cancelled with the token in hand
    sent,       \* sessions whose login token was sent to the homeserver
    accepted,   \* and was accepted
    devices,    \* of the account; who asked for them
    client      \* the client of the account, as update_client leaves it

vars == <<config, issued, restarts, requests, frame, waiters, session,
          received, dropped, sent, accepted, devices, client>>
sso  == <<waiters, session, received, dropped, sent, accepted>>
mgmt == <<config, issued, restarts>>

Users   == {"root", "admin"}
Secrets == 0..MaxRestarts
Bearers == [user : Users, secret : Secrets]
Device  == 1..MaxDevices
Ids     == {d.id : d \in devices}

\* asker: whether an administrator asked; update: update_client is set; new:
\* _create_client() is called without a user id; token and device: the access
\* details to store.
Frames ==
    [pc : {"idle", "flows", "future", "cancelled", "nonce", "register",
           "login", "get", "cwhoami", "exists", "make", "uwhoami"},
     asker : BOOLEAN, update : BOOLEAN, new : BOOLEAN,
     session : Sessions \cup {Null},
     token : 0..MaxDevices, device : Device \cup {Null}]

NoFrame == [pc |-> "idle", asker |-> FALSE, update |-> FALSE,
            new |-> FALSE, session |-> Null, token |-> 0,
            device |-> Null]

-----------------------------------------------------------------------------
(* Tokens of the management API                                            *)

\* config.is_admin()
IsAdmin(u) == u = "root" \/ u \in config.admins

\* is_valid_token(): the signature and the user.
IsValid(b) == b.secret = config.secret /\ IsAdmin(b.user)

\* Mutant: the exception for the SSO answer covers /client/auth as well.
WidelyAllowed(path, b) == path # "client" \/ IsValid(b)

\* The auth middleware; a request without a token is one with a token that
\* is not valid.
Allowed(path, b) == path = "complete" \/ IsValid(b)

\* POST /auth/login with the secret, for any user name, or with the password
\* of an administrator other than root.
LogIn(u) ==
    /\ issued' = issued \cup {[user |-> u, secret |-> config.secret]}
    /\ UNCHANGED <<config, restarts, requests, frame, sso, devices, client>>

\* maubot stops, the operator may remove the administrator from the config
\* file or ask for a new secret, and maubot starts again. The sessions are
\* gone, with the login tokens that were acknowledged and not yet sent.
Restart ==
    /\ restarts < MaxRestarts
    /\ restarts' = restarts + 1
    /\ config' \in [secret : {config.secret, config.secret + 1},
                    admins : {config.admins, {}}]
    /\ frame' = [t \in Tasks |-> NoFrame]
    /\ waiters' = {}
    /\ received' = {}
    /\ UNCHANGED <<issued, requests, session, dropped, sent, accepted, devices,
                   client>>

-----------------------------------------------------------------------------
(* Requests                                                                *)

Request(t, path, b) ==
    /\ frame[t].pc = "idle"
    /\ requests < MaxRequests
    /\ Allowed(path, b)
    /\ requests' = requests + 1

Goto(t, l) == frame' = [frame EXCEPT ![t].pc = l]

Answer(t) == frame' = [frame EXCEPT ![t] = NoFrame]

\* What a request awaits fails: the exception is turned into an answer, by the
\* handler or by the error middleware.
Failed(t) ==
    /\ frame[t].pc \in {"flows", "nonce", "register", "login", "cwhoami",
                        "uwhoami"}
    /\ Answer(t)
    /\ UNCHANGED <<mgmt, requests, sso, devices, client>>

Register(t, b) ==
    /\ Request(t, "register", b)
    /\ \E u \in BOOLEAN :
           frame' = [frame EXCEPT ![t] = [NoFrame EXCEPT !.pc = "nonce",
                                          !.asker = IsValid(b), !.update = u]]
    /\ UNCHANGED <<mgmt, sso, devices, client>>

Nonce(t) ==
    /\ frame[t].pc = "nonce"
    /\ Goto(t, "register")
    /\ UNCHANGED <<mgmt, requests, sso, devices, client>>

\* The device that the homeserver makes for a registration or a login; l is
\* where the request goes if it is to update the client.
NewDevice(t, l) ==
    LET n == Cardinality(devices) + 1 IN
    /\ n <= MaxDevices
    /\ devices' = devices \cup {[id |-> n, asked |-> frame[t].asker]}
    /\ frame' = [frame EXCEPT ![t] =
           IF frame[t].update
           THEN [frame[t] EXCEPT !.pc = l, !.token = n, !.device = n]
           ELSE NoFrame]

\* An account is registered once.
Registered(t) ==
    /\ frame[t].pc = "register"
    /\ devices = {}
    /\ NewDevice(t, "cwhoami")
    /\ UNCHANGED <<mgmt, requests, sso, client>>

\* POST login: by password, or the start of a single sign-on.
Login(t, b) ==
    /\ Request(t, "login", b)
    /\ \E u \in BOOLEAN, l \in {"login", "flows"} :
           frame' = [frame EXCEPT ![t] = [NoFrame EXCEPT !.pc = l,
                                          !.asker = IsValid(b), !.update = u]]
    /\ UNCHANGED <<mgmt, sso, devices, client>>

\* _do_sso(): the session keeps the request.
Flows(t) ==
    /\ frame[t].pc = "flows"
    /\ \E i \in {j \in Sessions : session[j].fut = "none"} :
           /\ waiters' = waiters \cup {i}
           /\ session' = [session EXCEPT ![i] =
                  [fut |-> "pending", update |-> frame[t].update,
                   asker |-> frame[t].asker]]
    /\ Answer(t)
    /\ UNCHANGED <<mgmt, requests, received, dropped, sent, accepted, devices,
                   client>>

\* wait_sso(); an unknown id raises KeyError and changes nothing.
Wait(t, b, i) ==
    /\ Request(t, "wait", b)
    /\ i \in waiters
    /\ frame' = [frame EXCEPT ![t] =
           [NoFrame EXCEPT !.pc = "future", !.session = i,
                           !.update = session[i].update,
                           !.asker = IsValid(b) /\ session[i].asker]]
    /\ UNCHANGED <<mgmt, sso, devices, client>>

Fut(t) == session[frame[t].session].fut

\* Mutant: the session stays.
UnpoppedWaited(t) ==
    /\ frame[t].pc = "future"
    /\ Fut(t) = "set"
    /\ sent' = sent \cup {frame[t].session}
    /\ Goto(t, "login")
    /\ UNCHANGED <<mgmt, requests, waiters, session, received, dropped,
                   accepted, devices, client>>

\* The future has its token: the session is removed and the login sent.
Waited(t) ==
    /\ frame[t].pc = "future"
    /\ Fut(t) = "set"
    /\ waiters' = waiters \ {frame[t].session}
    /\ sent' = sent \cup {frame[t].session}
    /\ Goto(t, "login")
    /\ UNCHANGED <<mgmt, requests, session, received, dropped, accepted,
                   devices, client>>

\* The task of a wait is cancelled. That cancels a future that is pending, and
\* with it every wait on it; the waits notice when they run again.
Cancel(t) ==
    /\ frame[t].pc = "future"
    /\ \/ /\ Fut(t) = "pending"
          /\ session' = [session EXCEPT ![frame[t].session].fut = "cancelled"]
          /\ UNCHANGED frame
       \/ /\ Fut(t) = "set"
          /\ Goto(t, "cancelled")
          /\ UNCHANGED session
    /\ UNCHANGED <<mgmt, requests, waiters, received, dropped, sent, accepted,
                   devices, client>>

Cancelled(t) ==
    /\ \/ frame[t].pc = "cancelled"
       \/ frame[t].pc = "future" /\ Fut(t) = "cancelled"
    /\ waiters' = waiters \ {frame[t].session}
    /\ dropped' = IF Fut(t) = "set" THEN dropped \cup {frame[t].session}
                  ELSE dropped
    /\ Answer(t)
    /\ UNCHANGED <<mgmt, requests, session, received, sent, accepted, devices,
                   client>>

\* Mutant: a cancelled future is taken for a pending one.
HastyComplete(i) ==
    /\ i \in waiters
    /\ session[i].fut \in {"pending", "cancelled"}
    /\ session' = IF session[i].fut = "pending"
                  THEN [session EXCEPT ![i].fut = "set"] ELSE session
    /\ received' = received \cup {i}
    /\ UNCHANGED <<mgmt, requests, frame, waiters, dropped, sent, accepted,
                   devices, client>>

\* complete_sso(), open to everybody: the browser comes back with a token. An
\* unknown session, a future that is done and a missing token change nothing.
Complete(i) ==
    /\ i \in waiters
    /\ session[i].fut = "pending"
    /\ session' = [session EXCEPT ![i].fut = "set"]
    /\ received' = received \cup {i}
    /\ UNCHANGED <<mgmt, requests, frame, waiters, dropped, sent, accepted,
                   devices, client>>

\* _do_login(): the homeserver takes the password, or the token if this is the
\* first login with it.
LoggedIn(t) ==
    /\ frame[t].pc = "login"
    /\ frame[t].session \notin accepted
    /\ accepted' = accepted \cup ({frame[t].session} \ {Null})
    /\ NewDevice(t, "get")
    /\ UNCHANGED <<mgmt, requests, waiters, session, received, dropped, sent,
                   client>>

-----------------------------------------------------------------------------
(* The access details of the client                                        *)

\* PUT /client/{id} with access details that an administrator has; POST
\* /client/new with the same.
Put(t, b) ==
    /\ Request(t, "client", b)
    /\ \E n \in {0} \cup Ids, d \in Ids \cup {Null}, new \in BOOLEAN :
           frame' = [frame EXCEPT ![t] =
               [NoFrame EXCEPT !.pc = IF new THEN "cwhoami" ELSE "get",
                               !.asker = IsValid(b), !.new = new, !.token = n,
                               !.device = d]]
    /\ UNCHANGED <<mgmt, sso, devices, client>>

\* _create_or_update_client(), and the start of update_access_details(): a
\* missing device id is read here, before whoami.
Get(t) ==
    /\ frame[t].pc = "get"
    /\ LET d == IF frame[t].device # Null \/ client = Null
                THEN frame[t].device ELSE client.device IN
       frame' = [frame EXCEPT ![t] =
           IF client = Null THEN [frame[t] EXCEPT !.pc = "cwhoami"]
           ELSE IF client.token = frame[t].token /\ client.device = d
           THEN NoFrame
           ELSE [frame[t] EXCEPT !.pc = "uwhoami", !.device = d]]
    /\ UNCHANGED <<mgmt, requests, sso, devices, client>>

\* The answer to whoami passes: it names the device, or no device, or there is
\* none to compare it with.
DeviceFits(f) == f.device \in {Null, f.token} \/ f.token \in Unnamed

\* whoami in _create_client(). Without a user id the device is not compared;
\* another account is another client.
CreateWhoami(t) ==
    /\ frame[t].pc = "cwhoami"
    /\ IF frame[t].token = 0 THEN Answer(t)
       ELSE IF frame[t].new THEN Goto(t, "exists")
       ELSE IF DeviceFits(frame[t]) THEN Goto(t, "make")
       ELSE Answer(t)
    /\ UNCHANGED <<mgmt, requests, sso, devices, client>>

Exists(t) ==
    /\ frame[t].pc = "exists"
    /\ IF client = Null THEN Goto(t, "make") ELSE Answer(t)
    /\ UNCHANGED <<mgmt, requests, sso, devices, client>>

Details(f) == [token |-> f.token, device |-> f.device, new |-> f.new]

\* Client.get() with the details: a client that was made in the meantime keeps
\* its own.
Make(t) ==
    /\ frame[t].pc = "make"
    /\ client' = IF client = Null THEN Details(frame[t]) ELSE client
    /\ Answer(t)
    /\ UNCHANGED <<mgmt, requests, sso, devices>>

\* Mutant: the device of whoami is not compared.
UncheckedWhoami(t) ==
    /\ frame[t].pc = "uwhoami"
    /\ client' = IF frame[t].token # 0 THEN Details(frame[t]) ELSE client
    /\ Answer(t)
    /\ UNCHANGED <<mgmt, requests, sso, devices>>

\* whoami in update_access_details()
UpdateWhoami(t) ==
    /\ frame[t].pc = "uwhoami"
    /\ client' = IF frame[t].token # 0 /\ DeviceFits(frame[t])
                 THEN Details(frame[t]) ELSE client
    /\ Answer(t)
    /\ UNCHANGED <<mgmt, requests, sso, devices>>

-----------------------------------------------------------------------------

Init ==
    /\ config = [secret |-> 0, admins |-> {"admin"}]
    /\ issued = {}
    /\ restarts = 0
    /\ requests = 0
    /\ frame = [t \in Tasks |-> NoFrame]
    /\ waiters = {}
    /\ session = [i \in Sessions |-> [fut |-> "none", update |-> FALSE,
                                      asker |-> FALSE]]
    /\ received = {}
    /\ dropped = {}
    /\ sent = {}
    /\ accepted = {}
    /\ devices = {}
    /\ client = Null

Handler(t) ==
    \/ Failed(t) \/ Nonce(t) \/ Registered(t) \/ Flows(t) \/ Waited(t)
    \/ Cancelled(t) \/ LoggedIn(t) \/ Get(t) \/ CreateWhoami(t) \/ Exists(t)
    \/ Make(t) \/ UpdateWhoami(t)

Next ==
    \/ \E u \in Users : LogIn(u)
    \/ Restart
    \/ \E t \in Tasks, b \in issued :
           \/ Register(t, b) \/ Login(t, b) \/ Put(t, b)
           \/ \E i \in Sessions : Wait(t, b, i)
    \/ \E t \in Tasks : Handler(t) \/ Cancel(t)
    \/ \E i \in Sessions : Complete(i)

Spec == Init /\ [][Next]_vars

\* A request goes on once what it awaits is there, and the homeserver answers
\* or the connection fails. Nobody has to wait for a session or complete it.
FairSpec == Spec /\ \A t \in Tasks : WF_vars(Handler(t))

-----------------------------------------------------------------------------
(* Properties                                                              *)

\* Every part of the state has its shape; the client has an access token of its
\* own account.
TypeOK ==
    /\ config \in [secret : Secrets, admins : SUBSET Users]
    /\ issued \subseteq Bearers
    /\ restarts \in 0..MaxRestarts
    /\ requests \in 0..MaxRequests
    /\ frame \in [Tasks -> Frames]
    /\ session \in [Sessions -> [fut : {"none", "pending", "set", "cancelled"},
                                 update : BOOLEAN, asker : BOOLEAN]]
    /\ waiters \cup received \cup dropped \cup sent \cup accepted
           \subseteq Sessions
    /\ devices \subseteq [id : Device, asked : BOOLEAN]
    /\ client \in [token : Device, device : Device \cup {Null},
                   new : BOOLEAN] \cup {Null}

\* Every device was asked for by requests that an administrator of that time
\* made: neither the open path of the SSO answer, nor the token of a removed
\* administrator, nor one signed with an old secret gets maubot to log in.
LoginsAuthorised == \A d \in devices : d.asked

\* The device id of the client is the one its access token belongs to, however
\* logins and updates overlap, if whoami names the device of that token:
\* device_id is optional in the answer, and without it nothing is compared.
\* POST /client/new does not compare them either. Whose account a token
\* belongs to is compared in every case (TypeOK).
DeviceOfToken ==
    /\ TypeOK
    /\ client # Null /\ ~client.new /\ client.token \notin Unnamed =>
           client.device \in {Null, client.token}

\* A login token that maubot acknowledged is not lost while maubot runs: it
\* was sent to the homeserver, or a wait can still fetch it, or the wait that
\* had it was cancelled. A restart does lose it: sso_waiters is only in memory,
\* so the sessions that are looked at are those of the running process.
AcknowledgedKept ==
    \A i \in received \ (sent \cup dropped) :
        i \in waiters /\ session[i].fut = "set"

\* A session with its token and with a wait is used up: every wait on it comes
\* to an end and the session is forgotten.
SessionEnds ==
    \A i \in Sessions :
        (i \in received /\ \E t \in Tasks : frame[t].session = i)
            ~> (i \notin waiters /\ \A t \in Tasks : frame[t].session # i)
=============================================================================

---------------------------- MODULE InstanceLife ----------------------------
(***************************************************************************)
(* What an instance promises to its users, without the coroutines: it is   *)
(* stopped, running or deleted; it is linked to a client and a plugin; a   *)
(* running instance keeps both and runs one plugin object, which was never *)
(* run before.  PluginInstance implements this when calls do not overlap.  *)
(***************************************************************************)
EXTENDS Naturals

CONSTANTS Users, Types, MaxStarts, Null

VARIABLES
    status,     \* "stopped", "running" or "deleted"
    user,       \* the client, Null before load()
    type,       \* the plugin, Null before load()
    object,     \* the plugin object that runs, 0 if none does
    made        \* plugin objects made so far, in attempts to start

life == <<status, user, type, object, made>>

Linked == user # Null /\ type # Null

Init ==
    /\ status = "stopped"
    /\ user = Null
    /\ type = Null
    /\ object = 0
    /\ made = 0

\* load() links what is not linked yet, the client after the loader.
Link ==
    /\ status = "stopped"
    /\ user' \in {user} \cup (IF user = Null THEN Users ELSE {})
    /\ type' \in {type} \cup (IF type = Null THEN Types ELSE {})
    /\ UNCHANGED <<status, object, made>>

\* An attempt to start makes a plugin object; it may come to nothing.
Attempt ==
    /\ status = "stopped"
    /\ Linked
    /\ made < MaxStarts
    /\ made' = made + 1
    /\ UNCHANGED <<status, user, type, object>>

\* Only the newest object is ever run.
Run ==
    /\ status = "stopped"
    /\ Linked
    /\ made > 0
    /\ status' = "running"
    /\ object' = made
    /\ UNCHANGED <<user, type, made>>

Stop ==
    /\ status = "running"
    /\ status' = "stopped"
    /\ object' = 0
    /\ UNCHANGED <<user, type, made>>

Switch ==
    /\ status = "stopped"
    /\ \/ user' \in Users /\ UNCHANGED type
       \/ type' \in Types /\ UNCHANGED user
    /\ UNCHANGED <<status, object, made>>

Delete ==
    /\ status = "stopped"
    /\ status' = "deleted"
    /\ UNCHANGED <<user, type, object, made>>

Next == Link \/ Attempt \/ Run \/ Stop \/ Switch \/ Delete

Spec == Init /\ [][Next]_life
=============================================================================

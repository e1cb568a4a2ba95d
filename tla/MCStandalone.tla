---------------------------- MODULE MCStandalone ----------------------------
(* The configurations of the run: all of them without a sync loop, and those *)
(* that differ for the sync loop.                                            *)
EXTENDS Standalone

Unsynced == {c \in Configs : ~c.sync /\ c.ignore = {}}

Ignoring ==
    {c \in Configs : c.sync /\ ~c.crypto /\ ~c.web /\ c.named
                     /\ c.database = "none" /\ c.device = "right"}

Encrypted ==
    {c \in Configs : c.sync /\ c.crypto /\ c.web /\ c.database = "asyncpg"
                     /\ c.ignore = {"first_sync", "initial_sync"}}

MCSample == Unsynced \cup Ignoring \cup Encrypted
=============================================================================

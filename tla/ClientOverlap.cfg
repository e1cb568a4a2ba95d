SPECIFICATION Spec
CONSTANTS
    Tasks = {t1, t2}
    Servers = {h1}
    Tokens = {a1, a2}
    Crypto = TRUE
    MaxTry = 1
    MaxSwaps = 1
    MaxCalls = 3
    Overlap = TRUE
    Null = Null
SYMMETRY Interchangeable
CHECK_DEADLOCK FALSE
INVARIANTS
    StartedVerified
    OneSyncLoop

SPECIFICATION FairSpec
CONSTANTS
    Tasks = {t1, t2}
    Servers = {h1}
    Tokens = {a1, a2}
    Crypto = TRUE
    MaxTry = 8
    MaxSwaps = 1
    MaxCalls = 3
    Overlap = FALSE
    Null = Null
CHECK_DEADLOCK FALSE
INVARIANTS
    TypeOK
    SyncsWhenAsked
PROPERTY Settles

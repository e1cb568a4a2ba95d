SPECIFICATION FairSpec
CONSTANTS
    Conns = {c1, c2}
    MaxLines = 1
INVARIANTS
    ListenersLive
    NothingLost
PROPERTY
    StrangersLeave
CHECK_DEADLOCK FALSE

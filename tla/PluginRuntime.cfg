SPECIFICATION FairSpec
CONSTANTS
    Tasks = {k1, k2}
    PoolSize = 1
    MaxConns = 2
    MaxRuns = 2
    MaxMade = 2
    Postgres = TRUE
    Null = Null
CHECK_DEADLOCK FALSE
INVARIANTS
    PathClean
    DrainedIsFinal
    NoStrayTasks
    OwnData
PROPERTY StopEnds

SPECIFICATION FairSpec
CONSTANTS
    MaxEvents = 2
    MaxRuns = 2
    Sample <- MCSample
INVARIANTS
    EventsOnce
    EventsAccounted
    StopComplete
    OwnKeys
PROPERTY
    Settles
CHECK_DEADLOCK FALSE

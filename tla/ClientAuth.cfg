SPECIFICATION FairSpec
CONSTANTS
    Tasks = {t1, t2}
    Sessions = {s1}
    MaxDevices = 3
    Unnamed = {2}
    MaxRequests = 3
    MaxRestarts = 1
    Null = Null
INVARIANTS
    LoginsAuthorised
    DeviceOfToken
    AcknowledgedKept
PROPERTY
    SessionEnds
CHECK_DEADLOCK FALSE

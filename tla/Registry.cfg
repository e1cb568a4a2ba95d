SPECIFICATION Spec
CONSTANTS
    Tasks = {t1, t2}
    Users = {u1, u2}
    Ids = {i1, i2}
    MaxObjects = 4
    MaxCalls = 2
    Null = Null
SYMMETRY Interchangeable
CHECK_DEADLOCK FALSE
INVARIANTS
    OneObjectPerKey
    InUse
    CacheIsTables

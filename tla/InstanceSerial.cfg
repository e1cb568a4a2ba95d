SPECIFICATION Spec
CONSTANTS
    Tasks = {t1}
    Users = {u1, u2}
    Types = {p1, p2}
    Configs = {c1, c2}
    Engines = {sqlite}
    Metas <- BothOrNone
    MaxStarts = 2
    Overlap = FALSE
    Null = Null
CONSTRAINT TwoFaults
SYMMETRY Interchangeable
CHECK_DEADLOCK FALSE
INVARIANTS
    TypeOK
    RunningWired
    LeaksOnlyAfterFailure
    RowMatchesMemory
PROPERTY
    ImplementsLife

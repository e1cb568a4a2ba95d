SPECIFICATION Spec
CONSTANTS
    Tasks = {t1, t2}
    Users = {u1, u2}
    Types = {p1, p2}
    Configs = {c1}
    Engines = {}
    Metas <- WebappOnly
    MaxStarts = 1
    Overlap = TRUE
    Null = Null
CONSTRAINT OneLapse
VIEW Control
SYMMETRY Interchangeable
CHECK_DEADLOCK FALSE
INVARIANTS
    RefsMatch
    LoaderInstalled

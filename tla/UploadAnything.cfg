SPECIFICATION Spec
CONSTANTS
    Tasks = {t1, t2}
    Instances = {i1}
    Contents <- AllKinds
    MaxUploads = 2
    Overlap = TRUE
    Null = Null
CHECK_DEADLOCK FALSE
INVARIANT TypeOK

SPECIFICATION Spec
CONSTANTS
    Tasks = {t1}
    Instances = {i1, i2}
    Contents <- OneBuildEach
    MaxUploads = 3
    Overlap = FALSE
    Null = Null
CHECK_DEADLOCK FALSE
INVARIANTS
    OneFile
    RunsWhatIsStored
    PluginSurvives

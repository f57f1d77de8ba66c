SPECIFICATION Spec
CONSTANTS
    Tasks = {t1}
    Resources = {}
    Sessions = {s1}
    Specialists = {t1}
    Kinds = {"teardown"}
    Durations = {1}
    MaxOps = 1
    MaxTime = 2
    ClockMayStepBack = FALSE
PROPERTIES
    ArchiveReplays
CHECK_DEADLOCK FALSE

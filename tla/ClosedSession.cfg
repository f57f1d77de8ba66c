SPECIFICATION FairSpec
CONSTANTS
    Tasks = {t1}
    Resources = {}
    Sessions = {s1}
    Specialists = {t1}
    Kinds = {"provider", "teardown"}
    Durations = {1}
    MaxOps = 2
    MaxTime = 2
    ClockMayStepBack = FALSE
PROPERTIES
    EveryStaleInputConverges
CHECK_DEADLOCK FALSE

SPECIFICATION FairSpec
CONSTANTS
    Tasks = {t1}
    Resources = {}
    Sessions = {s1, s2}
    Specialists = {t1}
    Kinds = {"provider", "teardown"}
    Durations = {1}
    MaxOps = 2
    MaxTime = 1
    ClockMayStepBack = FALSE
PROPERTIES
    InterruptedInputConverges
    StaleInputConverges
CHECK_DEADLOCK FALSE

SPECIFICATION Spec
CONSTANTS
    Tasks = {t1}
    Resources = {}
    Sessions = {s1}
    Specialists = {}
    Kinds = {"provider"}
    Durations = {1}
    MaxOps = 1
    MaxTime = 3
    ClockMayStepBack = FALSE
INVARIANTS
    NoByteTwice
CHECK_DEADLOCK FALSE

SPECIFICATION Spec
CONSTANTS
    Tasks = {t1}
    Resources = {}
    Sessions = {s1}
    Specialists = {}
    Kinds = {"provider"}
    Durations = {1}
    MaxOps = 1
    MaxTime = 2
    ClockMayStepBack = TRUE
INVARIANTS
    UncertainRowsPassValidator
CHECK_DEADLOCK FALSE

SPECIFICATION Spec
CONSTANTS
    Tasks = {t1}
    Resources = {r1}
    Sessions = {s1, s2}
    Specialists = {t1}
    Kinds = {"teardown", "release", "provider", "hold"}
    Durations = {1}
    MaxOps = 1
    MaxTime = 3
    ClockMayStepBack = TRUE
INVARIANTS
    LiveRowsPassValidator
    FinishedRowsPassValidator
PROPERTIES
    UncertaintyPassesValidator
CHECK_DEADLOCK FALSE

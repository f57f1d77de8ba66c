SPECIFICATION Spec
CONSTANTS
    Tasks = {t1}
    Resources = {r1}
    Sessions = {s1}
    Specialists = {}
    Kinds = {"release", "teardown", "provider", "hold"}
    Durations = {1}
    MaxOps = 2
    MaxTime = 2
    ClockMayStepBack = FALSE
INVARIANTS
    ProviderAtMostOnce
    RetryNeedsAbsenceProof
    ReleasingHasOneOperation
    AcceptedCloseIsCurrent
    ArchivedOwnsNothing
PROPERTIES
    OutcomesAreFinal
    LiveLeaseIsExclusive
CHECK_DEADLOCK FALSE

SPECIFICATION Spec
CONSTANTS
    Procs = {p1, p2}
    Root = p1
    MaxMessages = 2
    MaxFaults = 2
    MaxLateDrains = 1
    MayFailMonitor = TRUE
    MayHintEarly = TRUE
INVARIANTS
    ReleasedMeansGone
    ClosedMeansComplete
    AuthorityStaysUsable
    CompletedIsNeverRerun
CHECK_DEADLOCK FALSE

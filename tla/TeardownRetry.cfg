SPECIFICATION FairSpec
CONSTANTS
    Procs = {p1, p2}
    Root = p1
    MaxMessages = 2
    MaxFaults = 2
    MaxLateDrains = 0
    MayFailMonitor = FALSE
    MayHintEarly = FALSE
INVARIANT
    ZeroFactIsKept
PROPERTY
    CloseConverges
CHECK_DEADLOCK FALSE

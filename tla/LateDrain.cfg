SPECIFICATION Spec
CONSTANTS
    Procs = {p1, p2}
    Root = p1
    MaxMessages = 2
    MaxFaults = 1
    MaxLateDrains = 1
    MayFailMonitor = FALSE
    MayHintEarly = FALSE
INVARIANT
    ZeroFactIsKept
CHECK_DEADLOCK FALSE

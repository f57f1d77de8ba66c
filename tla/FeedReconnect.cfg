CONSTANTS
    MaxEvents = 2
    MaxSubs = 2
    MaxConns = 2
    Batch = 2
    PageItems = 1
    RegistryCap = 2
    CriticalCap = 1
    DurableCap = 1
    ControlCap = 2
    InboxCap = 2
    RetiredCap = 1
SPECIFICATION Spec
CHECK_DEADLOCK FALSE
INVARIANTS NoMisdelivery NeverSilentlyStale
PROPERTY ImplementsFeed

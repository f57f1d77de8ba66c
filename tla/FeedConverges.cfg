CONSTANTS
    MaxEvents = 2
    MaxSubs = 2
    MaxConns = 2
    Batch = 2
    PageItems = 1
    RegistryCap = 1
    CriticalCap = 1
    DurableCap = 1
    ControlCap = 2
    InboxCap = 2
    RetiredCap = 1
SPECIFICATION FairSpec
CHECK_DEADLOCK FALSE
PROPERTY Converges
INVARIANTS NoForeignFrame NoOrphanTail

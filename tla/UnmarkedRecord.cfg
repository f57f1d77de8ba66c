CONSTANTS
    Keys = {k1}
    Subs = {s1}
    Conns = {c1}
    PerOutput = 2
    NoKey = NoKey
    NoSub = NoSub
    NoConn = NoConn
    MaxSeq = 2
SPECIFICATION FairSpec
CHECK_DEADLOCK FALSE
PROPERTY EveryRecordIsTold

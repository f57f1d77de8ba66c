CONSTANTS
    Keys = {k1}
    Subs = {s1, s2, s3}
    Conns = {c1}
    PerOutput = 2
    NoKey = NoKey
    NoSub = NoSub
    NoConn = NoConn
    MaxSeq = 2
SPECIFICATION FairSpec
CHECK_DEADLOCK FALSE
INVARIANTS WatchCountsSubscriptions NoLostWake NoLostNotice NoticeIsNews
PROPERTY EventuallyTold

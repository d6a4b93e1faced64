CONSTANTS
    t1 = t1
    t2 = t2
    t3 = t3
    a1 = a1
    NoTid = NoTid
    Tids <- MCTids
    Addrs <- MCAddrs
    MainTid = t1
    MaxRef = 1

SPECIFICATION AttachSpec
INVARIANT AttachFailureReleasesTarget
CHECK_DEADLOCK FALSE

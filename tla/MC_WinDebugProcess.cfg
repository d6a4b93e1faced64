CONSTANTS
    t1 = t1
    t2 = t2
    t3 = t3
    a1 = a1
    a2 = a2
    NoTid = NoTid
    Tids <- MCTids
    Addrs <- MCAddrs
    MainTid = t1
    MaxRef = 2

SPECIFICATION FairSpec

INVARIANT TypeOK
INVARIANT ThreadTableMatchesOS
INVARIANT NoWaitOnFrozenTarget
INVARIANT NoTrapVisibleWhenStopped
PROPERTY InterruptStopsTarget
PROPERTY ImplementsExecControl
PROPERTY ContinueOnlyArmed
PROPERTY ImplementsBreakpointContract

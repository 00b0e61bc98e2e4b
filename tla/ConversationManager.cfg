SPECIFICATION Spec
CONSTANTS
    c1 = c1
    c2 = c2
    Callers <- MCCallers
    NoCaller = NoCaller
    MaxBackends = 2
\* Once the bound on backends is reached a call may find nothing to do.
CHECK_DEADLOCK FALSE
INVARIANTS
    TypeOK
    OrphanHasCause
    BuriedLeavesMap
    StuckActiveHasCause
PROPERTIES
    BackendsFollowContract
    DeadAreBuried

SPECIFICATION FairSpec
CONSTANTS
    l1 = l1
    l2 = l2
    Leases = {l1, l2}
    SendBuffer = 2
    MaxSessions = 2
    MaxFaults = 1
INVARIANTS
    TypeOK
    HonestWorkerIsTrusted
    LossHasACause
PROPERTIES
    ImplementsExecutorContract
    StopReturns
    EveryLeaseEnds
CHECK_DEADLOCK FALSE

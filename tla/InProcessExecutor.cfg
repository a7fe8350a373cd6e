SPECIFICATION FairSpec
CONSTANTS
    l1 = l1
    l2 = l2
    l3 = l3
    w1 = w1
    w2 = w2
    None = None
    Leases = {l1, l2, l3}
    Threads = {w1, w2}
INVARIANTS
    QuietOnceStopped
PROPERTIES
    ImplementsExecutorContract
    LeasesSettle
CHECK_DEADLOCK FALSE

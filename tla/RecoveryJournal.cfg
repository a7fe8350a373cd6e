SPECIFICATION FairSpec
CONSTANTS
    decode = decode
    score = score
    merge = merge
    shared = shared
    d1 = d1
    d2 = d2
    s1 = s1
    m1 = m1
    Tasks <- ThreeTasks
    Deps <- JoinDeps
    Blobs = {shared, d1, d2, s1, m1}
    Results <- SharedResults
    MaxFaults = 5
INVARIANTS
    TypeOK
    DurableRows
    NoGarbage
    SinkAccepts
PROPERTIES
    NoWorkLost
    ImplementsDurableResults
    BuildFinishes
CHECK_DEADLOCK FALSE

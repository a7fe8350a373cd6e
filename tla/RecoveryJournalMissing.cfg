SPECIFICATION Spec
CONSTANTS
    decode = decode
    score = score
    merge = merge
    shared = shared
    d1 = d1
    d2 = d2
    s1 = s1
    m1 = m1
    Tasks <- ThreeTasks
    Deps <- JoinDeps
    Blobs = {shared, d1, d2, s1, m1}
    Results <- SharedResults
    MaxFaults = 3
INVARIANTS
    NeverMissing
CHECK_DEADLOCK FALSE

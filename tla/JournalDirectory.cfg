SPECIFICATION FairSpec
CONSTANTS
    p1 = p1
    p2 = p2
    Processes <- TwoProcesses
    Modes = {"require_new", "resume", "fresh"}
    MaxStarts = 4
    OverlapStarts = 2
    MaxRelinkRetries = 1
INVARIANTS
    QuietlyOwned
    QuietlyRecovers
PROPERTIES
    LockExcludes
    Settles
CHECK_DEADLOCK FALSE

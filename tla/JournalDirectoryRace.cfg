SPECIFICATION Spec
CONSTANTS
    p1 = p1
    p2 = p2
    Processes <- TwoProcesses
    Modes = {"require_new", "resume", "fresh"}
    MaxStarts = 1
    OverlapStarts = 3
    MaxRelinkRetries = 1
INVARIANTS
    JournalIsOwned
CHECK_DEADLOCK FALSE

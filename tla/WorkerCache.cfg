SPECIFICATION Spec
CONSTANTS
    s1 = s1
    s2 = s2
    task = task
    x = x
    c1 = c1
    c2 = c2
    Nobody = Nobody
    Sessions = {s1, s2}
    Processes = {task}
    Owner <- OwnedByFirst
    Coordinators = {c1, c2}
    Coordinator <- TwoCoordinators
    Blobs = {x}
    MaxBlobs = 0
    MaxEvents = 2
    MaxFaults = 1
INVARIANTS
    TypeOK
    PinsHonoured
    ReleasedAreDeleted
    BudgetEnforced
CHECK_DEADLOCK FALSE

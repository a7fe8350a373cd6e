SPECIFICATION FairSpec
CONSTANTS
    c1 = c1
    c2 = c2
    small = small
    large = large
    u1 = u1
    u2 = u2
    u3 = u3
    t1 = t1
    Coordinators = {c1, c2}
    Types = {small, large}
    Leases = {u1, u2, u3, t1}
    Of <- LeaseCoordinator
    TypeOf <- LeaseType
    Declared <- Slots
    Need <- Peaks
    Memory = 3
    MaxFaults = 1
INVARIANTS
    TypeOK
    SlotsBounded
PROPERTIES
    NoCoordinatorStarves
    NoTypeStarves
    WaitEnds
CHECK_DEADLOCK FALSE

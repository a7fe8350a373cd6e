SPECIFICATION FairSpec
CONSTANTS
    a = a
    b = b
    c = c
    Tasks <- ChainTasks
    Deps <- ChainDeps
    Rank <- ChainRank
    NumExecutors = 2
    Slots <- MixedSlots
    Accepts <- SomeAccept
    RepeatedLosses = {2}
    MaxAttempts <- TwoAttempts
    QuarantineAfter = 2
    PreferDifferent = TRUE
    Speculative = FALSE
    Digests = {"d1"}
    MaxRejections = 1
INVARIANTS
    TypeOK
    LeaseBookkeeping
    NoTaskLost
    RetriesBounded
PROPERTIES
    LossesShareAnEvent
    ImplementsContract
    Terminates
    CancelEndsRun

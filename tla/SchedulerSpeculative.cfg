SPECIFICATION Spec
CONSTANTS
    a = a
    b = b
    c = c
    Tasks <- PairTasks
    Deps <- FreePairDeps
    Rank <- PairRank
    NumExecutors = 2
    Slots <- MixedSlots
    Accepts <- AllAccept
    RepeatedLosses = {1, 2}
    MaxAttempts <- TwoAttempts
    QuarantineAfter = 2
    PreferDifferent = TRUE
    Speculative = TRUE
    Digests = {"d1", "d2"}
    MaxRejections = 1
INVARIANTS
    CommittedExactlyOnce
    SuccessIsDeterministic
PROPERTIES
    CommitIsFinal

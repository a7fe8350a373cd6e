SPECIFICATION Spec
CONSTANTS
    a = a
    b = b
    c = c
    Tasks <- PairTasks
    Deps <- PairDeps
    Rank <- PairRank
    NumExecutors = 2
    Slots <- OneSlot
    Accepts <- AllAccept
    RepeatedLosses = {2}
    MaxAttempts <- TwoAttempts
    QuarantineAfter = 1
    PreferDifferent = TRUE
    Speculative = FALSE
    Digests = {"d1"}
    MaxRejections = 1
INVARIANTS
    NoUsableExecutorIsTrue

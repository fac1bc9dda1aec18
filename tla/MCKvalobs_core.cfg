CONSTANTS
    k1 = k1
    k2 = k2
    w1 = w1
    w2 = w2
    Key = {k1}
    Aggregated = {}
    WholeHour = {k1}
    Expected = {k1}
    QaIds <- OnlyUnassigned
    MaxId = 2
    MaxFaults = 1
    Filters <- DefaultFilter
    Worker = {w1, w2}
    QaIdOf <- NoQaIds
    Mortal = {w2}
    Recent = {k1}
    SelectLimit = 2
    FailedLimit = 10
    SlowWorkers = FALSE
    CheckForMissingObs = TRUE
SPECIFICATION FairSpec
INVARIANTS
    TypeOK
    ExclusiveClaim
    UncheckedIsQueued
    CheckedIsComplete
    DoneIsPublished
    NothingForgotten
PROPERTIES
    ProcessedIsArchived
    ClaimIsKept
    PendingIsProcessed
    MissingRunEnds

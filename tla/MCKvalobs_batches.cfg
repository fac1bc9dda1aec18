CONSTANTS
    k1 = k1
    k2 = k2
    w1 = w1
    w2 = w2
    Key = {k1, k2}
    Aggregated = {k2}
    WholeHour = {k1}
    Expected = {k1}
    QaIds <- AssignedOne
    MaxId = 2
    MaxFaults = 1
    Filters <- MixedFilters
    Worker = {w1, w2}
    QaIdOf <- OneHasId
    Mortal = {w2}
    Recent = {k1, k2}
    SelectLimit = 2
    FailedLimit = 10
    SlowWorkers = FALSE
    CheckForMissingObs = FALSE
SPECIFICATION Spec
INVARIANTS
    ExclusiveClaim
    UncheckedIsQueued
    DoneIsPublished

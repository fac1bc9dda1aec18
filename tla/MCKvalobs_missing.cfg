CONSTANTS
    k1 = k1
    k2 = k2
    w1 = w1
    w2 = w2
    Key = {k1, k2}
    Aggregated = {}
    WholeHour = {k1, k2}
    Expected = {k1, k2}
    QaIds <- OnlyUnassigned
    MaxId = 2
    MaxFaults = 0
    Filters <- DefaultFilter
    Worker = {w1, w2}
    QaIdOf <- NoQaIds
    Mortal = {}
    Recent = {k1}
    SelectLimit = 2
    FailedLimit = 10
    SlowWorkers = FALSE
    CheckForMissingObs = TRUE
SPECIFICATION Spec
INVARIANT MissingIsHandled

CONSTANTS
    r1 = r1
    r2 = r2
    r3 = r3
    Http = {r1, r2, r3}
    NCon = 3
    RedirectLimit = 1
    LookupMayThrow = FALSE
    MaxRequests = 3
    MaxMishaps = 0
CHECK_DEADLOCK FALSE
SPECIFICATION ServiceFairSpec
PROPERTY CreateReturns

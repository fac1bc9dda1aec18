CONSTANTS
    r1 = r1
    r2 = r2
    r3 = r3
    Http = {r1, r2}
    NCon = 3
    RedirectLimit = 1
    LookupMayThrow = TRUE
    MaxRequests = 3
    MaxMishaps = 0
SPECIFICATION ServiceFairSpec
PROPERTIES
    RequestIsAnswered
    ShutdownCompletes

CONSTANTS
    Requests = {r1, r2, r3}
    Fast = r2
    Skew <- SkewOfFast
    MaxSkew = 1
    Limits = {0, 2}
    Timeout = 1
    MaxRetries = 0
    Grace = 1
    ClientRetries = 1
    RatePerMin = 2
    Minute = 3
    Tries = 3
    Prompt = FALSE
    Scripting = {TRUE, FALSE}
    Faults = {"acquire", "allow", "release", "crash"}
    MaxFaults = 1
    MaxClock = 2
    NULL = NULL
SYMMETRY RequestSymmetry
SPECIFICATION Spec
INVARIANT TypeOK
INVARIANT LimitHolds
INVARIANT BucketAccounted
PROPERTY ImplementsLeases
 
 
PROPERTY RetryAfterExact

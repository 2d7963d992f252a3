CONSTANTS
    Requests = {r1, r2}
    Keys = {k1, k2}
    Pins = {NULL}
    Budget = 2
    TriesPerAttempt = 20
    MinTries = 50
    MaxConcurrent = 1
    RateLimited = {}
    Undecryptable = {}
    Outcomes = {"rate_limit", "invalid_key", "timeout"}
    FetchResults = {"invalid"}
    FetchCredits = {0}
    Costs = {1}
    InitCredits = {NULL}
    Cooldown = 1
    FailureThreshold = 2
    FailureWindow = 1
    FailedCooldown = 1
    UseStore = FALSE
    CountOnSuccess = TRUE
    DbFaults = FALSE
    AdminOps = {"disable", "enable"}
    MaxClock = 1
    NULL = NULL
SYMMETRY FullSymmetry
SPECIFICATION Spec
INVARIANT LeasesBalanced
INVARIANT AttemptsDistinct
PROPERTY DisabledStays

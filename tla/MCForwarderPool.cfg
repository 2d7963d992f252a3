CONSTANTS
    Requests = {r1}
    Keys = {k1, k2, k3}
    Pins = {NULL, k1}
    Budget = 2
    TriesPerAttempt = 1
    MinTries = 2
    MaxConcurrent = 1
    RateLimited = {k2}
    Undecryptable = {k3}
    Outcomes <- AllOutcomes
    FetchResults = {"invalid", "success"}
    FetchCredits = {0}
    Costs = {1}
    InitCredits = {1}
    Cooldown = 1
    FailureThreshold = 1
    FailureWindow = 1
    FailedCooldown = 1
    UseStore = TRUE
    CountOnSuccess = TRUE
    DbFaults = TRUE
    AdminOps = {"revive", "reset"}
    MaxClock = 1
    NULL = NULL
SPECIFICATION FairSpec
INVARIANT TypeOK
INVARIANT RetryCountIsSwitches
INVARIANT LastErrorSurfaces
PROPERTY EveryForwardEnds

CONSTANTS
    Requests = {r1, r2}
    Quotas = {NULL, 1}
    Limits = {0, 1}
    InitUsage = {0}
    QuotaCheck = TRUE
    CountMode = "success"
    RateLimited = TRUE
    Faults = {"flush"}
    AdminOps = {"update"}
    MaxDay = 1
    NULL = NULL
SPECIFICATION Spec
INVARIANT CounterIsInFlight

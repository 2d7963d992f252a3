CONSTANTS
    Requests = {r1, r2}
    Quotas = {NULL, 0, 1}
    Limits = {0, 1}
    InitUsage = {0}
    QuotaCheck = TRUE
    CountMode = "success"
    RateLimited = TRUE
    Faults = {"lookup", "flush", "commit", "consume"}
    AdminOps = {"update", "disable", "enable", "purge"}
    MaxDay = 2
    NULL = NULL
SPECIFICATION FairSpec
INVARIANT TypeOK
INVARIANT UsageBacked
INVARIANT LeasesReturned
PROPERTY GrantsBounded
PROPERTY LeasesDrain

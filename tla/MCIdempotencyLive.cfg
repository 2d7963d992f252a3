CONSTANTS
    Requests = {r1, r2, r3}
    Clients = {c1}
    IdemKeys = {k1}
    Hashes = {h1}
    RequireOn = {h1}
    Enabled = TRUE
    TtlSeconds = 1
    GraceMin = 0
    GraceMax = 0
    ReuseIds = FALSE
    Faults = {}
    MaxClock = 2
    NULL = NULL
SPECIFICATION FairSpec
PROPERTY EveryRequestAnswered

CONSTANTS
    Requests = {r1, r2, r3}
    Clients = {c1}
    IdemKeys = {k1, k2}
    Hashes = {h1}
    RequireOn = {}
    Enabled = TRUE
    TtlSeconds = 2
    GraceMin = 1
    GraceMax = 1
    ReuseIds = TRUE
    Faults = {}
    MaxClock = 3
    NULL = NULL
SYMMETRY RequestSymmetry
SPECIFICATION Spec
INVARIANT ReplayMatches

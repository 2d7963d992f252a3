CONSTANTS
    Requests = {r1, r2, r3}
    Clients = {c1}
    IdemKeys = {k1}
    Hashes = {h1, h2}
    RequireOn = {h2}
    Enabled = TRUE
    TtlSeconds = 2
    GraceMin = 1
    GraceMax = 1
    ReuseIds = FALSE
    Faults = {"cleanup", "insert", "refresh", "lookup", "delete", "complete"}
    MaxClock = 3
    NULL = NULL
SYMMETRY RequestSymmetry
SPECIFICATION Spec
INVARIANT TypeOK
INVARIANT ReplayMatches
INVARIANT TakeoverAfterGrace
PROPERTY ResponseStable

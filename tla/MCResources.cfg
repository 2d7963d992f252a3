CONSTANTS
    Clients = {c1}
    Keys = {k1, k2}
    Requests = {r1, r2, r3}
    RequireOn = {"crawl"}
    Offered <- MCOffered
    Tasks = 2
    Faults = {"account", "bind", "lookup", "complete", "log", "crash"}
    MaxFaults = 1
    MaxAdmin = 1
    NULL = NULL
SYMMETRY KeySymmetry
SPECIFICATION Spec
CHECK_DEADLOCK FALSE
INVARIANT TypeOK
INVARIANT ToldIsBound
INVARIANT OneTaskPerRecord
PROPERTY StatusReachesOwner

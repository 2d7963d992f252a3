CONSTANTS
    Ids = {1, 2}
    Secrets = {s1, s2}
    Sealed = {}
    ExaSecrets = {s2}
    BatchSize = 1
    MaxAdmin = 0
    InitKeys = 2
    Balances = {0}
    MaxFaults = 1
    NULL = NULL
SPECIFICATION Spec
CHECK_DEADLOCK FALSE
INVARIANT ExaNotMonitored

CONSTANTS
    Ids = {1, 2}
    Secrets = {s1, s2}
    Sealed = {x1}
    ExaSecrets = {}
    BatchSize = 1
    MaxAdmin = 1
    InitKeys = 1
    Balances = {0}
    MaxFaults = 2
    NULL = NULL
SPECIFICATION FairSpec
CHECK_DEADLOCK FALSE
INVARIANT TypeOK
PROPERTY VerdictJustified
PROPERTY BackoffRespected
PROPERTY KeysStayMonitored

CONSTANTS
    Admins = {a1, a2}
    Requests = {r1, r2}
    Clients = {1, 2, 3, 4}
    Patches <- OnePatches
    Files <- TwoFiles
    DiskFails = TRUE
    MaxPuts = 3
    MaxStarts = 1
    NULL = NULL
    CLEAR = CLEAR
SYMMETRY ThreadSymmetry
SPECIFICATION Spec
INVARIANT TypeOK
INVARIANT NoLostClient
INVARIANT BrokenOnlyByDisable
INVARIANT PoolFollowsSettings
PROPERTY SettingsSurviveRestart

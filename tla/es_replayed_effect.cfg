SPECIFICATION Spec
CHECK_DEADLOCK FALSE
CONSTANTS
    Jobs = {j1, j2}
    ReplaySafe = {}
    Calls = {c1, c2}
    NRuntimes = 1
    MaxAttempts = 3
    ModelLimit = 4
    RetryLimit = 3
    HasRecovery = FALSE
    MaxCrashes = 0
    TaskActions = {}
INVARIANTS SideEffectOnce

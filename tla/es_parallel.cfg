SPECIFICATION FairSpec
CHECK_DEADLOCK FALSE
CONSTANTS
    Jobs = {j1, j2}
    ReplaySafe = {j1}
    Calls = {c1, c2}
    NRuntimes = 2
    MaxAttempts = 3
    ModelLimit = 4
    RetryLimit = 2
    HasRecovery = TRUE
    MaxCrashes = 1
    TaskActions = {"HUMAN_REQUIRED", "NEXT_STEP"}
INVARIANTS TypeOK LaunchesBounded BudgetRespected OncePerErasedHold
PROPERTIES CompletedIsFinal CallsReturn

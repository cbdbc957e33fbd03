SPECIFICATION LoopFairSpec
CONSTANTS
    j1 = j1
    u1 = u1
    w1 = w1
    Ids = {j1}
    ReplaySafe = {j1}
    UserCalls = {u1}
    WakeCall = w1
    NRuntimes = 2
    MaxAttempts = 3
    ModelLimit = 1
    RetryLimit = 1
    MaxRestarts = 1
    TaskActions = {"HUMAN_REQUIRED", "NEXT_STEP"}
    MaxResumes = 1
    MaxSchedules = 3
    MaxDuplicates = 3
    MaxWriteFailures = 1
INVARIANTS LoopTypeOK WaitingIsWatched
PROPERTIES ImplementsScheduler
CHECK_DEADLOCK FALSE

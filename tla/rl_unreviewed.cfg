SPECIFICATION LoopSpec
CONSTANTS
    j1 = j1
    u1 = u1
    w1 = w1
    Ids = {j1}
    ReplaySafe = {j1}
    UserCalls = {u1}
    WakeCall = w1
    NRuntimes = 1
    MaxAttempts = 3
    ModelLimit = 4
    RetryLimit = 4
    MaxRestarts = 0
    TaskActions = {"HUMAN_REQUIRED", "NEXT_STEP"}
    MaxResumes = 0
    MaxSchedules = 3
    MaxDuplicates = 3
    MaxWriteFailures = 0
INVARIANTS DoneMeansReviewed
CHECK_DEADLOCK FALSE

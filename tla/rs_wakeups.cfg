SPECIFICATION FairSpec
CHECK_DEADLOCK FALSE
CONSTANTS
    Ids = {w1, w2}
    MaxAttempts = 3
    MaxSchedules = 2
    MaxDuplicates = 1
    MaxResumes = 1
    MaxRestarts = 1
    MaxWriteFailures = 1
INVARIANTS TypeOK RunsBounded
PROPERTIES FiresOnce WakeupServed

SPECIFICATION FairSpec
CHECK_DEADLOCK FALSE
CONSTANTS
    Units = {u1, u2, u3}
    Attempts = 3
    MaxDepth = 2
    CatchesAborts = FALSE
    MaxAborts = 1
    MaxCommitFaults = 1
    MaxCrashes = 1
INVARIANTS TypeOK DepthAgrees
PROPERTIES CallsEnd ImplementsAtomicStore

SPECIFICATION FairSpec
CONSTANTS
    NSubs = 2
    Async <- NoneAsync
    Forwardable = {1, 3}
    Passes = {p1}
    BatchSize = 2
    Limit = 4
    MaxEvents = 4
    MaxDamaged = 2
    MaxFaults = 1
    MaxTools = 1
INVARIANTS TypeOK CursorAgreesWithMarkers FreshRunOnce
PROPERTIES PassDelivers

SPECIFICATION Spec
CONSTANTS
    NSubs = 4
    Async <- ThirdAsync
    Forwardable = {1, 3}
    Passes = {p1, p2}
    BatchSize = 2
    Limit = 3
    MaxEvents = 3
    MaxDamaged = 1
    MaxFaults = 1
    MaxTools = 1
INVARIANTS NoEventLost InOrder

SPECIFICATION Spec
CHECK_DEADLOCK FALSE
CONSTANTS
    Keys = {k1, k2, k3}
    Owners = {o1, o2}
    MaxWrites = 4
    MaxRemovals = 2
    MaxMoves = 3
INVARIANTS TypeOK StayersInOrder NothingVanishes
PROPERTIES RevisionTells

SPECIFICATION Spec
SYMMETRY Symmetry
CONSTANTS
    Nodes = {n1, n2}
    Tasks = {t1}
    MaxLeases = 2
    MaxCrashes = 1
    MaxRefused = 1
INVARIANTS TypeOK DropoutHandled
PROPERTIES TakenOverFromCheckpoint

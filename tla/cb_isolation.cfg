SPECIFICATION FairSpec
CONSTANTS
    Calls = {c1, c2, c3, c4}
    Threshold = 3
    MaxAbandons = 1
    MaxRefused = 2
    MaxRestarts = 1
INVARIANTS TypeOK CountsTheStreak ProbeNotLeaked
PROPERTIES IsolationEnds

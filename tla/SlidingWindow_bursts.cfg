SPECIFICATION Spec
CONSTANTS
    c1 = c1
    c2 = c2
    Consumers = {c1, c2}
    Window = 3
    Limit = 1
    MaxConnections = 3
    MaxLag = 2
    MaxTime = 7
    MaxFaults = 1
INVARIANTS
    TypeOK
    BurstIsFlagged
    FlaggedMeansBusy

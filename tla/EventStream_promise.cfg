SPECIFICATION FairSpec
CONSTANTS
    c1 = c1
    c2 = c2
    Consumers = {c1, c2}
    BatchSize = 2
    MaxLen = 2
    Poison = {2}
    MaxEntries = 3
    MaxCount = 2
    MaxFaults = 1
INVARIANTS
    TypeOK
    NothingLost
    RepeatsNeedClaims
PROPERTIES
    AcknowledgedIsScored
    Implements

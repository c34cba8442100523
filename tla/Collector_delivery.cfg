SPECIFICATION FairSpec
CONSTANTS
    BatchSize = 2
    MaxBuffered = 3
    MaxPosted = 2
    Rotations = {"rename", "copytruncate"}
    InParts = {2}
    MaxLines = 3
    MaxFiles = 2
    MaxFaults = 2
INVARIANTS
    TypeOK
    AtLeastOnce
    NothingSkipped
    RepeatsNeedFaults
    InOrder
PROPERTIES
    EventuallyAccepted

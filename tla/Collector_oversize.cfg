SPECIFICATION FairSpec
CONSTANTS
    BatchSize = 2
    MaxBuffered = 4
    MaxPosted = 2
    Rotations = {"rename"}
    InParts = {}
    MaxLines = 4
    MaxFiles = 1
    MaxFaults = 2
PROPERTIES
    OutageIsRecovered

SPECIFICATION Spec
CONSTANTS
    Consumers = {c1, c2}
    Connections <- UserConnections
    MailPorts = {25}
    Cap = 2
    IpThreshold = 2
    PortThreshold = 2
    MaxScanIps = 1
    SpamThreshold = 2
    RateLimit = 2
    FailedThreshold = 2
    MaxConnections = 4
    MaxFaults = 1
SYMMETRY ConsumerSymmetry
INVARIANTS
    TypeOK
    OvershootIsBounded
    OffendersAreFlagged
    FlaggedMeansOffence
    ScanIsConcentrated

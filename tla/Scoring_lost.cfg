SPECIFICATION Spec
CONSTANTS
    c1 = c1
    c2 = c2
    Consumers = {c1, c2}
    NoSession = NoSession
    NoRow = NoRow
    DeviceWeight = 8
    OtherWeight = 16
    RepeatWeight = 32
    MinGap = 1
    Limits = {1}
    MaxDevices = 2
    MaxLag = 0
    MaxTime = 1
    MaxWork = 3
    MaxChanges = 0
INVARIANTS
    NoPointsLost

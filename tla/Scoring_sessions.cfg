SPECIFICATION Spec
CONSTANTS
    c1 = c1
    c2 = c2
    Consumers = {c1, c2}
    NoSession = NoSession
    NoRow = NoRow
    DeviceWeight = 8
    OtherWeight = 16
    RepeatWeight = 32
    MinGap = 2
    Limits = {1, 2}
    MaxDevices = 3
    MaxLag = 1
    MaxTime = 2
    MaxWork = 3
    MaxChanges = 1
INVARIANTS
    TypeOK
    NothingForgivenEarly
    ScoreIsExplained
    DeviceScoredOnce
    BonusOnlyAfterGap
SYMMETRY ConsumerSymmetry
CONSTRAINT FewAtATime

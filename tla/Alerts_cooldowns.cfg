SPECIFICATION Spec
CONSTANTS
    AutoBlockEnabled = TRUE
    MinLevel = 4
    DeviceLimitWarnOnly = TRUE
    Consumers = {c1, c2}
    Overriders = {o1}
    NewStatuses <- SomeStatuses
    Scores <- UserScores
    NotifyCooldown = 1
    WarnCooldown = 2
    MaxTime = 2
    MaxEvents = 2
    MaxOverrides = 1
    MaxFaults = 2
    Nobody = Nobody
    NoRow = NoRow
SYMMETRY ConsumerSymmetry
VIEW LiveView
CONSTRAINT FewAtATime
INVARIANTS
    TypeOK
    RoutineAlertsAreApart
    ElevatedIsHeard
    DarkIsAnnounced

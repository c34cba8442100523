SPECIFICATION Spec
CONSTANTS
    AutoBlockEnabled = TRUE
    MinLevel = 3
    DeviceLimitWarnOnly = TRUE
    Users = {u1}
    Consumers = {c1}
    Sweepers = {w1}
    Admins = {}
    Refused = {}
    Duration = 1
    MaxTime = 1
    MaxWork = 2
    MaxFaults = 0
    NoSession = NoSession
    NoRow = NoRow
PROPERTY AutomationNeverLowers

SPECIFICATION Spec
CONSTANTS
    NoOverride = NoOverride
    c1 = c1
    c2 = c2
    d1 = d1
    d2 = d2
    d3 = d3
    Consumers = {c1, c2}
    Devices = {d1, d2, d3}
    Cap = 3
    DefaultLimit = 1
    Overrides = {0, 2}
    Window = 2
    MaxLag = 2
    MaxTime = 4
    MaxEvents = 4
    MaxOverrides = 2
SYMMETRY DeviceSymmetry
VIEW LiveView
INVARIANTS
    TypeOK
    CountIsActive
    OverLimitIsFlagged
    CountsNoGhosts

SPECIFICATION Spec
CONSTANTS
    AutoBlockEnabled = TRUE
    MinLevel = 3
    DeviceLimitWarnOnly = TRUE
    Users = {u1, u2}
    Consumers = {c1, c2}
    Sweepers = {w1, w2}
    Admins = {a1}
    Refused = {u2}
    Duration = 1
    MaxTime = 1
    MaxWork = 2
    MaxFaults = 1
    NoSession = NoSession
    NoRow = NoRow
SYMMETRY SessionSymmetry
VIEW SessionView
INVARIANTS IndInv RestrictedMeansOff OffMeansRestricted ShopFollowsRow
PROPERTIES
    BlacklistedHasEntry
    SuspensionHasExpiry

SPECIFICATION CachesSpec
CONSTANTS
    a = a
    b = b
    c = c
    d = d
    NoCall = NoCall
    Keys = {k1, k2, k3}
    Values = {v1, v2}
    None = None
    Sizes = {1, 3, 8}
    MaxEntries = 2
    MaxBytes = 5
    TTL = 2
    Toolsets = {1, 2}
    Calls = {a, b, c, d}
    ToolsetOf <- MCToolsetOf
    Responses <- MCResponses
    Limit = 6
    MaxJobs = 1
    MaxOriginals = 2
    MaxOriginalBytes = 4
    Lifetime = 1
    Attempts = 2
    Slack = 1
INVARIANTS
    WithinLimit
    PlacesAreHandedOn
    StoresAddUp
    CurrentWithinLimits
PROPERTIES
    PreviewIsRecoverable
    IsLossyMap
SYMMETRY Interchangeable
CHECK_DEADLOCK FALSE

SPECIFICATION CredentialsSpec
CONSTANTS
    k1 = k1
    k2 = k2
    Calls = {c1, c2}
    Keys = {k1, k2}
    Backends = {1, 2}
    BackendOf <- TwoBackends
    SessionConfigs <- AllConfigs
    Nobody = Nobody
    None = None
    Permits = 1
    MaxRotations = 1
    n1 = n1
    n2 = n2
    u1 = u1
    d1 = d1
    d2 = d2
    Names = {n1, n2}
    Uris = {u1}
    Dirs = {d1, d2}
    DirOf <- SeparateDirs
    Logins = {l1, l2}
    Clears = {e1}
    Nothing = Nothing
SYMMETRY CallsAndLogins
INVARIANTS
    RecoveryMatchesIdentity
    OwnRefreshFirst
    RecoveryIsLatest
    StoredIsFindable
PROPERTIES
    HeadersNeverRegress
    ClearedIsGone

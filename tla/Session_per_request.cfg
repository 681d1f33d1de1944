SPECIFICATION Spec
CONSTANTS
    k1 = k1
    k2 = k2
    Calls = {c1, c2}
    Keys = {k1, k2}
    Backends = {1, 2}
    BackendOf <- TwoBackends
    SessionConfigs <- AskedPerRequest
    Nobody = Nobody
    None = None
    Permits = 1
    MaxRotations = 1
INVARIANTS
    ReuseKeepsToIdentity

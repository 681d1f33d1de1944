SPECIFICATION WaitsSpec
CONSTANTS
    k1 = k1
    k2 = k2
    Calls = {c1, c2}
    Keys = {k1}
    Backends = {1}
    BackendOf <- OneBackend
    SessionConfigs <- AllConfigs
    Nobody = Nobody
    None = None
    Permits = 1
    MaxRotations = 0
    background = background
    a = a
    b = b
    c = c
    Tasks = {background, a, b, c}
    Droppable = {a, b, c}
INVARIANTS
    OnePreparation
PROPERTIES
    CallsProceed
    CloseReturns
    RegisteredReturn
CHECK_DEADLOCK FALSE

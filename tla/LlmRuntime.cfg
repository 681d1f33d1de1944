SPECIFICATION Spec
CONSTANTS
    a = a
    b = b
    None = None
    Procs = {a, b}
    Frugal = {}
    Testers = {a, b}
    Archives <- MCArchives
    MaxRemovals = 1
    Ports = {1}
    Retries = 2
INVARIANTS
    FilesAreWhole
    FetchedOnce
    OwnServerAnswers
    ServerGoesWithRequest
SYMMETRY Invocations
CHECK_DEADLOCK FALSE


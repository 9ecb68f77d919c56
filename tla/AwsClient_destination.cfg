SPECIFICATION Spec
CONSTANTS
    StreamIDs = {s1}
    Workers = {w1, w2}
    BufSize = 1
    MaxStops = 2
    MaxSessions = 2
    MaxMessages = 4
    ReuseUnsettled = FALSE
    CloseMayFail = TRUE
    Modes = {"destination"}
    None = None
INVARIANTS
    SessionsApart
PROPERTIES
    UsesWorkerManager
    ImplementsSession
    ImplementsStreamListener
    DataInOrder
SYMMETRY Symmetry
CHECK_DEADLOCK FALSE

SPECIFICATION Spec
CONSTANTS
    StreamIDs = {s1, s2}
    Cons = {k1, k2}
    None = None
    Modes = {"destination"}
    Reuse = TRUE
    MaxSessions = 2
    MaxMessages = 4
INVARIANTS
    DataPrefix
    OfThisSession
PROPERTIES
    UsesLocalSockets
    ImplementsReliableStream
SYMMETRY Symmetry
CHECK_DEADLOCK FALSE

SPECIFICATION FairSpec
CONSTANTS
    StreamIDs = {s1}
    Cons = {k1}
    None = None
    Modes = {"source", "destination"}
    Reuse = FALSE
    MaxSessions = 2
    MaxMessages = 4
INVARIANTS
    NoOrphan
PROPERTIES
    PeerLearns
    
CHECK_DEADLOCK FALSE

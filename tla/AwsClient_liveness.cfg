SPECIFICATION FairSpec
CONSTANTS
    StreamIDs = {s1}
    Workers = {1, 2}
    BufSize = 1
    MaxStops = 3
    MaxSessions = 2
    MaxMessages = 2
    ReuseUnsettled = FALSE
    CloseMayFail = FALSE
    Modes = {"source", "destination"}
    None = None
CONSTRAINT InOrder
PROPERTIES
    CtxDoneReturnsOrStuck
    PeerLearns
CHECK_DEADLOCK FALSE

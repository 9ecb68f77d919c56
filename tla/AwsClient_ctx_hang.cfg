SPECIFICATION FairSpec
CONSTANTS
    StreamIDs = {s1}
    Workers = {w1}
    BufSize = 1
    MaxStops = 3
    MaxSessions = 2
    MaxMessages = 3
    ReuseUnsettled = FALSE
    CloseMayFail = FALSE
    Modes = {"destination"}
    None = None
PROPERTY CtxDoneReturns
CHECK_DEADLOCK FALSE

SPECIFICATION OrderedSpec
CONSTANTS
    StreamIDs = {s1, s2}
    Workers = {1, 2, 3}
    Funcs = {f1}
    BufSize = 1
    MaxStops = 1
    MaxSweeps = 1
    ReuseUnsettled = TRUE
    None = None
    MaxHurried = 1
INVARIANTS
    ExecTargetsLiveWorker
    OneGoroutinePerStream
    OnlyAskedWorkersStop
PROPERTIES
    StopRemoves
    ExecReturns
    StopAllReturns
CHECK_DEADLOCK FALSE

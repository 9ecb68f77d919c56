SPECIFICATION FairSpec
CONSTANTS
    StreamIDs = {s1, s2}
    Cons = {k1, k2}
    Threads = {t1, t2}
    None = None
INVARIANTS
    RunningIsMapped
    UnmappedIsClosed
PROPERTIES
    StopsReturn
CHECK_DEADLOCK FALSE

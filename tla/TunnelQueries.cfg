SPECIFICATION QueriesSpec
CONSTANTS
    Requests = {r1, r2, r3}
    Queries = {q1, q2}
    Tunnels = {t1}
    Clients = {c1, c2}
    Lifetimes = {1}
    MaxTime = 1
    None = None
INVARIANTS
    RecordsEnd
    ToldClosed
    DescribesLivingOrLeft
PROPERTIES
    NoLostUpdate
    ClosedStaysClosed
    ImplementsTunnelLife
SYMMETRY Symmetry
CHECK_DEADLOCK FALSE

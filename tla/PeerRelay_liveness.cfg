SPECIFICATION FairDebugSpec
CONSTANTS
    Sources = {s1}
    Destinations = {d1}
    DebugRequests = {r1}
    DebugMode = {d1}
    Capacity = 1
    MaxMessages = 1
    None = None
PROPERTIES
    HandlerReturns
    SweepDisconnects
    DebugReturns
CHECK_DEADLOCK FALSE

SPECIFICATION Spec
CONSTANTS
    MaxCounter = 3
    Hours = 1
    Minutes = 2
    Seconds = 2
    Periods = 2
    PerSecond = 3
INVARIANTS
    TypeOK
    UniqueInPeriod
CHECK_DEADLOCK FALSE

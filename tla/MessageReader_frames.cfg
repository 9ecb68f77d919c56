SPECIFICATION Spec
CONSTANTS
    Base = 3
    MaxMessages = 3
    Encodings <- MCEncodings
    Garbage <- MCGarbage
INVARIANTS
    TypeOK
PROPERTIES
    ImplementsChannel
    FailsOnGarbageOnly
CHECK_DEADLOCK FALSE

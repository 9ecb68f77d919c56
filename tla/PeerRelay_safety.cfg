SPECIFICATION Spec
CONSTANTS
    Sources = {s1, s2}
    Destinations = {d1}
    Capacity = 2
    MaxMessages = 2
    None = None
INVARIANTS
    Paired
    ReplacedIsClosed
PROPERTIES
    RelayInOrder
SYMMETRY Symmetry
CHECK_DEADLOCK FALSE

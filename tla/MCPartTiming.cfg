SPECIFICATION Spec
CONSTANTS
    Parts = {p1, p2}
    p1 = p1
    p2 = p2
    Size = 5
    ReadSize = 4
    LinkSpeed = 4
    Rate = 3
    AssumedSpeed = 2
    TimeoutFloor = 3
    HTTPTimeout = 5
    MaxAttempts = 2
    BaseDelay = 2
    MaxDelay = 3
SYMMETRY PartSymmetry
INVARIANTS
    BoundsHold
    PartsAreServed
PROPERTIES
    CancelIsInstant

CONSTANTS
    Conn = {c1, c2, c3}
    None = None
    Broken = Broken
    MaxId = 5
    MaxSends = 1
SPECIFICATION Spec
SYMMETRY ConnSymmetry
INVARIANTS
    TypeOK
    NoUndefined
    IdsAboveSentinel
    SessionsAreRead
    KeptWhileAllStay
    OppositeColours
PROPERTIES
    RelayPromise
\* The server stops when its owner tells it to, or when its I/O thread is lost.
CHECK_DEADLOCK FALSE

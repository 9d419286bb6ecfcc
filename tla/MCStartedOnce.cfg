CONSTANTS
    Conn = {c1, c2, c3, c4}
    None = None
    Broken = Broken
    MaxId = 6
    MaxSends = 0
SPECIFICATION Spec
SYMMETRY ConnSymmetry
INVARIANTS
    StartedOnce
\* The server stops when its owner tells it to, or when its I/O thread is lost.
CHECK_DEADLOCK FALSE

CONSTANTS
    Conn = {c1, c2, c3}
    None = None
    Broken = Broken
    MaxId = 5
    MaxSends = 0
SPECIFICATION Spec
PROPERTIES
    DropOnlyGone
\* The server stops when its owner tells it to, or when its I/O thread is lost.
CHECK_DEADLOCK FALSE

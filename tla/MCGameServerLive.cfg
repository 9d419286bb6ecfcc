CONSTANTS
    Conn = {c1, c2}
    None = None
    Broken = Broken
    MaxId = 4
    MaxSends = 2
SPECIFICATION FairSpec
PROPERTIES
    RelayPromise
    GoneIsDropped
    RelayProgress
    StopReturns
\* The server stops when its owner tells it to, or when its I/O thread is lost.
CHECK_DEADLOCK FALSE

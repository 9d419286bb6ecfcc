CONSTANTS
    c1 = c1
    c2 = c2
    Client = {c1, c2}
    Exchanges <- MCExchanges
    MaxSends = 3
SPECIFICATION FairSpec
INVARIANTS
    TypeOK
    DiesOfGlue
    NoHandlerAfterGone
PROPERTIES
    RelayPromise
    ColourStarts
    ServerGoneIsNoticed
    EndIsTold
    LeavingEnds
\* Both processes end, and the server may stop.
CHECK_DEADLOCK FALSE

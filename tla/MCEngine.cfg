CONSTANTS
    Plays <- MCPlays
    Starts <- MCStarts
    Clicks <- MCClicks
    WallClicks <- MCWallClicks
    OpponentMoves <- MCOpponentMoves
    OpponentWalls <- MCOpponentWalls
    Opportunities <- MCOpportunities
    MaxCalls <- MCMaxCalls
SPECIFICATION Spec
INVARIANTS
    KingAtHome
    PawnOnLastRowWaits
PROPERTIES
    MovesAreLegal
    RefusedKeepsPieces
    WallsGoByRook
    OwnPiecesKept
    CaptureCaptures
\* The bound on the calls ends every behaviour.
CHECK_DEADLOCK FALSE

CONSTANTS
    Plays = {"home"}
    Starts <- MCStarts
    Clicks <- MCClicks
    WallClicks <- MCWallClicks
    OpponentMoves <- MCOpponentMoves
    OpponentWalls <- MCOpponentWalls
    Opportunities <- MCOpportunities
    MaxCalls <- OneCall
SPECIFICATION Spec
PROPERTIES
    CastlingReachesTarget
\* The bound on the calls ends every behaviour.
CHECK_DEADLOCK FALSE

CONSTANTS
    Starts <- MatchStarts
    Clicks <- MatchClicks
    WallClicks <- MatchWalls
    Overwrites <- MatchOverwrites
    MaxClicks = 2
    MaxGlued = 2
SPECIFICATION Spec
INVARIANTS
    TypeOK
    OneKing
    OverMeansKingTaken
    BoardsAgree
    CountsAgree
    OpportunitiesExpire
PROPERTIES
    PromotesOwnPawn
\* The bound on the clicks ends every behaviour.
CHECK_DEADLOCK FALSE

CONSTANTS
    Starts <- EndStarts
    Clicks <- EndClicks
    WallClicks <- NoWalls
    Overwrites = {}
    MaxClicks = 2
    MaxGlued = 1
SPECIFICATION FairSpec
PROPERTIES
    LoserIsTold
\* The bound on the clicks ends every behaviour.
CHECK_DEADLOCK FALSE

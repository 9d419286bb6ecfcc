CONSTANTS
    Size = 3
    NoWall = NoWall
SPECIFICATION Spec
INVARIANTS
    TypeOK
    SidesShareCell
PROPERTIES
    ImplementsWalls
    WritesOwnWall

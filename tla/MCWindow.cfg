CONSTANTS
    N = 2
    Sizes = {3, 4, 5, 6, 7}
    StartSize = 4
    MinSize = 4
    Own = {0, 3}
SPECIFICATION Spec
PROPERTIES
    ClickHitsDrawn
    OffBoardOnlyBeyond

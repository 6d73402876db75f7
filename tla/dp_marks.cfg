SPECIFICATION Spec
CONSTANTS
    Cells = 3
    PageCells = 2
    Spans <- TwoSpans
    RangeCount = 2
    IdleRanges = 1
    BoxCount = 2
    Overflows = FALSE
    MaxWords = 3
    MaxAccesses = 2
CHECK_DEADLOCK FALSE
INVARIANTS
    TouchedInTurn
    MarkedFor
PROPERTY ObjectsOnlyToTheTorn

SPECIFICATION Spec
CONSTANTS
    Cells = 3
    PageCells = 2
    Spans <- Apart
    RangeCount = 2
    IdleRanges = 1
    BoxCount = 2
    Overflows = TRUE
    MaxWords = 4
    MaxAccesses = 1
CHECK_DEADLOCK FALSE
INVARIANTS
    TouchedInTurn

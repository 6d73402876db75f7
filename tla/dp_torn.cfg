SPECIFICATION Spec
CONSTANTS
    Cells = 3
    PageCells = 2
    Spans <- TwoSpans
    RangeCount = 2
    IdleRanges = 1
    BoxCount = 2
    Overflows = FALSE
    MaxWords = 3
    MaxAccesses = 0
CHECK_DEADLOCK FALSE
INVARIANT NothingObjected

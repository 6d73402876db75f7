\* A memory with a cell no write changes.
SPECIFICATION Spec
CONSTANTS
    Addrs = {1, 2}
    Cells = {1, 2}
    CellAt <- Plain
    ReadOnly = {2}
    Values = {0, 1}
    MaxCalls = 7
    MaxRunners = 1
INVARIANT WindowIsTheMemory
CHECK_DEADLOCK FALSE

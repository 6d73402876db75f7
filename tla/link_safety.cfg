\* Two runners, each called a few times, its core as bad as it likes.
SPECIFICATION FairSpec
CONSTANTS
    Addrs = {1, 2}
    Cells = {1, 2}
    CellAt <- Plain
    ReadOnly = {}
    Values = {0, 1}
    MaxCalls = 6
    MaxRunners = 2
INVARIANTS
    AnswersAreTheirOwn
    NoRunnerLeftBehind
    WindowIsTheMemory
PROPERTIES
    CallsEnd
    OrphansEnd
CHECK_DEADLOCK FALSE

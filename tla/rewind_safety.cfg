\* Snapshots of two lengths and of none, two intervals, two budgets.
SPECIFICATION FairSpec
CONSTANTS
    States <- SomeLengths
    Intervals = {1, 2}
    Budgets = {0, 2}
    MaxFrames = 3
    NoState = NoState
    NoJob = NoJob
INVARIANTS
    ChainHoldsTogether
    OneJobOut
PROPERTIES
    SettledWithinBudget
    KeepsTheHistory
    CallsComeBack

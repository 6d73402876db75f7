\* Each component of the host that stands alone, with bounds of its own.
SPECIFICATION HostSpec
CONSTANTS
    Programs = {p1, p2}
    MaxLockFiles = 3
    MaxTakes = 2
    MaxKills = 1
    Nobody = Nobody
    Readers = {"reader"}
    MaxSaves = 4
    MaxFiles = 4
    Moved = TRUE
    Length = 3
    MaxFrames = 3
    MaxSteps = 2
    Debugs = {TRUE, FALSE}
    Threads = {t1, t2}
    MaxSessions = 3
    MaxChanges = 1
    FirstPorts = 0
    MaxPorts = 1
    Buttons = {"a"}
    Values = {0, 1}
    MaxLoads = 1
    Raisers = {t1, t2}
    Subs = {s1, s2}
    Topics <- TwoTopics
    Filters <- TwoFilters
    Unheld = Unheld
    Capacity = 2
    MaxEvents = 3
SYMMETRY HostSymmetry
CHECK_DEADLOCK FALSE
INVARIANTS
    LockedWhileKept
    AloneHasNoCompany
    WholeSaves
    SavedIsFound
    FrameAdvanceHolds
    ListHoldsTogether
    EndToldOnce
    DifferenceIsMarked
    SameOrderEverywhere
    EveryoneDueIsServed
    QueueTellsAll
    NoEventWaitsUnheard
PROPERTIES
    ResumingMovesOn
    RunToFrameStops
    NothingGoesBack
    NothingAfterTheEnd

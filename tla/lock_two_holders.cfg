\* Two programs and no kill.
SPECIFICATION LockSpec
CONSTANTS
    Programs = {p1, p2}
    MaxLockFiles = 2
    MaxTakes = 2
    MaxKills = 0
    Nobody = Nobody
SYMMETRY ProgramSymmetry
CHECK_DEADLOCK FALSE
INVARIANT AtMostOneProgramHolds

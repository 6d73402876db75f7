\* Two workers, two words, a pause, and a worker that may fall.
SPECIFICATION FairSpec
CONSTANTS
    N = 2
    Ring = 1
    SnapshotWords = 1
    MaxWords = 2
    MaxHolds = 1
    CanFail = TRUE
PROPERTY MachineComesThrough

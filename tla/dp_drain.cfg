\* Two workers, three words through a ring of two, two pauses.
SPECIFICATION Spec
CONSTANTS
    N = 2
    Ring = 2
    SnapshotWords = 1
    MaxWords = 3
    MaxHolds = 2
    CanFail = FALSE
INVARIANTS
    RingHoldsTogether
    AssembledAlone
    SharedWordsInStep
PROPERTY KeepsThePromise

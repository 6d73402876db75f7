\* Two threads that call frame, and a client, each making every call it may.
SPECIFICATION FairSpec
CONSTANTS
    NoThread = NoThread
    FrameThreads = {f1, f2}
    Clients = {c}
    FrameCalls = {"change", "frame", "wait"}
    ClientCalls = {"read", "change", "close", "look"}
    MaxOvertaken = 2
INVARIANTS
    OvertakenAtMostOnce
    NoLostWake
PROPERTIES
    KeepsThePromise
    ServedBesideFrames
    FrameComesThrough
    ChangeEndsTheWait

\* A core that can halt.
SPECIFICATION RunSpec
CONSTANTS
    Length = 2
    MaxFrames = 2
    MaxSteps = 1
    Debugs = {TRUE}
INVARIANT HaltedIsInsideAFrame

SPECIFICATION FairSpec
CONSTANTS
    Stream <- MCStream
    MaxBuffered = 3
    Window = 3
    ClearsInWait = FALSE
    MaxWait = 1
    MaxTime = 3
    MaxFrames = 4
INVARIANT DecodesAfterReferences
PROPERTY NextFrameAnswered
CHECK_DEADLOCK FALSE

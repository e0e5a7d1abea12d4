SPECIFICATION Spec
CONSTANTS
    Mod = 32
    Streams <- MCStreams
    InitialSize = 4
    MaxSize = 4
    Window = 6
    MaxJump = 3
    MaxLate = 2
    Aliasing = FALSE
    PaddingFirst = FALSE
    MaxGopPacketAge = 5
    MaxGopInfoAge = 4
    MaxPaddingAge = 6
    MaxStashedFrames = 1
INVARIANTS RefersToPrevious NoFrameWaitsInVain
CHECK_DEADLOCK FALSE

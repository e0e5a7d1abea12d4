SPECIFICATION Spec
CONSTANTS
    Mod = 32
    Streams <- MCStreams
    InitialSize = 2
    MaxSize = 8
    Window = 6
    MaxJump = 3
    MaxLate = 7
    Aliasing = FALSE
INVARIANTS  NoFrameStuck
PROPERTIES FramesWhole

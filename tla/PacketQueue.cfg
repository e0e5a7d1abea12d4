SPECIFICATION Spec
CONSTANTS
    audio = audio
    video = video
    Ssrcs <- MCSsrcs
    Kinds <- MCKinds
    HeaderSize = 1
    Overheads = {0, 2}
    kMaxLeadingSize = 2
    OverheadOrder = TRUE
    MayPause = TRUE
    MaxPackets = 4
    MaxTime = 2
INVARIANTS
    Scheduling
    TotalsAreSums
PROPERTY
    LeavesInOrder
CHECK_DEADLOCK FALSE

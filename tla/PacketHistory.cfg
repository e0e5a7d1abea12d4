SPECIFICATION Spec
CONSTANTS
    Mod = 32
    kMaxCapacity = 3
    kMaxPaddingtHistory = 3
    kMinPacketDurationMs = 1
    kMinPacketDurationRttFactor = 1
    kPacketCullingDelayFactor = 2
    enable_padding_prio = TRUE
    NumbersToStore = {2}
    Enables = {TRUE, FALSE}
    FirstSeq = {30}
    Jumps = {8}
    Gaps = {2}
    Rtts = {1}
    MaxInserted = 4
    MaxSends = 2
    MaxTime = 4
INVARIANTS HistoryConsistent PendingIffQueued RetransmissionsSpaced
PROPERTIES KeptLongEnough
CHECK_DEADLOCK FALSE

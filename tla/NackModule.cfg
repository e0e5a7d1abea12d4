SPECIFICATION Spec
CONSTANTS
    Mod = 20
    kMaxPacketAge = 4
    kMaxNackPacketCount = 3
    kMaxNackRetries = 2
    SendNackDelay = 0
    Rtts = {1, 2}
    DefaultRtt = 1
    Starts = {16}
    MaxIndex = 22
    Jump = 5
    MaxTime = 2
    KeyFrames = {18, 21}
    ClearsAheadOfNewest = FALSE
INVARIANTS
    NoNackForReceived
    NoSilentLoss
    NackBudget
CHECK_DEADLOCK FALSE

SPECIFICATION MCSpec
CONSTANTS
    Mod = 16
    MaxProtected = 4
    MaxTracked = 6
    MaxFecKept = 2
    OldThreshold = 3
    MinMedia = 2
    Ssrc = 1000
    Params <- MCParams
    Tables <- MCTables
    Lengths <- MCLengths
    TooLong <- MCTooLong
    Offset = 12
    MaxPackets = 7
    MaxLate = 3
INVARIANTS  RecoveryComplete
CHECK_DEADLOCK FALSE

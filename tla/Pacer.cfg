SPECIFICATION Spec
CONSTANTS
    Interval = 4
    HoldBack = 1
    kMaxElapsedTime = 20
    DebtCap = 6
    PaddingRates = {0, 1}
    CanPad = TRUE
    AudioSize = 1
    VideoSize = 4
    PaddingSize = 2
    account_for_audio = FALSE
    send_padding_if_silent = FALSE
    Windows = {0, 4}
    MaxChanges = 2
    MaxPackets = 2
    MaxTime = 8
INVARIANTS WakesInTime  NeverSilent 
CHECK_DEADLOCK FALSE

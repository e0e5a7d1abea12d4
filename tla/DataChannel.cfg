SPECIFICATION Spec
CONSTANTS
    Streams = {0}
    SendSpace = 2
    Sizes = {2}
    MayGoDown = TRUE
    MaxMessages = 2
INVARIANTS   CallbacksAlternate 
CHECK_DEADLOCK FALSE

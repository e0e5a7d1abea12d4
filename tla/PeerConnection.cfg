SPECIFICATION FairSpec
CONSTANTS
    a = a
    Mids = {a}
    RemoteDescriptions <- MCDescriptions
    AutoNegotiation = TRUE
    RacingAdd = FALSE
    FastFlaps = FALSE
    MaxCalls = 3
    MaxEvents = 4
    MaxPending = 1
    MaxChannels = 2
INVARIANTS AssertsHold   ReportsConnected 
PROPERTIES  ImplementsOfferAnswer
CHECK_DEADLOCK FALSE

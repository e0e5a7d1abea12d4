SPECIFICATION FairSpec
CONSTANTS
    Callers = {c1, c2}
    Invokers = {c1}
    MaxTasks = 3
    MaxDelay = 2
    MaxTime = 2
INVARIANTS
    InvokeBlocksUntilComplete
    PostedInOrder
    NeverEarly
    DeleteDrains
    RunsOnce
PROPERTIES
    WaitersReleased
CHECK_DEADLOCK FALSE

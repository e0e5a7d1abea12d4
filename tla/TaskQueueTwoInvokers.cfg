SPECIFICATION Spec
CONSTANTS
    Callers = {c1, c2}
    Invokers = {c1, c2}
    MaxTasks = 2
    MaxDelay = 0
    MaxTime = 0
INVARIANTS
    InvokeBlocksUntilComplete
CHECK_DEADLOCK FALSE

CONSTANTS
    RunIds = {r1, r2}
    BadFrame = bad
    Capacity = 2
    MaxAttempts = 2
    MaxTriggers = 2
    MaxTasks = 2
    Cancellable = {r1}
    MaxOrders = 1
    MaxFacts = 1
    MaxFaults = 1
    MaxClones = 1
    Panics = TRUE
SPECIFICATION Spec
PROPERTY ShutdownReturns
INVARIANTS SlotsHold BusTold CaughtUp
CHECK_DEADLOCK TRUE

SPECIFICATION Spec
CONSTANTS
    x = x
    y = y
    z = z
    Tasks <- MCTasks
    LlmCalls = {x, y}
    Est <- MixedEst
    Cap = 2
    ReviewCost = 1
    FailedCost = 1
    HasDeadline = TRUE
    MaxSpend = 2
CHECK_DEADLOCK FALSE
INVARIANTS
    CommittedWithinCap
    InFlightReserved
PROPERTIES
    ReleasedWithCall

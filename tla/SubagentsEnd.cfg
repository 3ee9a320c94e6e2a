SPECIFICATION FairSpec
CONSTANTS
    NumTasks = 2
    MaxIterations = 3
    Threshold = 2
    MaxAttempts = 1
    MaxMessages = 1
    MaxFaults = 1
CHECK_DEADLOCK FALSE
PROPERTIES
    SupervisorEnds

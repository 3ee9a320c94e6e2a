SPECIFICATION Spec
CONSTANTS
    NumTasks = 2
    MaxIterations = 3
    Threshold = 2
    MaxAttempts = 2
    MaxMessages = 1
    MaxFaults = 1
CHECK_DEADLOCK FALSE
INVARIANTS
    DeliveredOnce
    RunsSettled
    OutcomesTotal
    
PROPERTIES
    TerminalRunFinal

SPECIFICATION FairSpec
CONSTANTS
    r = r
    a = a
    b = b
    w = w
    x = x
    y = y
    z = z
    f = f
    NoBranch = NoBranch
    Paths = {f}
    Tasks <- SharingTasks
    Deps <- SharingDeps
    Scope <- SharingScope
    Routers = {}
    Evaluators = {}
    HitlTasks = {z}
    MaxParallel = 2
    MaxAttempts = 2
    HasDeadline = FALSE
    CanCrash = TRUE
    CancelFrom = {"executor_process", "other_process"}
    RetryModes = {}
    Callers = {"terminal"}
CHECK_DEADLOCK FALSE
PROPERTIES
    
    
    ResumeWakes

SPECIFICATION Spec
CONSTANTS
    r = r
    a = a
    b = b
    w = w
    x = x
    y = y
    z = z
    f = f
    NoBranch = NoBranch
    Paths = {f}
    Tasks <- RoutingTasks
    Deps <- RoutingDeps
    Scope <- RoutingScope
    Routers = {r}
    Evaluators = {}
    HitlTasks = {}
    MaxParallel = 0
    MaxAttempts = 1
    HasDeadline = FALSE
    CanCrash = FALSE
    CancelFrom = {}
    RetryModes = {"failed"}
    Callers = {"terminal", "background"}
CHECK_DEADLOCK FALSE
INVARIANTS
    CompletedMeansDone
    
PROPERTIES
    OnlyPickedBranchRuns

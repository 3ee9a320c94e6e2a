SPECIFICATION FairSpec
CONSTANTS
    x = x
    Tasks = {x}
    Attempts <- MCAttempts
    MaxChunks = 1
CHECK_DEADLOCK FALSE
INVARIANTS
    TextIsOwn
    AgentTold
    NothingLeft
PROPERTIES
    TurnEnds

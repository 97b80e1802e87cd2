SPECIFICATION FairSpec
CONSTANTS
    a = a
    b = b
    c = c
    d = d
    NoCheckpoint = NoCheckpoint
    Tasks <- MCTasks
    Plans <- MCPlan
    MaxConcurrency = 2
    MaxAttempts = 2
    Budget <- MCNoFaults
CHECK_DEADLOCK FALSE
PROPERTY EveryTaskHasItsInputs

SPECIFICATION FairSpec
CONSTANTS
    a = a
    b = b
    c = c
    d = d
    NoCheckpoint = NoCheckpoint
    Tasks <- MCTasks
    Plans <- MCPlans
    MaxConcurrency = 2
    MaxAttempts = 2
    Budget <- MCBudget
\* An execution that has ended, with no crash left to come, stops.
CHECK_DEADLOCK FALSE
INVARIANT TypeOK
INVARIANT StartedAfterDependencies
INVARIANT NothingLeftRunning
INVARIANT FailureIsContained
PROPERTY ExecutionEnds
PROPERTY GraphExecutionSpec
PROPERTY MarksAreLegal

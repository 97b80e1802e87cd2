\* PlanPipeline: MaxDepth is reached by a completed plan with one layer of searches,
\* MaxNodes by one with three subtasks, MaxFanOut by a search with two dependents of the
\* planner's.
CONSTANTS
    SubtaskIds <- MCSubtaskIds
    Decompositions <- MCDecompositions
    MaxSubtasks = 6
    MaxNodes = 7
    MaxDepth = 5
    MaxFanOut = 4
    MaxRefinements = 2
    MaxRubrics = 1
\* RateLimiter
CONSTANTS
    Keys = {"k1", "k2"}
    MaxRequests = 2
    Window = 2
    MaxClock = 4
\* EvidenceIndex: documents of one chunk, several and too many, too long, and half blank.
CONSTANTS
    Tasks = {"t1", "t2"}
    Runs = {"r1", "r2"}
    Docs = {"a", "b", "c", "d", "e"}
    Length <- MCLength
    Blank <- MCBlank
    Similar <- MCSimilar
    Assignments <- MCAssignments
    Answer <- MCAnswer
    MaxResults = 2
    ChunkSize = 3
    ChunkOverlap = 1
    MaxChunks = 2
    MaxText = 10
    HitsPerRecord = 2
    MinHits = 3
    MaxCallRetries = 1
    MaxTaskAttempts = 2
    MaxFaults = 1
    MaxRestarts = 1
\* ResearchDossier: one claim and one finding of what may be two, and the code's refinements.
CONSTANTS
    Designs <- MCDesigns
    Miscast <- MCMiscast
    Harvests <- MCHarvests
    Documented = {"t1", "t2"}
    States <- MCStates
    Opposed <- MCOpposed
    Headline <- MCHeadline
    Covers <- MCCovers
    GoalWords = {"w1", "w2", "w3"}
    Domain <- MCDomain
    MaxClaims = 1
    MaxFindings = 1
    MaxLoops = 2
\* PubSubConsumer: the job of a second recovery, with the attempts 2 and 3.
CONSTANTS
    Jobs = {"r1"}
    Slots = {"s1", "s2"}
    FirstAttempt <- MCFirstAttempt
    LastAttempt <- MCLastAttempt
    MaxDeliveries = 2
    MaxMishaps = 1
\* InMemoryQueue
CONSTANTS
    LocalJobs = {"j1", "j2"}
    LocalSlots = {"s1", "s2"}
    MaxLocalAttempts = 3
    MaxStops = 2
\* RunResults
CONSTANTS
    MaxStorageRetries = 2
    MaxExecutions = 3
    MaxTroubles = 2
SPECIFICATION ComponentsSpec
\* A rejected plan, a compiled dossier and a spent bound go no further.
CHECK_DEADLOCK FALSE
INVARIANT VerdictIsRight
INVARIANT DepthIsCriticalPath
INVARIANT ExecutedPlanIsComplete
INVARIANT RefinementIsExecutable
INVARIANT ComponentsTypeOK
INVARIANT EvidenceIsSearchable
INVARIANT OneRecordPerContent
INVARIANT FailureIsEarned
INVARIANT SearchIsComplete
INVARIANT MatchedTaskIsDispatched
INVARIANT AuditIsSound
INVARIANT DossierIsGrounded
INVARIANT NoJobIsLost
INVARIANT EveryJobHasItsPlace
INVARIANT WindowNeverExceeded
INVARIANT ListedIsServed
PROPERTY TransportsAreQueues

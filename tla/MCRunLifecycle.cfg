CONSTANTS
    h1 = h1
    h2 = h2
    s1 = s1
    s2 = s2
    p1 = p1
    p2 = p2
    supervisor1 = supervisor1
    supervisor2 = supervisor2
    NoWorker = NoWorker
    NoLease = NoLease
    NoRecord = NoRecord
    NoMessage = NoMessage
    Slots <- MCSlots
    ApiSlots = {}
    Api = Api
    Supervisors <- MCTwoSupervisors
    HostOf <- MCHostOf
    WorkerOf <- MCWorkerOf
    Leases = {l1, l2, l3, l4, l5, l6, l7, l8, l9, l10, l11}
    Duration = 1
    MaxAttempts = 2
    MaxRecovery = 1
    MaxDeliveries = 2
    MaxRefinements = 0
    ClientCancels = FALSE
    HeartbeatsKeepUp = TRUE
    ScanListsRun = TRUE
    FaultBudgets <- MCFaults
    MaxMessages = 4
SPECIFICATION FairSpec
INVARIANT TypeOK
 
INVARIANT OneAtWork
PROPERTY SettledIsFinal
 
PROPERTY RecoveryCountGrows
PROPERTY ExclusiveRunSpec

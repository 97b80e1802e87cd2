\* Five lease ids: the record and four callers refer to five at most, and a caller
\* that acquires refers to none, so that one is always unused.
CONSTANTS
    slot1 = slot1
    slot2 = slot2
    slot3 = slot3
    reaper = reaper
    w1 = w1
    w2 = w2
    supervisor = supervisor
    NoWorker = NoWorker
    NoLease = NoLease
    Callers <- MCCallers
    WorkerOf <- MCWorkerOf
    Leases = {l1, l2, l3, l4, l5}
    Duration = 2
SPECIFICATION FairSpec
INVARIANT TypeOK
INVARIANT MutualExclusion
INVARIANT HeldTimeIsRecorded
PROPERTY ReleasedByItsHolder
PROPERTY DeadHolderIsReplaceable
PROPERTY ExclusiveLeaseSpec

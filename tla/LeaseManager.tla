----------------------------- MODULE LeaseManager -----------------------------
(***************************************************************************)
(* The lease on one research run (jobs/lease.py): acquire, renew and       *)
(* release as the transactions of FirestoreLeaseManager perform them, or   *)
(* under the lock of InMemoryLeaseManager.  The callers are the worker's   *)
(* job slots, each with a heartbeat that renews (jobs/heartbeat.py), and   *)
(* the supervisors.  Slots of one process call with the same worker_id.    *)
(*                                                                         *)
(* Here the lease fields of the record change only through this manager;   *)
(* RunLifecycle adds the callers that write the whole record.              *)
(***************************************************************************)
EXTENDS RunRecord, FiniteSets

CONSTANTS Callers,    \* job slots and supervisors
          WorkerOf,   \* the worker_id each of them calls with
          Leases,     \* lease ids
          Duration    \* lease duration in ticks

ASSUME DurationAssumption == Duration \in Nat \ {0}
ASSUME NoLeaseAssumption == NoLease \notin Leases

Workers == {WorkerOf[c] : c \in Callers}

ASSUME NoWorkerAssumption == NoWorker \notin Workers
ASSUME WorkerOfAssumption == DOMAIN WorkerOf = Callers

VARIABLES record,     \* the lease fields of the run's record
          held,       \* the WorkerLease each caller was given last
          beating     \* callers whose heartbeat loop is running

vars == <<record, held, beating>>

NoGrant == [lease |-> NoLease, ttl |-> 0]
Grants == [lease : Leases \cup {NoLease}, ttl : 0..Duration]
Records == [worker : Workers \cup {NoWorker},
            lease : Leases \cup {NoLease},
            ttl : 0..Duration]

\* lease_id is a fresh uuid: none that is still referred to.
Unused == Leases \ ({record.lease} \cup {held[c].lease : c \in Callers})

Init ==
    /\ record = [worker |-> NoWorker, lease |-> NoLease, ttl |-> 0]
    /\ held = [c \in Callers |-> NoGrant]
    /\ beating = [c \in Callers |-> FALSE]

\* acquire_lease by a caller that holds nothing, followed by heartbeat.start().
\* A tick is longer than a transaction: the clock Firestore's manager reads before
\* the transaction is still right when it commits.
AcquireLease(c, l) ==
    /\ held[c] = NoGrant
    /\ LeaseAvailable(record, WorkerOf[c])
    /\ record' = Granted(record, WorkerOf[c], l, Duration)
    /\ held' = [held EXCEPT ![c] = [lease |-> l, ttl |-> Duration]]
    /\ beating' = [beating EXCEPT ![c] = TRUE]

\* One round of the heartbeat loop that finds the lease still its own.
RenewLease(c) ==
    /\ beating[c]
    /\ OwnsLease(record, WorkerOf[c], held[c].lease)
    /\ record' = Renewed(record, Duration)
    /\ held' = [held EXCEPT ![c].ttl = Duration]
    /\ UNCHANGED beating

\* One round of the heartbeat loop that finds the lease lost: the loop ends.  No
\* on_lease_lost callback is installed, so the holder is not told.
HeartbeatEnds(c) ==
    /\ beating[c]
    /\ ~OwnsLease(record, WorkerOf[c], held[c].lease)
    /\ beating' = [beating EXCEPT ![c] = FALSE]
    /\ UNCHANGED <<record, held>>

\* heartbeat.stop() and release_lease: a lease that is no longer the caller's own
\* is left alone.
ReleaseLease(c) ==
    /\ held[c] # NoGrant
    /\ record' = IF OwnsLease(record, WorkerOf[c], held[c].lease)
                 THEN ClearLease(record) ELSE record
    /\ held' = [held EXCEPT ![c] = NoGrant]
    /\ beating' = [beating EXCEPT ![c] = FALSE]

\* The caller's process dies.  The record keeps its lease.
Crash(c) ==
    /\ held[c] # NoGrant
    /\ held' = [held EXCEPT ![c] = NoGrant]
    /\ beating' = [beating EXCEPT ![c] = FALSE]
    /\ UNCHANGED record

\* Time passes.
Tick ==
    /\ \/ record.ttl > 0
       \/ \E c \in Callers : held[c].ttl > 0
    /\ record' = Aged(record)
    /\ held' = [c \in Callers |-> Aged(held[c])]
    /\ UNCHANGED beating

Next ==
    \/ \E c \in Callers :
          \/ \E l \in Unused : AcquireLease(c, l)
          \/ RenewLease(c)
          \/ HeartbeatEnds(c)
          \/ ReleaseLease(c)
          \/ Crash(c)
    \/ Tick

Spec == Init /\ [][Next]_vars

\* The clock does not stop.
FairSpec == Spec /\ WF_vars(Tick)

-------------------------------------------------------------------------------
TypeOK ==
    /\ record \in Records
    /\ held \in [Callers -> Grants]
    /\ beating \in [Callers -> BOOLEAN]

\* A caller whose worker_id no other caller uses: the only slot of its process, or a
\* supervisor.
HasOwnId(c) == \A d \in Callers : WorkerOf[d] = WorkerOf[c] => d = c

\* Two callers with worker_ids of their own never both have time left of a lease: a
\* run is not executed under two leases.
MutualExclusion ==
    \A c, d \in Callers :
        /\ HasOwnId(c) /\ held[c].ttl > 0
        /\ HasOwnId(d) /\ held[d].ttl > 0
        => c = d

\* Time left of a lease is time the record still grants, to the last tick: nobody
\* acquires before its holder has run out of time, and an expired lease is free.
HeldTimeIsRecorded ==
    \A c \in Callers :
        HasOwnId(c) /\ held[c].ttl > 0
        => /\ OwnsLease(record, WorkerOf[c], held[c].lease)
           /\ record.ttl = held[c].ttl

\* A lease taken off the record is taken off by the caller that holds it: a caller
\* whose lease was superseded cannot release its successor's, not even the
\* successor with the same worker_id.
ReleaseStep ==
    record.lease # NoLease /\ record'.lease = NoLease
        => \E c \in Callers : /\ held[c].lease = record.lease
                              /\ held'[c] = NoGrant
ReleasedByItsHolder == [][ReleaseStep]_vars

\* A lease whose holder died does not keep the run: in the end every worker can
\* acquire it.
DeadHolderIsReplaceable ==
    \A l \in Leases :
        (record.lease = l /\ \A c \in Callers : held[c].lease # l)
            ~> (\A w \in Workers : LeaseAvailable(record, w)) \/ record.lease # l

\* The manager implements the exclusive lease: the owner is the recorded worker
\* for as long as the recorded lease lasts.
Exclusive == INSTANCE ExclusiveLease WITH
    Owners <- Workers,
    Nobody <- NoWorker,
    owner <- IF record.ttl > 0 THEN record.worker ELSE NoWorker

ExclusiveLeaseSpec == Exclusive!Spec
===============================================================================

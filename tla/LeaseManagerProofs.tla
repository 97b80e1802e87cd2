--------------------------- MODULE LeaseManagerProofs ---------------------------
(***************************************************************************)
(* Proofs about LeaseManager, for any number of callers, any assignment of *)
(* worker_ids to them and any lease duration.                              *)
(*                                                                         *)
(* MutualExclusion is not inductive: that two callers never both have time *)
(* left follows from HeldTimeIsRecorded, which ties the time each of them  *)
(* counts down to the one record they share.  HeldTimeIsRecorded in turn   *)
(* needs that a grant with time left, and a running heartbeat, have a      *)
(* lease id: a record without one is free to acquire.                      *)
(***************************************************************************)
EXTENDS LeaseManager, TLAPS

\* A caller with time left or with a heartbeat holds a lease id.
GrantsHaveLeases ==
    \A c \in Callers :
        held[c].ttl > 0 \/ beating[c] => held[c].lease # NoLease

\* A lease that has time left is somebody's.
RecordIsWhole ==
    record.ttl > 0 => record.worker # NoWorker /\ record.lease # NoLease

IInv ==
    /\ TypeOK
    /\ HeldTimeIsRecorded
    /\ GrantsHaveLeases
    /\ RecordIsWhole

-------------------------------------------------------------------------------
\* What is left of a duration after one tick is a duration, and less than what was.
LEMMA OneTickLessType ==
    ASSUME NEW t \in 0..Duration
    PROVE  /\ OneTickLess(t) \in 0..Duration
           /\ OneTickLess(t) > 0 => t > 0
  BY DurationAssumption DEF OneTickLess

\* Every caller calls as a worker.
LEMMA CallersAreWorkers == \A c \in Callers : WorkerOf[c] \in Workers
  BY DEF Workers

\* An unused lease id is a lease id, and not the absent one.
LEMMA UnusedAreLeases == \A l \in Unused : l \in Leases /\ l # NoLease
  BY NoLeaseAssumption DEF Unused

\* The record operations return records.
LEMMA RecordOperationsType ==
    ASSUME NEW rec \in Records
    PROVE  /\ \A w \in Workers, l \in Leases : Granted(rec, w, l, Duration) \in Records
           /\ Renewed(rec, Duration) \in Records
           /\ ClearLease(rec) \in Records
           /\ Aged(rec) \in Records
<1>1. Duration \in 0..Duration /\ 0 \in 0..Duration
  BY DurationAssumption
<1>2. OneTickLess(rec.ttl) \in 0..Duration
  BY OneTickLessType DEF Records
<1>3. QED
  BY <1>1, <1>2 DEF Records, Granted, Renewed, ClearLease, Aged

\* The grants the callers are given, and what is left of them later, are grants.
LEMMA GrantOperationsType ==
    /\ \A l \in Leases : [lease |-> l, ttl |-> Duration] \in Grants
    /\ NoGrant \in Grants
    /\ \A g \in Grants : [g EXCEPT !.ttl = Duration] \in Grants /\ Aged(g) \in Grants
<1>1. Duration \in 0..Duration /\ 0 \in 0..Duration
  BY DurationAssumption
<1>2. \A g \in Grants : OneTickLess(g.ttl) \in 0..Duration
  BY OneTickLessType DEF Grants
<1>3. QED
  BY <1>1, <1>2 DEF Grants, NoGrant, Aged

\* Every step keeps the types.
LEMMA NextTypeOK == TypeOK /\ [Next]_vars => TypeOK'
<1> SUFFICES ASSUME TypeOK, [Next]_vars
             PROVE  TypeOK'
  OBVIOUS
<1> USE RecordOperationsType, GrantOperationsType DEF TypeOK
<1>1. ASSUME NEW c \in Callers, NEW l \in Unused, AcquireLease(c, l)
      PROVE  TypeOK'
  BY <1>1, UnusedAreLeases, CallersAreWorkers DEF AcquireLease
<1>2. ASSUME NEW c \in Callers, RenewLease(c)
      PROVE  TypeOK'
  BY <1>2 DEF RenewLease
<1>3. ASSUME NEW c \in Callers, HeartbeatEnds(c)
      PROVE  TypeOK'
  BY <1>3 DEF HeartbeatEnds
<1>4. ASSUME NEW c \in Callers, ReleaseLease(c)
      PROVE  TypeOK'
  BY <1>4 DEF ReleaseLease
<1>5. ASSUME NEW c \in Callers, Crash(c)
      PROVE  TypeOK'
  BY <1>5 DEF Crash
<1>6. ASSUME Tick
      PROVE  TypeOK'
  BY <1>6 DEF Tick
<1>7. CASE UNCHANGED vars
  BY <1>7 DEF vars
<1>8. QED
  BY <1>1, <1>2, <1>3, <1>4, <1>5, <1>6, <1>7 DEF Next

\* The initial state satisfies the inductive invariant.
LEMMA InitIInv == Init => IInv
<1> SUFFICES ASSUME Init PROVE IInv
  OBVIOUS
<1>1. \A c \in Callers : held[c].ttl = 0 /\ ~beating[c]
  BY DEF Init, NoGrant
<1>2. TypeOK
  <2>1. record \in Records
    BY DurationAssumption DEF Init, Records
  <2>2. held \in [Callers -> Grants] /\ beating \in [Callers -> BOOLEAN]
    BY GrantOperationsType DEF Init
  <2>3. QED
    BY <2>1, <2>2 DEF TypeOK
<1>3. RecordIsWhole
  BY DEF Init, RecordIsWhole
<1>4. QED
  BY <1>1, <1>2, <1>3 DEF IInv, HeldTimeIsRecorded, GrantsHaveLeases

\* Every step keeps time and heartbeats with lease ids.
LEMMA NextGrantsHaveLeases == IInv /\ [Next]_vars => GrantsHaveLeases'
<1> SUFFICES ASSUME IInv, [Next]_vars,
                    NEW e \in Callers,
                    held'[e].ttl > 0 \/ beating'[e]
             PROVE  held'[e].lease # NoLease
  BY DEF GrantsHaveLeases
<1> USE DEF IInv, TypeOK, GrantsHaveLeases
<1>0. held[e] \in Grants
  OBVIOUS
<1>1. ASSUME NEW c \in Callers, NEW l \in Unused, AcquireLease(c, l)
      PROVE  held'[e].lease # NoLease
  BY <1>1, UnusedAreLeases DEF AcquireLease
<1>2. ASSUME NEW c \in Callers, RenewLease(c)
      PROVE  held'[e].lease # NoLease
  BY <1>0, <1>2 DEF RenewLease, Grants
<1>3. ASSUME NEW c \in Callers, HeartbeatEnds(c)
      PROVE  held'[e].lease # NoLease
  BY <1>3 DEF HeartbeatEnds
<1>4. ASSUME NEW c \in Callers, ReleaseLease(c) \/ Crash(c)
      PROVE  held'[e].lease # NoLease
  BY <1>4 DEF ReleaseLease, Crash, NoGrant
<1>5. ASSUME Tick
      PROVE  held'[e].lease # NoLease
  <2>1. held'[e].lease = held[e].lease /\ held'[e].ttl = OneTickLess(held[e].ttl)
    BY <1>0, <1>5 DEF Tick, Aged, Grants
  <2>2. held'[e].ttl > 0 => held[e].ttl > 0
    BY <1>0, <2>1, OneTickLessType DEF Grants
  <2>3. QED
    BY <1>5, <2>1, <2>2 DEF Tick
<1>6. CASE UNCHANGED vars
  BY <1>6 DEF vars
<1>7. QED
  BY <1>1, <1>2, <1>3, <1>4, <1>5, <1>6 DEF Next

\* Every step keeps a lease with time left somebody's.
LEMMA NextRecordIsWhole == IInv /\ [Next]_vars => RecordIsWhole'
<1> SUFFICES ASSUME IInv, [Next]_vars, record'.ttl > 0
             PROVE  record'.worker # NoWorker /\ record'.lease # NoLease
  BY DEF RecordIsWhole
<1> USE DEF IInv, TypeOK, RecordIsWhole, Records
<1>1. ASSUME NEW c \in Callers, NEW l \in Unused, AcquireLease(c, l)
      PROVE  record'.worker # NoWorker /\ record'.lease # NoLease
  BY <1>1, UnusedAreLeases, CallersAreWorkers, NoWorkerAssumption
  DEF AcquireLease, Granted
<1>2. ASSUME NEW c \in Callers, RenewLease(c)
      PROVE  record'.worker # NoWorker /\ record'.lease # NoLease
  BY <1>2, CallersAreWorkers, NoWorkerAssumption
  DEF RenewLease, Renewed, OwnsLease, GrantsHaveLeases
<1>3. ASSUME NEW c \in Callers, ReleaseLease(c)
      PROVE  record'.worker # NoWorker /\ record'.lease # NoLease
  BY <1>3 DEF ReleaseLease, ClearLease
<1>4. ASSUME NEW c \in Callers, HeartbeatEnds(c) \/ Crash(c)
      PROVE  record'.worker # NoWorker /\ record'.lease # NoLease
  BY <1>4 DEF HeartbeatEnds, Crash
<1>5. ASSUME Tick
      PROVE  record'.worker # NoWorker /\ record'.lease # NoLease
  BY <1>5, OneTickLessType DEF Tick, Aged
<1>6. CASE UNCHANGED vars
  BY <1>6 DEF vars
<1>7. QED
  BY <1>1, <1>2, <1>3, <1>4, <1>5, <1>6 DEF Next

\* Every step keeps the callers' time equal to the record's.  The callers' own ids
\* matter where another caller, c, acquires, renews or releases: it would have to
\* share the worker_id of the caller e whose time is left.
LEMMA NextHeldTimeIsRecorded == IInv /\ [Next]_vars => HeldTimeIsRecorded'
<1> DEFINE Holds(e) == /\ OwnsLease(record, WorkerOf[e], held[e].lease)
                       /\ record.ttl = held[e].ttl
<1> SUFFICES ASSUME IInv, [Next]_vars,
                    NEW e \in Callers, HasOwnId(e), held'[e].ttl > 0
             PROVE  Holds(e)'
  BY DEF HeldTimeIsRecorded
<1> USE DEF IInv, TypeOK
<1>0. /\ held[e] \in Grants
      /\ record \in Records
      /\ held[e].ttl > 0 => Holds(e) /\ held[e].lease # NoLease
  BY DEF HeldTimeIsRecorded, GrantsHaveLeases
<1>1. ASSUME NEW c \in Callers, NEW l \in Unused, AcquireLease(c, l)
      PROVE  Holds(e)'
  <2>1. CASE e = c
    BY <1>0, <1>1, <2>1 DEF AcquireLease, Granted, OwnsLease, Records
  <2>2. CASE e # c
    <3>1. held[e].ttl > 0
      BY <1>1, <2>2 DEF AcquireLease
    <3>2. WorkerOf[c] # WorkerOf[e]
      BY <2>2 DEF HasOwnId
    <3>3. ~LeaseAvailable(record, WorkerOf[c])
      BY <1>0, <3>1, <3>2 DEF LeaseAvailable, OwnsLease, Grants
    <3>4. QED
      BY <1>1, <3>3 DEF AcquireLease
  <2>3. QED
    BY <2>1, <2>2
<1>2. ASSUME NEW c \in Callers, RenewLease(c)
      PROVE  Holds(e)'
  <2>1. CASE e = c
    BY <1>0, <1>2, <2>1 DEF RenewLease, Renewed, OwnsLease, Records, Grants
  <2>2. CASE e # c
    <3>1. held[e].ttl > 0
      BY <1>2, <2>2 DEF RenewLease
    <3>2. WorkerOf[c] = WorkerOf[e]
      BY <1>0, <1>2, <3>1 DEF RenewLease, OwnsLease
    <3>3. QED
      BY <2>2, <3>2 DEF HasOwnId
  <2>3. QED
    BY <2>1, <2>2
<1>3. ASSUME NEW c \in Callers, ReleaseLease(c)
      PROVE  Holds(e)'
  <2>1. e # c /\ held'[e] = held[e]
    BY <1>3 DEF ReleaseLease, NoGrant
  <2>2. WorkerOf[c] # WorkerOf[e]
    BY <2>1 DEF HasOwnId
  <2>3. ~OwnsLease(record, WorkerOf[c], held[c].lease)
    BY <1>0, <2>1, <2>2 DEF OwnsLease
  <2>4. QED
    BY <1>0, <1>3, <2>1, <2>3 DEF ReleaseLease
<1>4. ASSUME NEW c \in Callers, HeartbeatEnds(c) \/ Crash(c)
      PROVE  Holds(e)'
  <2>1. held'[e] = held[e] /\ record' = record
    BY <1>4 DEF HeartbeatEnds, Crash, NoGrant
  <2>2. QED
    BY <1>0, <2>1
<1>5. ASSUME Tick
      PROVE  Holds(e)'
  <2>1. /\ held'[e].lease = held[e].lease
        /\ held'[e].ttl = OneTickLess(held[e].ttl)
    BY <1>0, <1>5 DEF Tick, Aged, Grants
  <2>2. held[e].ttl > 0
    BY <1>0, <2>1, OneTickLessType DEF Grants
  <2>3. QED
    BY <1>0, <1>5, <2>1, <2>2 DEF Tick, Aged, OwnsLease, Records
<1>6. CASE UNCHANGED vars
  BY <1>0, <1>6 DEF vars
<1>7. QED
  BY <1>1, <1>2, <1>3, <1>4, <1>5, <1>6 DEF Next

\* The inductive invariant is one.
LEMMA NextIInv == IInv /\ [Next]_vars => IInv'
  BY NextTypeOK, NextHeldTimeIsRecorded, NextGrantsHaveLeases, NextRecordIsWhole
  DEF IInv

\* The inductive invariant holds in every reachable state.
LEMMA SpecIInv == Spec => []IInv
<1>1. Spec => Init /\ [][Next]_vars
  BY DEF Spec
<1>2. QED
  BY <1>1, InitIInv, NextIInv, PTL

-------------------------------------------------------------------------------
\* The record, the grants and the heartbeats have their types in every state.
THEOREM TypeCorrectness == Spec => []TypeOK
<1>1. IInv => TypeOK
  BY DEF IInv
<1>2. QED
  BY <1>1, SpecIInv, PTL

\* The time a caller with a worker_id of its own has left is the record's.
THEOREM HeldTimeRecorded == Spec => []HeldTimeIsRecorded
<1>1. IInv => HeldTimeIsRecorded
  BY DEF IInv
<1>2. QED
  BY <1>1, SpecIInv, PTL

\* No run is executed under two leases that both have time left, by callers with
\* worker_ids of their own: both would be the worker that the one record names.
THEOREM MutualExclusionHolds == Spec => []MutualExclusion
<1>1. IInv => MutualExclusion
  BY DEF IInv, HeldTimeIsRecorded, MutualExclusion, OwnsLease, HasOwnId
<1>2. QED
  BY <1>1, SpecIInv, PTL

\* Only the caller that holds a lease takes it off the record, for callers that
\* share a worker_id too.
THEOREM ReleasedByItsHolderHolds == Spec => ReleasedByItsHolder
<1>1. IInv /\ [Next]_vars => [ReleaseStep]_vars
  <2> SUFFICES ASSUME IInv, Next,
                      record.lease # NoLease, record'.lease = NoLease
               PROVE  \E c \in Callers : /\ held[c].lease = record.lease
                                         /\ held'[c] = NoGrant
    BY DEF ReleaseStep
  <2> USE DEF IInv, TypeOK
  <2>1. ASSUME NEW c \in Callers, NEW l \in Unused, AcquireLease(c, l)
        PROVE  FALSE
    BY <2>1, UnusedAreLeases DEF AcquireLease, Granted, Records
  <2>2. ASSUME NEW c \in Callers, RenewLease(c)
        PROVE  FALSE
    BY <2>2 DEF RenewLease, Renewed, Records
  <2>3. ASSUME NEW c \in Callers, HeartbeatEnds(c) \/ Crash(c)
        PROVE  FALSE
    BY <2>3 DEF HeartbeatEnds, Crash
  <2>4. ASSUME Tick
        PROVE  FALSE
    BY <2>4 DEF Tick, Aged, Records
  <2>5. ASSUME NEW c \in Callers, ReleaseLease(c)
        PROVE  held[c].lease = record.lease /\ held'[c] = NoGrant
    BY <2>5 DEF ReleaseLease, OwnsLease
  <2>6. QED
    BY <2>1, <2>2, <2>3, <2>4, <2>5 DEF Next
<1>2. Spec => [][Next]_vars
  BY DEF Spec
<1>3. QED
  BY <1>1, <1>2, SpecIInv, PTL DEF ReleasedByItsHolder

\* The manager implements the exclusive lease.
THEOREM ImplementsExclusiveLease == Spec => ExclusiveLeaseSpec
<1> DEFINE owner == IF record.ttl > 0 THEN record.worker ELSE NoWorker
<1>1. Init => Exclusive!Init
  BY DEF Init, Exclusive!Init
<1>2. IInv /\ [Next]_vars => [Exclusive!Next]_owner
  <2> SUFFICES ASSUME IInv, [Next]_vars
               PROVE  Exclusive!Next \/ owner' = owner
    OBVIOUS
  <2> USE DEF IInv, TypeOK, RecordIsWhole, Records
  <2>1. ASSUME NEW w \in Workers,
               record.ttl > 0 => record.worker = w,
               record'.worker = w
        PROVE  Exclusive!Next \/ owner' = owner
    <3>1. Exclusive!Take(w) \/ owner' = owner \/ owner' = NoWorker
      BY <2>1 DEF Exclusive!Take
    <3>2. owner' = NoWorker => Exclusive!Lose \/ owner' = owner
      BY DEF Exclusive!Lose
    <3>3. QED
      BY <3>1, <3>2 DEF Exclusive!Next
  <2>2. ASSUME owner' = NoWorker
        PROVE  Exclusive!Next \/ owner' = owner
    BY <2>2 DEF Exclusive!Next, Exclusive!Lose
  <2>3. ASSUME NEW c \in Callers, NEW l \in Unused, AcquireLease(c, l)
        PROVE  Exclusive!Next \/ owner' = owner
    <3>1. record'.worker = WorkerOf[c] /\ WorkerOf[c] \in Workers
      BY <2>3, CallersAreWorkers DEF AcquireLease, Granted
    <3>2. record.ttl > 0 => record.worker = WorkerOf[c]
      BY <2>3 DEF AcquireLease, LeaseAvailable
    <3>3. QED
      BY <2>1, <3>1, <3>2
  <2>4. ASSUME NEW c \in Callers, RenewLease(c)
        PROVE  Exclusive!Next \/ owner' = owner
    <3>1. /\ record.worker = WorkerOf[c] /\ record'.worker = WorkerOf[c]
          /\ WorkerOf[c] \in Workers
      BY <2>4, CallersAreWorkers DEF RenewLease, Renewed, OwnsLease
    <3>2. QED
      BY <2>1, <3>1
  <2>5. ASSUME NEW c \in Callers, ReleaseLease(c)
        PROVE  Exclusive!Next \/ owner' = owner
    <3>1. record' = record \/ record'.ttl = 0
      BY <2>5 DEF ReleaseLease, ClearLease
    <3>2. QED
      BY <2>2, <3>1
  <2>6. ASSUME NEW c \in Callers, HeartbeatEnds(c) \/ Crash(c)
        PROVE  Exclusive!Next \/ owner' = owner
    BY <2>6 DEF HeartbeatEnds, Crash
  <2>7. ASSUME Tick
        PROVE  Exclusive!Next \/ owner' = owner
    <3>1. record'.worker = record.worker /\ record'.ttl = OneTickLess(record.ttl)
      BY <2>7 DEF Tick, Aged
    <3>2. record'.ttl > 0 => owner' = owner
      BY <3>1, OneTickLessType
    <3>3. record'.ttl \in 0..Duration
      BY <3>1, OneTickLessType
    <3>4. QED
      BY <2>2, <3>2, <3>3
  <2>8. CASE UNCHANGED vars
    BY <2>8 DEF vars
  <2>9. QED
    BY <2>3, <2>4, <2>5, <2>6, <2>7, <2>8 DEF Next
<1>3. Spec => Init /\ [][Next]_vars
  BY DEF Spec
<1>4. QED
  BY <1>1, <1>2, <1>3, SpecIInv, PTL DEF ExclusiveLeaseSpec, Exclusive!Spec
===============================================================================

-------------------------- MODULE RunLifecycleProofs --------------------------
(***************************************************************************)
(* Proofs about RunLifecycle, for any number of slots, supervisors and     *)
(* processes, any lease duration and any of the bounds.                    *)
(*                                                                         *)
(* The type invariant needs what the types do not say: that a message, a   *)
(* read and a recovery are at hand at the pcs that use them (Equipped).    *)
(*                                                                         *)
(* OneAtWork is not inductive: that two callers are never at work together *)
(* follows from HolderWorks, which ties everyone at work to the one lease  *)
(* that the record holds.  It rests on ReadsAreFresh: what a holder read   *)
(* of the record before its update still stands, so that writing all of    *)
(* it back takes nothing away.                                             *)
(*                                                                         *)
(* QueuedRunHasJob rests on no lease.  A message keeps a QUEUED run as     *)
(* long as it is live and whoever has it is Young, that is, has not told   *)
(* the record of its job: a slot that tells it takes the run out of        *)
(* QUEUED, and one that does not returns its message or publishes another  *)
(* (JobOnItsWay), until the attempts or the deliveries are used up.        *)
(*                                                                         *)
(* That a completed run is left alone (CompletedIsClosed) needs the slot   *)
(* that wrote so and was answered by an exception: it is Unfinished until  *)
(* its except block has written once more.                                 *)
(***************************************************************************)
EXTENDS RunLifecycle, FiniteSetTheorems, TLAPS

\* What a caller needs for its next step is there.
Equipped ==
    /\ \A h \in Slots :
          /\ slot[h].pc = "idle" <=> slot[h].msg = NoMessage
          /\ slot[h].pc = "write" => slot[h].copy # NoRecord
    /\ \A s \in Supervisors :
          /\ sup[s].pc \in {"decide", "publish"} => sup[s].copy # NoRecord
          /\ sup[s].pc = "publish" => sup[s].copy.recovery + 1 =< MaxRecovery
    /\ client.pc = "write" => client.copy # NoRecord

\* A message that awaits delivery has a delivery left.
Deliverable ==
    \A m \in Messages : queue[m].state = "waiting" => queue[m].deliveries < MaxDeliveries

\* The deployment that the leases are made for: workers alone execute runs, each
\* process under a worker_id of its own and with one slot, their heartbeats keep up,
\* and no client writes the record over theirs.
LeasedDeployment ==
    /\ ApiSlots = {}
    /\ \A c, d \in Slots \cup Supervisors : WorkerOf[c] = WorkerOf[d] => c = d
    /\ HeartbeatsKeepUp
    /\ ~ClientCancels

\* Whoever is at work owns the lease of the record, which has not lapsed.
HolderWorks ==
    /\ \A h \in Slots :
          /\ slot[h].beating <=> Working(h)
          /\ Working(h) => /\ OwnsLease(record, WorkerOf[h], slot[h].lease)
                           /\ slot[h].lease # NoLease
                           /\ record.ttl > 0
    /\ \A s \in Supervisors :
          Recovering(s) => /\ OwnsLease(record, WorkerOf[s], sup[s].lease)
                           /\ sup[s].lease # NoLease
                           /\ record.ttl > 0

\* What a holder read of the record still stands.
ReadsAreFresh ==
    /\ \A h \in Slots :
          slot[h].pc = "write" => /\ slot[h].copy.ttl > 0
                                  /\ slot[h].copy.recovery = record.recovery
    /\ \A s \in Supervisors :
          sup[s].pc = "decide" => /\ sup[s].copy.recovery = record.recovery
                                  /\ sup[s].copy.status = record.status
    /\ client.pc = "none"

\* A slot whose next update is not the last of its job says that the run goes on, and
\* one whose next update is the last, that the run has ended.
JobsEndRuns ==
    \A h \in Slots : slot[h].pc \in {"read", "write"} =>
        /\ context[Own(h)].status # "QUEUED"
        /\ slot[h].then \in {"release", "finally"} <=> context[Own(h)].status \in Terminal
        /\ slot[h].then = "finally" => slot[h].again

\* A slot that has not told the record of its job: what becomes of its message leaves
\* the run with another one, or says that this one was used up.
Young(h) ==
    \/ slot[h].pc \in {"acquire", "resolve", "load", "read", "write"}
    \/ slot[h].pc \in {"release", "settle"} /\ slot[h].again
    \/ slot[h].pc = "ack" /\ slot[h].again /\ slot[h].msg.job.attempt = slot[h].msg.job.max

OnItsWay(m) == Live(m) /\ \A h \in Slots : slot[h].msg = m => Young(h)

JobOnItsWay ==
    \/ \E s \in Supervisors : sup[s].pc = "publish"
    \/ \E m \in Messages : OnItsWay(m)
    \/ UsedUp
    \/ faults["publish"] > 0

QueuedRunAwaitsJob ==
    /\ record.status = "QUEUED" /\ api = "published" => JobOnItsWay
    /\ api = "failed" => faults["publish"] > 0

TypeInv == TypeOK /\ Equipped /\ Deliverable
LeaseInv == TypeInv /\ HolderWorks /\ ReadsAreFresh
JobInv == TypeInv /\ JobsEndRuns /\ QueuedRunAwaitsJob

-------------------------------------------------------------------------------
\* What a function makes of a finite set is no larger than the set.
LEMMA ImageSize ==
    ASSUME NEW S, IsFiniteSet(S), NEW f
    PROVE  /\ IsFiniteSet({f[x] : x \in S})
           /\ Cardinality({f[x] : x \in S}) =< Cardinality(S)
<1> DEFINE T == {f[x] : x \in S}
           m == [x \in S |-> f[x]]
<1>1. m \in Surjection(S, T)
  BY DEF Surjection
<1>2. QED
  BY <1>1, FS_Surjection

\* The union of two finite sets is no larger than the two together.
LEMMA UnionSize ==
    ASSUME NEW S, IsFiniteSet(S), NEW T, IsFiniteSet(T)
    PROVE  /\ IsFiniteSet(S \cup T)
           /\ Cardinality(S \cup T) =< Cardinality(S) + Cardinality(T)
<1>1. /\ IsFiniteSet(S \cup T)
      /\ Cardinality(S \cup T) = Cardinality(S) + Cardinality(T) - Cardinality(S \cap T)
  BY FS_Union
<1>2. /\ Cardinality(S) \in Nat /\ Cardinality(T) \in Nat
      /\ Cardinality(S \cap T) \in Nat
  BY FS_CardinalityType, FS_Intersection
<1>3. QED
  BY <1>1, <1>2

\* There is always a fresh lease id.
LEMMA FreshLease == NewLease \in Leases /\ NewLease \notin Referred
<1> DEFINE A == {slot[h].lease : h \in Slots}
           B == {sup[s].lease : s \in Supervisors}
           C == {slot[h].copy : h \in Slots}
           D == {sup[s].copy : s \in Supervisors}
           E == (C \cup D \cup {client.copy}) \ {NoRecord}
           F == {r.lease : r \in E}
           n == Cardinality(Slots)
           m == Cardinality(Supervisors)
<1>1. IsFiniteSet(Slots) /\ IsFiniteSet(Supervisors) /\ n \in Nat /\ m \in Nat
  BY SlotsAssumption, FS_CardinalityType
<1>2. /\ IsFiniteSet(A) /\ Cardinality(A) =< n
      /\ IsFiniteSet(C) /\ Cardinality(C) =< n
  <2> DEFINE f == [h \in Slots |-> slot[h].lease]
             g == [h \in Slots |-> slot[h].copy]
  <2>1. A = {f[x] : x \in Slots} /\ C = {g[x] : x \in Slots}
    OBVIOUS
  <2> HIDE DEF f, g, A, B, C, D
  <2>2. QED
    BY <1>1, <2>1, ImageSize
<1>3. /\ IsFiniteSet(B) /\ Cardinality(B) =< m
      /\ IsFiniteSet(D) /\ Cardinality(D) =< m
  <2> DEFINE f == [s \in Supervisors |-> sup[s].lease]
             g == [s \in Supervisors |-> sup[s].copy]
  <2>1. B = {f[x] : x \in Supervisors} /\ D = {g[x] : x \in Supervisors}
    OBVIOUS
  <2> HIDE DEF f, g, A, B, C, D
  <2>2. QED
    BY <1>1, <2>1, ImageSize
<1> HIDE DEF A, B, C, D
<1>4. \A x : IsFiniteSet({x}) /\ Cardinality({x}) = 1
  BY FS_Singleton
<1>5. IsFiniteSet(E) /\ Cardinality(E) =< n + m + 1
  <2>1. /\ IsFiniteSet(C \cup D)
        /\ Cardinality(C \cup D) =< Cardinality(C) + Cardinality(D)
    BY <1>2, <1>3, UnionSize
  <2>2. /\ IsFiniteSet(C \cup D \cup {client.copy})
        /\ Cardinality(C \cup D \cup {client.copy}) =< Cardinality(C \cup D) + 1
    BY <2>1, <1>4, UnionSize
  <2>3. /\ IsFiniteSet(E)
        /\ Cardinality(E) =< Cardinality(C \cup D \cup {client.copy})
    BY <2>2, FS_Subset
  <2>4. /\ Cardinality(C) \in Nat /\ Cardinality(D) \in Nat /\ Cardinality(E) \in Nat
        /\ Cardinality(C \cup D) \in Nat
        /\ Cardinality(C \cup D \cup {client.copy}) \in Nat
    BY <1>2, <1>3, <2>1, <2>2, <2>3, FS_CardinalityType
  <2> HIDE DEF E
  <2>5. QED
    BY <1>1, <1>2, <1>3, <2>1, <2>2, <2>3, <2>4
<1>6. IsFiniteSet(F) /\ Cardinality(F) =< Cardinality(E)
  <2> DEFINE f == [r \in E |-> r.lease]
  <2>1. F = {f[x] : x \in E}
    OBVIOUS
  <2> HIDE DEF f, E, F
  <2>2. QED
    BY <1>5, <2>1, ImageSize
<1> HIDE DEF E, F
<1>7. IsFiniteSet(Referred) /\ Cardinality(Referred) =< 2 * (n + m) + 2
  <2>1. Referred = ((({record.lease} \cup A) \cup B) \cup F)
    BY DEF Referred, A, B, C, D, E, F
  <2>2. /\ IsFiniteSet({record.lease} \cup A)
        /\ Cardinality({record.lease} \cup A) =< 1 + Cardinality(A)
    BY <1>2, <1>4, UnionSize
  <2>3. /\ IsFiniteSet({record.lease} \cup A \cup B)
        /\ Cardinality({record.lease} \cup A \cup B)
              =< Cardinality({record.lease} \cup A) + Cardinality(B)
    BY <1>3, <2>2, UnionSize
  <2>4. /\ IsFiniteSet(Referred)
        /\ Cardinality(Referred)
              =< Cardinality({record.lease} \cup A \cup B) + Cardinality(F)
    BY <1>6, <2>1, <2>3, UnionSize
  <2>5. /\ Cardinality(A) \in Nat /\ Cardinality(B) \in Nat /\ Cardinality(F) \in Nat
        /\ Cardinality(E) \in Nat /\ Cardinality(Referred) \in Nat
        /\ Cardinality({record.lease} \cup A) \in Nat
        /\ Cardinality({record.lease} \cup A \cup B) \in Nat
    BY <1>2, <1>3, <1>5, <1>6, <2>2, <2>3, <2>4, FS_CardinalityType
  <2>6. QED
    BY <1>1, <1>2, <1>3, <1>5, <1>6, <2>2, <2>3, <2>4, <2>5
<1>8. \E l \in Leases : l \notin Referred
  <2> SUFFICES ASSUME Leases \subseteq Referred PROVE FALSE
    OBVIOUS
  <2>1. Cardinality(Leases) =< Cardinality(Referred)
    BY <1>7, FS_Subset
  <2>2. Cardinality(Leases) \in Nat /\ Cardinality(Referred) \in Nat
    BY <1>7, LeasesAssumption, FS_CardinalityType
  <2>3. QED
    BY ONLY <1>1, <1>7, <2>1, <2>2, LeasesAssumption
<1>9. QED
  BY <1>8 DEF NewLease

\* A fresh lease id is not the absent one.
LEMMA FreshIsLease == NewLease \in Leases /\ NewLease # NoLease
  BY FreshLease, LeasesAssumption

\* The operations on a record return records.
LEMMA RecordOperationsType ==
    ASSUME NEW r \in RunRecords
    PROVE  /\ \A w \in Workers, l \in Leases : Granted(r, w, l, Duration) \in RunRecords
           /\ Renewed(r, Duration) \in RunRecords
           /\ ClearLease(r) \in RunRecords
           /\ Aged(r) \in RunRecords /\ AgedCopy(r) \in RunRecords
           /\ \A st \in Statuses : [r EXCEPT !.status = st] \in RunRecords
<1>1. Duration \in 0..Duration /\ 0 \in 0..Duration
  BY BoundsAssumption
<1>2. OneTickLess(r.ttl) \in 0..Duration
  BY BoundsAssumption DEF OneTickLess, RunRecords
<1>3. r # NoRecord
  BY AbsentAssumption
<1>4. QED
  BY <1>1, <1>2, <1>3
  DEF RunRecords, Granted, Renewed, ClearLease, Aged, AgedCopy

\* Every caller calls as a worker.
LEMMA CallersAreWorkers ==
    \A c \in Slots \cup Supervisors : WorkerOf[c] \in Workers /\ WorkerOf[c] # NoWorker
  BY AbsentAssumption DEF Workers

\* The messages that may be published, and what is published.
LEMMA NewMessageType ==
    ASSUME NEW e, Unused(e) # {}
    PROVE  /\ NewMessage(e) \in Messages /\ NewMessage(e).job = e
           /\ queue[NewMessage(e)].state = "none"
           /\ \A h \in Slots : slot[h].msg # NewMessage(e)
<1>1. NewMessage(e) \in Unused(e)
  BY DEF NewMessage
<1>2. QED
  BY <1>1 DEF Unused

\* The operations on the queue keep its type.
LEMMA PublishType ==
    ASSUME queue \in [Messages -> MessageStates], NEW e, Publish(e)
    PROVE  /\ queue' \in [Messages -> MessageStates]
           /\ Deliverable => Deliverable'
           /\ \E m \in Messages :
                 /\ queue[m].state = "none" /\ queue'[m].state = "waiting"
                 /\ \A h \in Slots : slot[h].msg # m
                 /\ \A n \in Messages \ {m} : queue'[n] = queue[n]
<1>1. /\ NewMessage(e) \in Messages /\ queue[NewMessage(e)].state = "none"
      /\ \A h \in Slots : slot[h].msg # NewMessage(e)
  BY NewMessageType DEF Publish
<1>2. [state |-> "waiting", deliveries |-> 0] \in MessageStates
  BY BoundsAssumption DEF MessageStates
<1>3. Deliverable => Deliverable'
  BY <1>1, BoundsAssumption DEF Publish, Deliverable
<1>4. QED
  BY <1>1, <1>2, <1>3 DEF Publish

LEMMA ReturnedType ==
    ASSUME queue \in [Messages -> MessageStates], NEW hs, Returned(hs)
    PROVE  /\ queue' \in [Messages -> MessageStates]
           /\ Deliverable => Deliverable'
<1>1. ASSUME NEW m \in Messages, NEW st \in {"waiting", "dead"}
      PROVE  [queue[m] EXCEPT !.state = st] \in MessageStates
  BY DEF MessageStates
<1>2. ASSUME NEW m \in Messages
      PROVE  queue'[m] \in MessageStates
  BY <1>1 DEF Returned
<1>3. Deliverable => Deliverable'
  BY DEF Returned, Deliverable, MessageStates
<1>4. QED
  BY <1>2, <1>3 DEF Returned

\* Faults are counted up.
LEMMA FaultType ==
    ASSUME faults \in [FaultKinds -> Nat], NEW kind \in FaultKinds, Fault(kind)
    PROVE  /\ faults' \in [FaultKinds -> Nat]
           /\ faults'[kind] = faults[kind] + 1
           /\ \A k \in FaultKinds \ {kind} : faults'[k] = faults[k]
  BY DEF Fault

LEMMA KindsAreFaults ==
    /\ "crash" \in FaultKinds /\ "lapse" \in FaultKinds
    /\ "publish" \in FaultKinds /\ "call" \in FaultKinds
  BY DEF FaultKinds

\* A call that raises counts as one.
LEMMA CallType ==
    ASSUME faults \in [FaultKinds -> Nat], CallRaises
    PROVE  /\ faults' \in [FaultKinds -> Nat]
           /\ faults'["call"] # faults["call"]
           /\ faults'["crash"] = faults["crash"]
           /\ faults'["publish"] = faults["publish"]
  BY FaultType DEF CallRaises, FaultKinds

\* The envelopes of the first job, of a recovery and of another attempt.
LEMMA EnvelopesType ==
    /\ Envelope(1, MaxAttempts) \in Envelopes
    /\ \A n \in Nat : n + 1 =< MaxRecovery => Envelope(n + 1, MaxRecovery) \in Envelopes
    /\ \A e \in Envelopes : e.attempt < e.max => Envelope(e.attempt + 1, e.max) \in Envelopes
<1>1. /\ \A n \in 1..MaxAttempts : Envelope(n, MaxAttempts) \in Envelopes
      /\ \A n \in 1..MaxRecovery : Envelope(n, MaxRecovery) \in Envelopes
  BY DEF Envelopes
<1>2. Envelope(1, MaxAttempts) \in Envelopes
  BY <1>1, BoundsAssumption
<1>3. ASSUME NEW n \in Nat, n + 1 =< MaxRecovery
      PROVE  Envelope(n + 1, MaxRecovery) \in Envelopes
  BY <1>1, <1>3, BoundsAssumption
<1>4. ASSUME NEW e \in Envelopes, e.attempt < e.max
      PROVE  Envelope(e.attempt + 1, e.max) \in Envelopes
  <2>1. CASE \E n \in 1..MaxAttempts : e = Envelope(n, MaxAttempts)
    BY <1>1, <1>4, <2>1, BoundsAssumption DEF Envelope
  <2>2. CASE \E n \in 1..MaxRecovery : e = Envelope(n, MaxRecovery)
    BY <1>1, <1>4, <2>2, BoundsAssumption DEF Envelope
  <2>3. QED
    BY <2>1, <2>2 DEF Envelopes
<1>5. QED
  BY <1>2, <1>3, <1>4

\* An envelope's attempts are counted up to their maximum.
LEMMA EnvelopeCounts ==
    \A e \in Envelopes : e.attempt \in Nat /\ e.max \in Nat /\ e.attempt =< e.max
  BY BoundsAssumption DEF Envelopes, Envelope

\* A slot's context is a context, and what a job starts from are states.
LEMMA InitialValuesType ==
    /\ \A h \in Slots : Own(h) \in Contexts
    /\ Api \in Contexts
    /\ NewContext \in [status : Statuses, token : BOOLEAN]
    /\ IdleSlot \in SlotStates
    /\ IdleSupervisor \in SupervisorStates
  BY BoundsAssumption
  DEF Own, Contexts, NewContext, Statuses, IdleSlot, SlotStates, IdleSupervisor,
      SupervisorStates

\* The initial state satisfies the type invariant.
LEMMA InitTypeInv == Init => TypeInv
<1> SUFFICES ASSUME Init PROVE TypeInv
  OBVIOUS
<1>1. TypeOK
  <2>1. record \in RunRecords
    BY BoundsAssumption DEF Init, RunRecords, Statuses
  <2>2. /\ checkpoint \in BOOLEAN
        /\ queue \in [Messages -> MessageStates]
        /\ context \in [Contexts -> [status : Statuses, token : BOOLEAN]]
        /\ slot \in [Slots -> SlotStates]
        /\ sup \in [Supervisors -> SupervisorStates]
    <3>1. NotThere \in MessageStates
      BY BoundsAssumption DEF NotThere, MessageStates
    <3>2. QED
      BY <3>1, InitialValuesType DEF Init
  <2>3. /\ api \in {"created", "published", "failed"}
        /\ client \in [pc : {"none", "write", "done"}, copy : RunRecords \cup {NoRecord}]
        /\ down \subseteq Processes
    BY DEF Init
  <2>4. faults \in [FaultKinds -> Nat]
    BY DEF Init
  <2>5. QED
    BY <2>1, <2>2, <2>3, <2>4 DEF TypeOK
<1>2. Equipped
  BY AbsentAssumption DEF Init, Equipped, IdleSlot, IdleSupervisor
<1>3. Deliverable
  BY DEF Init, Deliverable, NotThere
<1>4. QED
  BY <1>1, <1>2, <1>3 DEF TypeInv

-------------------------------------------------------------------------------
\* A step that gives one slot another state, for which the slot is equipped.
LEMMA SlotUpdate ==
    ASSUME TypeInv, NEW h \in Slots, NEW r \in SlotStates,
           slot' = [slot EXCEPT ![h] = r],
           r.pc = "idle" <=> r.msg = NoMessage,
           r.pc = "write" => r.copy # NoRecord,
           UNCHANGED <<sup, client>>
    PROVE  slot' \in [Slots -> SlotStates] /\ Equipped'
<1>1. slot' \in [Slots -> SlotStates]
  BY DEF TypeInv, TypeOK
<1>2. \A g \in Slots : slot'[g] = IF g = h THEN r ELSE slot[g]
  BY DEF TypeInv, TypeOK
<1>3. QED
  BY <1>1, <1>2 DEF TypeInv, Equipped

\* What becomes of the slots when the context of one takes a status.
LEMMA EnterStep ==
    ASSUME slot \in [Slots -> SlotStates], NEW h \in Slots, NEW st, NEW then, NEW again,
           Enter(h, st, then, again)
    PROVE  /\ \A g \in Slots : g # h => slot'[g] = slot[g]
           /\ slot'[h].pc = "read" /\ slot'[h].then = then /\ slot'[h].again = again
           /\ slot'[h].msg = slot[h].msg /\ slot'[h].lease = slot[h].lease
           /\ slot'[h].beating = slot[h].beating
  BY DEF Enter, SlotStates

\* The context takes a status, and the slot goes on to synchronise the record.
LEMMA EnterType ==
    ASSUME TypeInv, NEW h \in Slots, NEW st \in Statuses,
           NEW then \in {"plan", "execute", "release", "finally"}, NEW again \in BOOLEAN,
           Enter(h, st, then, again),
           slot[h].pc # "idle",
           record' \in RunRecords, faults' \in [FaultKinds -> Nat],
           UNCHANGED <<checkpoint, queue, sup, api, client, down>>
    PROVE  TypeInv'
<1> DEFINE r == [slot[h] EXCEPT !.pc = "read", !.then = then, !.again = again,
                                !.copy = NoRecord]
<1>1. slot[h] \in SlotStates /\ slot[h].msg # NoMessage
  BY DEF TypeInv, TypeOK, Equipped
<1>2. r \in SlotStates /\ r.pc = "read" /\ r.msg = slot[h].msg
  BY <1>1 DEF SlotStates
<1>3. slot' = [slot EXCEPT ![h] = r]
  BY DEF Enter
<1> HIDE DEF r
<1>4. slot' \in [Slots -> SlotStates] /\ Equipped'
  BY <1>1, <1>2, <1>3, SlotUpdate
<1>5. context' \in [Contexts -> [status : Statuses, token : BOOLEAN]]
  BY InitialValuesType DEF TypeInv, TypeOK, Enter
<1>6. QED
  BY <1>4, <1>5 DEF TypeInv, TypeOK, Deliverable

\* The statuses that are written to a context or a record.
LEMMA StatusesType ==
    {"QUEUED", "PLANNING", "RESEARCHING", "COMPLETED", "FAILED", "CANCELLED"} = Statuses
  BY DEF Statuses, Active, Terminal

\* What a slot and a supervisor write are records.
LEMMA SynchronisedType ==
    ASSUME TypeInv, NEW h \in Slots, slot[h].pc = "write"
    PROVE  Synchronised(h) \in RunRecords
<1>1. slot[h].copy \in RunRecords /\ slot[h].lease \in Leases \cup {NoLease}
  BY DEF TypeInv, TypeOK, Equipped, SlotStates
<1>2. context[Own(h)].status \in Statuses /\ context[Own(h)].token \in BOOLEAN
  BY InitialValuesType DEF TypeInv, TypeOK
<1>3. QED
  BY <1>1, <1>2, CallersAreWorkers DEF Synchronised, RunRecords

LEMMA UnclaimedType ==
    ASSUME TypeInv, NEW s \in Supervisors
    PROVE  Unclaimed(s) \in RunRecords
  BY RecordOperationsType DEF TypeInv, TypeOK, Unclaimed

\* A supervisor that is done with a run is ready for the next.
LEMMA SupervisorStops ==
    ASSUME TypeInv, NEW s \in Supervisors, sup' = [sup EXCEPT ![s] = IdleSupervisor],
           UNCHANGED <<slot, client>>
    PROVE  sup' \in [Supervisors -> SupervisorStates] /\ Equipped'
<1>1. sup' \in [Supervisors -> SupervisorStates]
  BY InitialValuesType DEF TypeInv, TypeOK
<1>2. Equipped'
  BY DEF TypeInv, TypeOK, Equipped, IdleSupervisor
<1>3. QED
  BY <1>1, <1>2

\* Every step keeps the type invariant.
LEMMA NextTypeInv == TypeInv /\ [Next]_vars => TypeInv'
<1> SUFFICES ASSUME TypeInv, [Next]_vars
             PROVE  TypeInv'
  OBVIOUS
<1> USE DEF TypeInv, Deliverable
<1>1. ASSUME PublishJob
      PROVE  TypeInv'
  <2>1. TypeOK'
    BY <1>1, PublishType DEF PublishJob, TypeOK
  <2>2. Equipped'
    BY <1>1 DEF PublishJob, Equipped
  <2>3. QED
    BY <1>1, <2>1, <2>2, PublishType DEF PublishJob, TypeOK
<1>2. ASSUME PublishJobFails
      PROVE  TypeInv'
  <2>1. TypeOK'
    BY <1>2, FaultType, KindsAreFaults DEF PublishJobFails, TypeOK
  <2>2. Equipped'
    BY <1>2 DEF PublishJobFails, Equipped
  <2>3. QED
    BY <1>2, <2>1, <2>2 DEF PublishJobFails
<1>3. ASSUME CancelRead
      PROVE  TypeInv'
  <2>1. context' \in [Contexts -> [status : Statuses, token : BOOLEAN]]
    BY <1>3, InitialValuesType, StatusesType DEF CancelRead, TypeOK
  <2>2. client' \in [pc : {"none", "write", "done"}, copy : RunRecords \cup {NoRecord}]
    BY <1>3 DEF CancelRead, TypeOK
  <2>3. Equipped'
    BY <1>3, AbsentAssumption DEF CancelRead, TypeOK, Equipped
  <2>4. QED
    BY <1>3, <2>1, <2>2, <2>3 DEF CancelRead, TypeOK
<1>4. ASSUME CancelWrite
      PROVE  TypeInv'
  <2>1. client.copy \in RunRecords
    BY <1>4 DEF CancelWrite, TypeOK, Equipped
  <2>2. record' \in RunRecords
    BY <1>4, <2>1, StatusesType DEF CancelWrite, RunRecords
  <2>3. TypeOK'
    BY <1>4, <2>2 DEF CancelWrite, TypeOK
  <2>4. Equipped'
    BY <1>4 DEF CancelWrite, Equipped
  <2>5. QED
    BY <1>4, <2>3, <2>4 DEF CancelWrite
<1>5. ASSUME NEW h \in Slots, Receive(h)
      PROVE  TypeInv'
  <2>1. PICK m \in Messages :
           /\ queue[m].state = "waiting"
           /\ queue' = [queue EXCEPT ![m].state = "out", ![m].deliveries = @ + 1]
           /\ slot' = [slot EXCEPT
                 ![h].pc = IF h \in ApiSlots THEN "resolve" ELSE "acquire",
                 ![h].msg = m, ![h].delivery = queue[m].deliveries + 1]
    BY <1>5 DEF Receive
  <2> DEFINE r == [slot[h] EXCEPT
                     !.pc = IF h \in ApiSlots THEN "resolve" ELSE "acquire", !.msg = m,
                     !.delivery = queue[m].deliveries + 1]
  <2>2. slot[h] \in SlotStates
    BY DEF TypeOK
  <2>3. queue[m].deliveries + 1 \in 0..MaxDeliveries
    BY <1>5, <2>1, BoundsAssumption DEF TypeOK, MessageStates
  <2>4. /\ r \in SlotStates
        /\ r.pc \in {"resolve", "acquire"} /\ r.msg = m
    BY <2>2, <2>3 DEF SlotStates
  <2>5. slot' = [slot EXCEPT ![h] = r]
    BY <2>1
  <2> HIDE DEF r
  <2>6. slot' \in [Slots -> SlotStates] /\ Equipped'
    BY <1>5, <2>4, <2>5, SlotUpdate, AbsentAssumption DEF Receive
  <2>7. queue' \in [Messages -> MessageStates]
    BY <2>1, <2>3 DEF TypeOK, MessageStates
  <2>8. QED
    BY <1>5, <2>6, <2>7 DEF Receive, TypeOK
<1>6. ASSUME NEW h \in Slots, AcquireLease(h)
      PROVE  TypeInv'
  <2> DEFINE r == [slot[h] EXCEPT !.pc = "resolve", !.lease = NewLease, !.beating = TRUE]
  <2>1. slot[h] \in SlotStates /\ slot[h].msg # NoMessage
    BY <1>6 DEF AcquireLease, TypeOK, Equipped
  <2>2. r \in SlotStates /\ r.pc = "resolve" /\ r.msg = slot[h].msg
    BY <2>1, FreshIsLease DEF SlotStates
  <2>3. slot' = [slot EXCEPT ![h] = r]
    BY <1>6 DEF AcquireLease
  <2> HIDE DEF r
  <2>4. slot' \in [Slots -> SlotStates] /\ Equipped'
    BY <1>6, <2>1, <2>2, <2>3, SlotUpdate DEF AcquireLease
  <2>5. record' \in RunRecords
    BY <1>6, RecordOperationsType, CallersAreWorkers, FreshIsLease
    DEF AcquireLease, TypeOK
  <2>6. QED
    BY <1>6, <2>4, <2>5 DEF AcquireLease, TypeOK
<1>7. ASSUME NEW h \in Slots, LeaseConflict(h)
      PROVE  TypeInv'
  <2>1. IdleSlot.pc = "idle" /\ IdleSlot.msg = NoMessage
    BY DEF IdleSlot
  <2>2. slot' \in [Slots -> SlotStates] /\ Equipped'
    BY <1>7, <2>1, SlotUpdate, InitialValuesType DEF LeaseConflict
  <2>3. QED
    BY <1>7, <2>2, ReturnedType DEF LeaseConflict, TypeOK
<1>8. ASSUME NEW h \in Slots, ResolveContext(h)
      PROVE  TypeInv'
  <2> DEFINE c == Resolved(h)
  <2>1. slot[h] \in SlotStates /\ slot[h].msg # NoMessage
    BY <1>8 DEF ResolveContext, TypeOK, Equipped
  <2>2. c \in [status : Statuses, token : BOOLEAN]
    BY InitialValuesType DEF Resolved, TypeOK, RunRecords
  <2>3. PICK r \in SlotStates :
           /\ slot' = [slot EXCEPT ![h] = r]
           /\ r.pc \in {"release", "read", "load"} /\ r.msg = slot[h].msg
    <3> DEFINE q(l) == [slot[h] EXCEPT !.pc = l]
               t == [slot[h] EXCEPT !.pc = "read", !.then = "release"]
    <3>1. /\ \A l \in {"release", "load"} : /\ q(l) \in SlotStates /\ q(l).pc = l
                                            /\ q(l).msg = slot[h].msg
          /\ t \in SlotStates /\ t.pc = "read" /\ t.msg = slot[h].msg
      BY <2>1 DEF SlotStates
    <3>2. \/ \E l \in {"release", "load"} : slot' = [slot EXCEPT ![h] = q(l)]
          \/ slot' = [slot EXCEPT ![h] = t]
      BY <1>8 DEF ResolveContext
    <3>3. QED
      BY <3>1, <3>2
  <2>4. slot' \in [Slots -> SlotStates] /\ Equipped'
    BY <1>8, <2>1, <2>3, SlotUpdate DEF ResolveContext
  <2>5. PICK d \in [status : Statuses, token : BOOLEAN] :
           context' = [context EXCEPT ![Own(h)] = d]
    BY <1>8, <2>2, StatusesType DEF ResolveContext
  <2>6. context' \in [Contexts -> [status : Statuses, token : BOOLEAN]]
    BY <2>5, InitialValuesType DEF TypeOK
  <2>7. QED
    BY <1>8, <2>4, <2>6 DEF ResolveContext, TypeOK
<1>9. ASSUME NEW h \in Slots, LoadCheckpoint(h)
      PROVE  TypeInv'
  <2>1. slot[h].pc # "idle"
    BY <1>9 DEF LoadCheckpoint
  <2>2. QED
    BY <1>9, <2>1, EnterType, StatusesType DEF LoadCheckpoint, TypeOK
<1>10. ASSUME NEW h \in Slots, SyncRead(h)
      PROVE  TypeInv'
  <2> DEFINE r == [slot[h] EXCEPT !.pc = "write", !.copy = record]
  <2>1. slot[h] \in SlotStates /\ slot[h].msg # NoMessage
    BY <1>10 DEF SyncRead, TypeOK, Equipped
  <2>2. /\ r \in SlotStates /\ r.pc = "write" /\ r.msg = slot[h].msg
        /\ r.copy # NoRecord
    BY <2>1, AbsentAssumption DEF SlotStates, TypeOK
  <2>3. slot' = [slot EXCEPT ![h] = r]
    BY <1>10 DEF SyncRead
  <2> HIDE DEF r
  <2>4. slot' \in [Slots -> SlotStates] /\ Equipped'
    BY <1>10, <2>1, <2>2, <2>3, SlotUpdate DEF SyncRead
  <2>5. QED
    BY <1>10, <2>4 DEF SyncRead, TypeOK
<1>11. ASSUME NEW h \in Slots, SyncWrite(h)
      PROVE  TypeInv'
  <2> DEFINE r == [slot[h] EXCEPT
                     !.pc = IF slot[h].then = "finally" THEN "release" ELSE slot[h].then,
                     !.then = "release", !.copy = NoRecord]
  <2>1. slot[h] \in SlotStates /\ slot[h].msg # NoMessage
    BY <1>11 DEF SyncWrite, TypeOK, Equipped
  <2>2. r \in SlotStates /\ r.pc \notin {"idle", "write"} /\ r.msg = slot[h].msg
    BY <2>1 DEF SlotStates
  <2>3. slot' = [slot EXCEPT ![h] = r]
    BY <1>11 DEF SyncWrite
  <2> HIDE DEF r
  <2>4. slot' \in [Slots -> SlotStates] /\ Equipped'
    BY <1>11, <2>1, <2>2, <2>3, SlotUpdate DEF SyncWrite
  <2>5. record' \in RunRecords
    BY <1>11, SynchronisedType DEF SyncWrite
  <2>6. QED
    BY <1>11, <2>4, <2>5 DEF SyncWrite, TypeOK
<1>12. ASSUME NEW h \in Slots, Plan(h)
      PROVE  TypeInv'
  <2>1. slot[h].pc # "idle"
    BY <1>12 DEF Plan
  <2>2. QED
    BY <1>12, <2>1, EnterType, StatusesType DEF Plan, Raise, TypeOK
<1>13. ASSUME NEW h \in Slots, SaveCheckpoint(h)
      PROVE  TypeInv'
  <2>1. TypeOK'
    BY <1>13
    DEF SaveCheckpoint, TypeOK, Equipped, SlotStates, vars
  <2>2. Equipped'
    BY <1>13
    DEF SaveCheckpoint, TypeOK, Equipped, SlotStates, vars
  <2>3. QED
    BY <1>13, <2>1, <2>2 DEF SaveCheckpoint
<1>14. ASSUME NEW h \in Slots, Execute(h)
      PROVE  TypeInv'
  <2>1. slot[h] \in SlotStates /\ slot[h].pc # "idle" /\ slot[h].msg # NoMessage
    BY <1>14 DEF Execute, TypeOK, Equipped
  <2>2. CASE \/ Enter(h, "FAILED", "release", TRUE)
             \/ Raise(h)
             \/ Enter(h, "CANCELLED", "release", FALSE)
    BY <1>14, <2>1, <2>2, EnterType, StatusesType DEF Execute, Raise, TypeOK
  <2>3. CASE /\ context' = [context EXCEPT ![Own(h)].status =
                               IF slot[h].refined = 0 THEN "COMPLETED" ELSE @]
             /\ slot' = [slot EXCEPT ![h].pc = "report"]
    <3> DEFINE r == [slot[h] EXCEPT !.pc = "report"]
    <3>1. r \in SlotStates /\ r.pc = "report" /\ r.msg = slot[h].msg
      BY <2>1 DEF SlotStates
    <3>2. slot' = [slot EXCEPT ![h] = r]
      BY <2>3
    <3> HIDE DEF r
    <3>3. slot' \in [Slots -> SlotStates] /\ Equipped'
      BY <1>14, <2>1, <3>1, <3>2, SlotUpdate DEF Execute
    <3>4. context' \in [Contexts -> [status : Statuses, token : BOOLEAN]]
      BY <2>3, InitialValuesType, StatusesType DEF TypeOK
    <3>5. QED
      BY <1>14, <3>3, <3>4 DEF Execute, TypeOK
  <2>4. QED
    BY <1>14, <2>2, <2>3 DEF Execute
<1>15. ASSUME NEW h \in Slots, Refine(h)
      PROVE  TypeInv'
  <2>1. slot[h] \in SlotStates /\ slot[h].pc # "idle" /\ slot[h].msg # NoMessage
    BY <1>15 DEF Refine, TypeOK, Equipped
  <2>2. CASE Enter(h, "CANCELLED", "release", FALSE)
    BY <1>15, <2>1, <2>2, EnterType, StatusesType DEF Refine, TypeOK
  <2>3. CASE /\ context' = [context EXCEPT ![Own(h)].status = "RESEARCHING"]
             /\ slot' = [slot EXCEPT ![h].pc = "read", ![h].then = "execute",
                                     ![h].refined = @ + 1]
    <3> DEFINE r == [slot[h] EXCEPT !.pc = "read", !.then = "execute", !.refined = @ + 1]
    <3>1. slot[h].refined + 1 \in 0..MaxRefinements
      BY <1>15, <2>1, BoundsAssumption DEF Refine, SlotStates
    <3>2. r \in SlotStates /\ r.pc = "read" /\ r.msg = slot[h].msg
      BY <2>1, <3>1 DEF SlotStates
    <3>3. slot' = [slot EXCEPT ![h] = r]
      BY <2>3
    <3> HIDE DEF r
    <3>4. slot' \in [Slots -> SlotStates] /\ Equipped'
      BY <1>15, <2>1, <3>2, <3>3, SlotUpdate DEF Refine
    <3>5. context' \in [Contexts -> [status : Statuses, token : BOOLEAN]]
      BY <2>3, InitialValuesType, StatusesType DEF TypeOK
    <3>6. QED
      BY <1>15, <3>4, <3>5 DEF Refine, TypeOK
  <2>4. QED
    BY <1>15, <2>2, <2>3 DEF Refine
<1>16. ASSUME NEW h \in Slots, Report(h)
      PROVE  TypeInv'
  <2>1. slot[h].pc # "idle"
    BY <1>16 DEF Report
  <2>2. QED
    BY <1>16, <2>1, EnterType, StatusesType DEF Report, Raise, TypeOK
<1>17. ASSUME NEW h \in Slots, ReleaseLease(h)
      PROVE  TypeInv'
  <2> DEFINE r == [slot[h] EXCEPT !.pc = "settle", !.lease = NoLease, !.beating = FALSE]
  <2>1. slot[h] \in SlotStates /\ slot[h].msg # NoMessage
    BY <1>17 DEF ReleaseLease, TypeOK, Equipped
  <2>2. r \in SlotStates /\ r.pc = "settle" /\ r.msg = slot[h].msg
    BY <2>1 DEF SlotStates
  <2>3. slot' = [slot EXCEPT ![h] = r]
    BY <1>17 DEF ReleaseLease
  <2> HIDE DEF r
  <2>4. slot' \in [Slots -> SlotStates] /\ Equipped'
    BY <1>17, <2>1, <2>2, <2>3, SlotUpdate DEF ReleaseLease
  <2>5. record' \in RunRecords
    BY <1>17, RecordOperationsType DEF ReleaseLease, TypeOK
  <2>6. QED
    BY <1>17, <2>4, <2>5 DEF ReleaseLease, TypeOK
<1>18. ASSUME NEW h \in Slots, Settle(h)
      PROVE  TypeInv'
  <2> DEFINE r == [slot[h] EXCEPT !.pc = "ack"]
  <2>1. slot[h] \in SlotStates /\ slot[h].msg # NoMessage
    BY <1>18 DEF Settle, TypeOK, Equipped
  <2>2. r \in SlotStates /\ r.pc = "ack" /\ r.msg = slot[h].msg
    BY <2>1 DEF SlotStates
  <2>3. slot' = [slot EXCEPT ![h] = r]
    BY <1>18 DEF Settle
  <2> HIDE DEF r
  <2>4. slot' \in [Slots -> SlotStates] /\ Equipped'
    BY <1>18, <2>1, <2>2, <2>3, SlotUpdate DEF Settle
  <2>5. UNCHANGED queue \/ \E e : Publish(e)
    BY <1>18 DEF Settle
  <2>6. queue' \in [Messages -> MessageStates] /\ Deliverable'
    BY <2>5, PublishType DEF TypeOK
  <2>7. QED
    BY <1>18, <2>4, <2>5, <2>6 DEF Settle, TypeOK
<1>19. ASSUME NEW h \in Slots, Acknowledge(h)
      PROVE  TypeInv'
  <2>1. IdleSlot.pc = "idle" /\ IdleSlot.msg = NoMessage
    BY DEF IdleSlot
  <2>2. slot' \in [Slots -> SlotStates] /\ Equipped'
    BY <1>19, <2>1, SlotUpdate, InitialValuesType DEF Acknowledge
  <2>3. context' \in [Contexts -> [status : Statuses, token : BOOLEAN]]
    BY <1>19, InitialValuesType DEF Acknowledge, Forget, TypeOK
  <2>4. slot[h].msg \in Messages
    BY <1>19 DEF Acknowledge, TypeOK, SlotStates, Equipped
  <2>5. /\ NotThere \in MessageStates
        /\ [queue[slot[h].msg] EXCEPT !.state = "dead"] \in MessageStates
    BY <2>4, BoundsAssumption DEF NotThere, MessageStates, TypeOK
  <2>6. PICK q \in MessageStates :
           /\ queue' = [queue EXCEPT ![slot[h].msg] = q]
           /\ q = queue[slot[h].msg] \/ q.state # "waiting"
    BY <1>19, <2>4, <2>5 DEF Acknowledge, TypeOK, NotThere, MessageStates
  <2>7. queue' \in [Messages -> MessageStates] /\ Deliverable'
    BY <2>4, <2>6 DEF TypeOK
  <2>8. QED
    BY <1>19, <2>2, <2>3, <2>7 DEF Acknowledge, TypeOK
<1>20. ASSUME NEW h \in Slots, Heartbeat(h)
      PROVE  TypeInv'
  <2>1. CASE record' = Renewed(record, Duration) /\ slot' = slot
    BY <1>20, <2>1, RecordOperationsType DEF Heartbeat, TypeOK, Equipped
  <2>2. CASE record' = record /\ slot' = [slot EXCEPT ![h].beating = FALSE]
    <3> DEFINE r == [slot[h] EXCEPT !.beating = FALSE]
    <3>1. slot[h] \in SlotStates
      BY DEF TypeOK
    <3>2. /\ r \in SlotStates
          /\ r.pc = slot[h].pc /\ r.msg = slot[h].msg /\ r.copy = slot[h].copy
      BY <3>1 DEF SlotStates
    <3>3. slot' = [slot EXCEPT ![h] = r]
      BY <2>2
    <3> HIDE DEF r
    <3>4. slot' \in [Slots -> SlotStates] /\ Equipped'
      BY <1>20, <3>2, <3>3, SlotUpdate DEF Heartbeat, Equipped
    <3>5. QED
      BY <1>20, <2>2, <3>4 DEF Heartbeat, TypeOK
  <2>3. QED
    BY <1>20, <2>1, <2>2 DEF Heartbeat
<1>21. ASSUME NEW h \in Slots, Duplicate(h)
      PROVE  TypeInv'
  <2>1. queue' \in [Messages -> MessageStates] /\ Deliverable'
    BY <1>21, ReturnedType DEF Duplicate, TypeOK
  <2>2. faults' \in [FaultKinds -> Nat]
    BY <1>21, FaultType, KindsAreFaults DEF Duplicate, TypeOK
  <2>3. Equipped'
    BY <1>21 DEF Duplicate, Equipped
  <2>4. QED
    BY <1>21, <2>1, <2>2, <2>3 DEF Duplicate, TypeOK
<1>22. ASSUME NEW s \in Supervisors, Scan(s)
      PROVE  TypeInv'
  <2>1. TypeOK'
    BY <1>22
    DEF Scan, TypeOK, Equipped, SupervisorStates, vars
  <2>2. Equipped'
    BY <1>22
    DEF Scan, TypeOK, Equipped, SupervisorStates, vars
  <2>3. QED
    BY <1>22, <2>1, <2>2 DEF Scan
<1>23. ASSUME NEW s \in Supervisors, Claim(s)
      PROVE  TypeInv'
  <2>1. sup[s] \in SupervisorStates
    BY DEF TypeOK
  <2>2. CASE /\ record' = Granted(record, WorkerOf[s], NewLease, Duration)
             /\ sup' = [sup EXCEPT ![s].pc = "inspect", ![s].lease = NewLease]
    <3>1. record' \in RunRecords
      BY <2>2, RecordOperationsType, CallersAreWorkers, FreshIsLease DEF TypeOK
    <3>2. [sup[s] EXCEPT !.pc = "inspect", !.lease = NewLease] \in SupervisorStates
      BY <2>1, FreshIsLease DEF SupervisorStates
    <3>3. sup' \in [Supervisors -> SupervisorStates]
      BY <2>2, <3>2 DEF TypeOK
    <3>4. Equipped'
      BY <1>23, <2>2 DEF Claim, TypeOK, SupervisorStates, Equipped
    <3>5. QED
      BY <1>23, <3>1, <3>3, <3>4 DEF Claim, TypeOK
  <2>3. CASE record' = record /\ sup' = [sup EXCEPT ![s] = IdleSupervisor]
    <3>1. sup' \in [Supervisors -> SupervisorStates]
      BY <2>3, InitialValuesType DEF TypeOK
    <3>2. Equipped'
      BY <1>23, <2>3 DEF Claim, TypeOK, IdleSupervisor, Equipped
    <3>3. QED
      BY <1>23, <2>3, <3>1, <3>2 DEF Claim, TypeOK
  <2>4. QED
    BY <1>23, <2>2, <2>3 DEF Claim
<1>24. ASSUME NEW s \in Supervisors, Inspect(s)
      PROVE  TypeInv'
  <2>1. TypeOK'
    BY <1>24, AbsentAssumption
    DEF Inspect, TypeOK, Equipped, SupervisorStates, vars
  <2>2. Equipped'
    BY <1>24, AbsentAssumption
    DEF Inspect, TypeOK, Equipped, SupervisorStates, vars
  <2>3. QED
    BY <1>24, <2>1, <2>2 DEF Inspect
<1>25. ASSUME NEW s \in Supervisors, Skip(s)
      PROVE  TypeInv'
  <2>1. record' \in RunRecords
    BY <1>25, UnclaimedType DEF Skip, TypeOK
  <2>2. sup' \in [Supervisors -> SupervisorStates] /\ Equipped'
    BY <1>25, SupervisorStops DEF Skip
  <2>3. QED
    BY <1>25, <2>1, <2>2 DEF Skip, TypeOK
<1>26. ASSUME NEW s \in Supervisors, RecoverCancelled(s)
      PROVE  TypeInv'
  <2>1. TypeOK'
    BY <1>26, RecordOperationsType, InitialValuesType
    DEF RecoverCancelled, TypeOK, Equipped, SupervisorStates, IdleSupervisor,
        Statuses, Terminal, vars
  <2>2. Equipped'
    BY <1>26, RecordOperationsType, InitialValuesType
    DEF RecoverCancelled, TypeOK, Equipped, SupervisorStates, IdleSupervisor,
        Statuses, Terminal, vars
  <2>3. QED
    BY <1>26, <2>1, <2>2 DEF RecoverCancelled
<1>27. ASSUME NEW s \in Supervisors, RecoveryExhausted(s)
      PROVE  TypeInv'
  <2>1. TypeOK'
    BY <1>27, RecordOperationsType, InitialValuesType
    DEF RecoveryExhausted, TypeOK, Equipped, SupervisorStates, IdleSupervisor,
        Statuses, Terminal, vars
  <2>2. Equipped'
    BY <1>27, RecordOperationsType, InitialValuesType
    DEF RecoveryExhausted, TypeOK, Equipped, SupervisorStates, IdleSupervisor,
        Statuses, Terminal, vars
  <2>3. QED
    BY <1>27, <2>1, <2>2 DEF RecoveryExhausted
<1>28. ASSUME NEW s \in Supervisors, Recover(s)
      PROVE  TypeInv'
  <2>0. PICK loaded \in BOOLEAN :
           /\ IF loaded THEN UNCHANGED faults ELSE CallRaises
           /\ record' = ClearLease([sup[s].copy EXCEPT
                  !.status = IF checkpoint /\ loaded THEN "RESEARCHING" ELSE "QUEUED",
                  !.recovery = @ + 1])
    BY <1>28 DEF Recover
  <2> DEFINE r == [sup[s].copy EXCEPT
                     !.status = IF checkpoint /\ loaded THEN "RESEARCHING" ELSE "QUEUED",
                     !.recovery = @ + 1]
  <2>1. /\ sup[s] \in SupervisorStates
        /\ sup[s].copy \in RunRecords
        /\ sup[s].copy.recovery + 1 =< MaxRecovery
    BY <1>28 DEF Recover, Recoverable, TypeOK, SupervisorStates, Equipped
  <2>2. sup[s].copy.recovery + 1 \in 0..MaxRecovery
    BY <2>1, BoundsAssumption DEF RunRecords
  <2>3. r \in RunRecords
    BY <2>1, <2>2, StatusesType DEF RunRecords
  <2> HIDE DEF r
  <2>4. record' \in RunRecords
    BY <2>0, <2>3, RecordOperationsType DEF r
  <2>5. [sup[s] EXCEPT !.pc = "publish"] \in SupervisorStates
    BY <2>1 DEF SupervisorStates
  <2>6. sup' \in [Supervisors -> SupervisorStates]
    BY <1>28, <2>5 DEF Recover, TypeOK
  <2>7. Equipped'
    BY <1>28, <2>1, AbsentAssumption DEF Recover, TypeOK, SupervisorStates, Equipped
  <2>8. faults' \in [FaultKinds -> Nat]
    BY <2>0, CallType DEF TypeOK
  <2>9. QED
    BY <1>28, <2>4, <2>6, <2>7, <2>8 DEF Recover, TypeOK
<1>29. ASSUME NEW s \in Supervisors, Republish(s)
      PROVE  TypeInv'
  <2>1. queue' \in [Messages -> MessageStates] /\ Deliverable'
    BY <1>29, PublishType DEF Republish, TypeOK
  <2>2. sup' \in [Supervisors -> SupervisorStates] /\ Equipped'
    BY <1>29, SupervisorStops DEF Republish
  <2>3. QED
    BY <1>29, <2>1, <2>2 DEF Republish, TypeOK
<1>30. ASSUME NEW s \in Supervisors, RepublishFails(s)
      PROVE  TypeInv'
  <2>1. record' \in RunRecords
    BY <1>30, UnclaimedType DEF RepublishFails, TypeOK
  <2>2. sup' \in [Supervisors -> SupervisorStates] /\ Equipped'
    BY <1>30, SupervisorStops DEF RepublishFails
  <2>3. faults' \in [FaultKinds -> Nat]
    BY <1>30, FaultType, KindsAreFaults DEF RepublishFails, TypeOK
  <2>4. QED
    BY <1>30, <2>1, <2>2, <2>3 DEF RepublishFails, TypeOK
<1>31. ASSUME NEW p \in Processes, Crash(p)
      PROVE  TypeInv'
  <2>1. queue' \in [Messages -> MessageStates] /\ Deliverable'
    BY <1>31, ReturnedType DEF Crash, TypeOK
  <2>2. slot' \in [Slots -> SlotStates]
    BY <1>31, InitialValuesType DEF Crash, TypeOK
  <2>3. context' \in [Contexts -> [status : Statuses, token : BOOLEAN]]
    BY <1>31, InitialValuesType DEF Crash, Forget, TypeOK
  <2>4. sup' \in [Supervisors -> SupervisorStates]
    BY <1>31, InitialValuesType DEF Crash, TypeOK
  <2>5. /\ down' \subseteq Processes
        /\ faults' \in [FaultKinds -> Nat]
    BY <1>31, FaultType, KindsAreFaults DEF Crash, TypeOK
  <2>6. Equipped'
    BY <1>31 DEF Crash, Equipped, IdleSlot, IdleSupervisor
  <2>7. QED
    BY <1>31, <2>1, <2>2, <2>3, <2>4, <2>5, <2>6 DEF Crash, TypeOK
<1>32. ASSUME Tick
      PROVE  TypeInv'
  <2>1. \A r \in RunRecords \cup {NoRecord} :
           /\ AgedCopy(r) \in RunRecords \cup {NoRecord}
           /\ r # NoRecord => AgedCopy(r) # NoRecord /\ AgedCopy(r).recovery = r.recovery
    <3>1. AgedCopy(NoRecord) = NoRecord
      BY DEF AgedCopy
    <3>2. ASSUME NEW r \in RunRecords
          PROVE  /\ AgedCopy(r) \in RunRecords
                 /\ AgedCopy(r).recovery = r.recovery
      BY RecordOperationsType, AbsentAssumption DEF AgedCopy, Aged, RunRecords
    <3>3. QED
      BY <3>1, <3>2, AbsentAssumption
  <2>2. record' \in RunRecords
    BY <1>32, RecordOperationsType DEF Tick, TypeOK
  <2>3. \A h \in Slots :
           /\ slot'[h] \in SlotStates
           /\ slot'[h].pc = slot[h].pc /\ slot'[h].msg = slot[h].msg
           /\ slot'[h].copy = AgedCopy(slot[h].copy)
    <3> SUFFICES ASSUME NEW h \in Slots
                 PROVE  /\ slot'[h] \in SlotStates
                        /\ slot'[h].pc = slot[h].pc /\ slot'[h].msg = slot[h].msg
                        /\ slot'[h].copy = AgedCopy(slot[h].copy)
      OBVIOUS
    <3>1. slot[h] \in SlotStates /\ slot'[h] = [slot[h] EXCEPT !.copy = AgedCopy(@)]
      BY <1>32 DEF Tick, TypeOK
    <3>2. AgedCopy(slot[h].copy) \in RunRecords \cup {NoRecord}
      BY <2>1, <3>1 DEF SlotStates
    <3>3. QED
      BY <3>1, <3>2 DEF SlotStates
  <2>4. \A s \in Supervisors :
           /\ sup'[s] \in SupervisorStates
           /\ sup'[s].pc = sup[s].pc /\ sup'[s].copy = AgedCopy(sup[s].copy)
    <3> SUFFICES ASSUME NEW s \in Supervisors
                 PROVE  /\ sup'[s] \in SupervisorStates
                        /\ sup'[s].pc = sup[s].pc
                        /\ sup'[s].copy = AgedCopy(sup[s].copy)
      OBVIOUS
    <3>1. sup[s] \in SupervisorStates /\ sup'[s] = [sup[s] EXCEPT !.copy = AgedCopy(@)]
      BY <1>32 DEF Tick, TypeOK
    <3>2. AgedCopy(sup[s].copy) \in RunRecords \cup {NoRecord}
      BY <2>1, <3>1 DEF SupervisorStates
    <3>3. QED
      BY <3>1, <3>2 DEF SupervisorStates
  <2>5. /\ client' \in [pc : {"none", "write", "done"}, copy : RunRecords \cup {NoRecord}]
        /\ client'.pc = client.pc /\ client'.copy = AgedCopy(client.copy)
    BY <1>32, <2>1 DEF Tick, TypeOK
  <2>6. slot' \in [Slots -> SlotStates] /\ sup' \in [Supervisors -> SupervisorStates]
    BY <1>32, <2>3, <2>4 DEF Tick
  <2>7. TypeOK'
    BY <1>32, <2>2, <2>5, <2>6 DEF Tick, TypeOK
  <2>8. Equipped'
    BY <2>1, <2>3, <2>4, <2>5 DEF TypeOK, SlotStates, SupervisorStates, Equipped
  <2>9. QED
    BY <1>32, <2>7, <2>8 DEF Tick
<1>33. ASSUME NEW h \in Slots, AcquireRaises(h)
      PROVE  TypeInv'
  <2> DEFINE r == [slot[h] EXCEPT !.pc = "settle", !.again = TRUE]
  <2>1. slot[h] \in SlotStates /\ slot[h].msg # NoMessage
    BY <1>33 DEF AcquireRaises, TypeOK, Equipped
  <2>2. r \in SlotStates /\ r.pc = "settle" /\ r.msg = slot[h].msg
    BY <2>1 DEF SlotStates
  <2>3. slot' = [slot EXCEPT ![h] = r]
    BY <1>33 DEF AcquireRaises
  <2> HIDE DEF r
  <2>4. slot' \in [Slots -> SlotStates] /\ Equipped'
    BY <1>33, <2>1, <2>2, <2>3, SlotUpdate DEF AcquireRaises
  <2>5. record' \in RunRecords
    <3>1. record \in RunRecords
      BY DEF TypeOK
    <3>2. Granted(record, WorkerOf[h], NewLease, Duration) \in RunRecords
      BY <3>1, RecordOperationsType, CallersAreWorkers, FreshIsLease
    <3>3. QED
      BY <1>33, <3>1, <3>2 DEF AcquireRaises
  <2>6. QED
    BY <1>33, <2>4, <2>5, CallType DEF AcquireRaises, TypeOK
<1>34. ASSUME NEW h \in Slots, ResolveRaises(h)
      PROVE  TypeInv'
  <2> DEFINE r == [slot[h] EXCEPT !.pc = "release", !.again = TRUE]
  <2>1. slot[h] \in SlotStates /\ slot[h].msg # NoMessage
    BY <1>34 DEF ResolveRaises, TypeOK, Equipped
  <2>2. r \in SlotStates /\ r.pc = "release" /\ r.msg = slot[h].msg
    BY <2>1 DEF SlotStates
  <2>3. slot' = [slot EXCEPT ![h] = r]
    BY <1>34 DEF ResolveRaises
  <2> HIDE DEF r
  <2>4. slot' \in [Slots -> SlotStates] /\ Equipped'
    BY <1>34, <2>1, <2>2, <2>3, SlotUpdate DEF ResolveRaises
  <2>5. QED
    BY <1>34, <2>4, CallType DEF ResolveRaises, TypeOK
<1>35. ASSUME NEW h \in Slots, LoadRaises(h)
      PROVE  TypeInv'
  <2>1. slot[h].pc # "idle"
    BY <1>35 DEF LoadRaises
  <2>2. QED
    BY <1>35, <2>1, EnterType, StatusesType, CallType DEF LoadRaises, TypeOK
<1>36. ASSUME NEW h \in Slots, SyncRaises(h)
      PROVE  TypeInv'
  <2>1. /\ slot[h] \in SlotStates /\ slot[h].pc # "idle" /\ slot[h].msg # NoMessage
        /\ faults' \in [FaultKinds -> Nat]
    BY <1>36, CallType DEF SyncRaises, TypeOK, Equipped
  <2>2. record' \in RunRecords
    BY <1>36, SynchronisedType DEF SyncRaises, TypeOK
  <2>3. CASE Raise(h)
    BY <1>36, <2>1, <2>2, <2>3, EnterType, StatusesType DEF SyncRaises, Raise
  <2>4. CASE slot' = [slot EXCEPT ![h].pc = "release", ![h].then = "release",
                                  ![h].copy = NoRecord] /\ UNCHANGED context
    <3> DEFINE r == [slot[h] EXCEPT !.pc = "release", !.then = "release",
                                    !.copy = NoRecord]
    <3>1. r \in SlotStates /\ r.pc = "release" /\ r.msg = slot[h].msg
      BY <2>1 DEF SlotStates
    <3>2. slot' = [slot EXCEPT ![h] = r]
      BY <2>4
    <3> HIDE DEF r
    <3>3. slot' \in [Slots -> SlotStates] /\ Equipped'
      BY <1>36, <2>1, <3>1, <3>2, SlotUpdate DEF SyncRaises
    <3>4. QED
      BY <1>36, <2>1, <2>2, <2>4, <3>3 DEF SyncRaises, TypeOK
  <2>5. QED
    BY <1>36, <2>3, <2>4 DEF SyncRaises
<1>37. ASSUME NEW h \in Slots, ReleaseRaises(h)
      PROVE  TypeInv'
  <2> DEFINE r == [slot[h] EXCEPT !.pc = "settle", !.lease = NoLease, !.beating = FALSE]
  <2>1. slot[h] \in SlotStates /\ slot[h].msg # NoMessage
    BY <1>37 DEF ReleaseRaises, TypeOK, Equipped
  <2>2. r \in SlotStates /\ r.pc = "settle" /\ r.msg = slot[h].msg
    BY <2>1 DEF SlotStates
  <2>3. slot' = [slot EXCEPT ![h] = r]
    BY <1>37 DEF ReleaseRaises
  <2> HIDE DEF r
  <2>4. slot' \in [Slots -> SlotStates] /\ Equipped'
    BY <1>37, <2>1, <2>2, <2>3, SlotUpdate DEF ReleaseRaises
  <2>5. QED
    BY <1>37, <2>4, CallType DEF ReleaseRaises, TypeOK
<1>38. ASSUME NEW h \in Slots, SettleRaises(h)
      PROVE  TypeInv'
  <2>1. IdleSlot.pc = "idle" /\ IdleSlot.msg = NoMessage
    BY DEF IdleSlot
  <2>2. slot' \in [Slots -> SlotStates] /\ Equipped'
    BY <1>38, <2>1, SlotUpdate, InitialValuesType DEF SettleRaises
  <2>3. context' \in [Contexts -> [status : Statuses, token : BOOLEAN]]
    BY <1>38, InitialValuesType DEF SettleRaises, Forget, TypeOK
  <2>4. QED
    BY <1>38, <2>2, <2>3, ReturnedType, CallType DEF SettleRaises, TypeOK
<1>39. ASSUME NEW s \in Supervisors, ClaimRaises(s)
      PROVE  TypeInv'
  <2>1. record' \in RunRecords
    <3>1. record \in RunRecords
      BY DEF TypeOK
    <3>2. Granted(record, WorkerOf[s], NewLease, Duration) \in RunRecords
      BY <3>1, RecordOperationsType, CallersAreWorkers, FreshIsLease
    <3>3. QED
      BY <1>39, <3>1, <3>2 DEF ClaimRaises
  <2>2. sup' \in [Supervisors -> SupervisorStates] /\ Equipped'
    BY <1>39, SupervisorStops DEF ClaimRaises
  <2>3. QED
    BY <1>39, <2>1, <2>2, CallType DEF ClaimRaises, TypeOK
<1>40. ASSUME NEW s \in Supervisors, RecoverRaises(s)
      PROVE  TypeInv'
  <2>1. record' \in RunRecords
    BY <1>40, UnclaimedType DEF RecoverRaises, TypeOK
  <2>2. sup' \in [Supervisors -> SupervisorStates] /\ Equipped'
    BY <1>40, SupervisorStops DEF RecoverRaises
  <2>3. QED
    BY <1>40, <2>1, <2>2, CallType DEF RecoverRaises, TypeOK
<1>41. CASE UNCHANGED vars
  BY <1>41 DEF TypeOK, Equipped, vars
<1>42. QED
  BY <1>1, <1>2, <1>3, <1>4, <1>5, <1>6, <1>7, <1>8, <1>9, <1>10, <1>11, <1>12,
     <1>13, <1>14, <1>15, <1>16, <1>17, <1>18, <1>19, <1>20, <1>21, <1>22, <1>23,
     <1>24, <1>25, <1>26, <1>27, <1>28, <1>29, <1>30, <1>31, <1>32, <1>33, <1>34,
     <1>35, <1>36, <1>37, <1>38, <1>39, <1>40, <1>41
  DEF Next, SlotStep, SlotCallRaises, SupervisorStep, Finished

\* TypeOK holds: every variable keeps its type, whatever the processes do.
THEOREM TypeCorrectness == Spec => []TypeOK
<1>1. TypeInv => TypeOK
  BY DEF TypeInv
<1>2. QED
  BY <1>1, InitTypeInv, NextTypeInv, PTL DEF Spec

-------------------------------------------------------------------------------
\* One owner of the record's lease, one at work.
LEMMA OneAtWorkFollows == LeasedDeployment /\ HolderWorks => OneAtWork
  BY SlotsAssumption DEF LeasedDeployment, HolderWorks, OneAtWork, OwnsLease

\* A lease that is available to a caller who is not at work leaves nobody at work.
LEMMA AvailableIsIdle ==
    ASSUME LeasedDeployment, HolderWorks,
           NEW c \in Slots \cup Supervisors,
           LeaseAvailable(record, WorkerOf[c]),
           c \in Slots => ~Working(c),
           c \in Supervisors => ~Recovering(c)
    PROVE  /\ \A g \in Slots : ~Working(g)
           /\ \A s \in Supervisors : ~Recovering(s)
  BY DEF LeasedDeployment, HolderWorks, LeaseAvailable, OwnsLease

\* The initial state satisfies the invariants.
LEMMA InitLeaseInv == LeasedDeployment /\ Init => LeaseInv
  BY InitTypeInv
  DEF LeaseInv, Init, HolderWorks, ReadsAreFresh, Working, Recovering, IdleSlot,
      IdleSupervisor

\* A step of one slot that leaves it at work or not, and does not read the record.
LEMMA SlotGoesOn ==
    ASSUME HolderWorks, ReadsAreFresh, NEW h \in Slots,
           \A g \in Slots : g # h => slot'[g] = slot[g],
           slot'[h].lease = slot[h].lease, slot'[h].beating = slot[h].beating,
           Working(h)' <=> Working(h),
           slot'[h].pc # "write",
           UNCHANGED <<record, sup, client>>
    PROVE  HolderWorks' /\ ReadsAreFresh'
<1>1. ASSUME NEW g \in Slots
      PROVE  /\ slot'[g].lease = slot[g].lease /\ slot'[g].beating = slot[g].beating
             /\ Working(g)' <=> Working(g)
             /\ slot'[g].pc = "write" => slot'[g] = slot[g]
  BY DEF Working
<1>2. HolderWorks'
  BY <1>1 DEF HolderWorks, Recovering, OwnsLease
<1>3. ReadsAreFresh'
  BY <1>1 DEF ReadsAreFresh
<1>4. QED
  BY <1>2, <1>3

\* A step that leaves nobody at work.
LEMMA NobodyAtWork ==
    ASSUME \A h \in Slots : ~Working(h)' /\ slot'[h].beating = FALSE,
           \A s \in Supervisors : ~Recovering(s)',
           client'.pc = "none"
    PROVE  HolderWorks' /\ ReadsAreFresh'
  BY DEF HolderWorks, ReadsAreFresh, Working, Recovering

\* A supervisor that ends its recovery, or goes on to publish, leaves nobody at work.
LEMMA RecoveryEnds ==
    ASSUME LeasedDeployment, TypeInv, HolderWorks, ReadsAreFresh, NEW s \in Supervisors,
           Recovering(s),
           \A t \in Supervisors : t # s => sup'[t] = sup[t],
           sup'[s].pc \in {"idle", "publish"},
           UNCHANGED <<slot, client>>
    PROVE  HolderWorks' /\ ReadsAreFresh'
<1>1. /\ \A h \in Slots : ~Working(h) /\ slot[h].beating \in BOOLEAN
      /\ \A t \in Supervisors : t # s => ~Recovering(t)
  BY OneAtWorkFollows DEF OneAtWork, TypeInv, TypeOK, SlotStates
<1>2. \A h \in Slots : ~Working(h)' /\ slot'[h].beating = FALSE
  BY <1>1 DEF HolderWorks, Working
<1>3. \A t \in Supervisors : ~Recovering(t)'
  BY <1>1 DEF Recovering
<1>4. QED
  BY <1>2, <1>3, NobodyAtWork DEF ReadsAreFresh

\* The one at work writes the record that it read, with its own lease.
LEMMA HolderWrites ==
    ASSUME LeasedDeployment, TypeInv, HolderWorks, ReadsAreFresh, NEW h \in Slots,
           slot[h].pc = "write", record' = Synchronised(h),
           \A g \in Slots : g # h => slot'[g] = slot[g],
           slot'[h].lease = slot[h].lease, slot'[h].beating = slot[h].beating,
           Working(h)', slot'[h].pc # "write",
           UNCHANGED <<sup, client>>
    PROVE  HolderWorks' /\ ReadsAreFresh'
<1>1. Working(h) /\ slot[h] \in SlotStates
  BY DEF Working, TypeInv, TypeOK
<1>2. /\ \A g \in Slots : g # h => ~Working(g)
      /\ \A s \in Supervisors : ~Recovering(s)
  BY <1>1, OneAtWorkFollows DEF OneAtWork
<1>3. /\ slot[h].lease # NoLease /\ slot[h].beating = TRUE
      /\ slot[h].copy \in RunRecords /\ slot[h].copy.ttl > 0
  BY <1>1 DEF HolderWorks, ReadsAreFresh, TypeInv, Equipped, SlotStates
<1>4. /\ record'.worker = WorkerOf[h] /\ record'.lease = slot[h].lease
      /\ record'.ttl = slot[h].copy.ttl
  BY <1>3 DEF Synchronised, RunRecords
<1>5. HolderWorks'
  BY <1>2, <1>3, <1>4 DEF HolderWorks, Working, Recovering, OwnsLease
<1>6. ReadsAreFresh'
  BY <1>2 DEF ReadsAreFresh, Working, Recovering
<1>7. QED
  BY <1>5, <1>6

\* Every step keeps the holder of the lease the only one at work, and what it read of
\* the record fresh.
LEMMA NextLeaseInv == LeasedDeployment /\ LeaseInv /\ [Next]_vars => LeaseInv'
<1> SUFFICES ASSUME LeasedDeployment, TypeInv, HolderWorks, ReadsAreFresh, [Next]_vars
             PROVE  HolderWorks' /\ ReadsAreFresh'
  BY NextTypeInv DEF LeaseInv
<1>0. /\ record \in RunRecords
      /\ slot \in [Slots -> SlotStates] /\ sup \in [Supervisors -> SupervisorStates]
      /\ \A g \in Slots : slot[g] \in SlotStates
      /\ \A t \in Supervisors : sup[t] \in SupervisorStates
  BY DEF TypeInv, TypeOK
<1>1. ASSUME PublishJob
      PROVE  HolderWorks' /\ ReadsAreFresh'
  BY <1>0, <1>1
  DEF HolderWorks, ReadsAreFresh, Working, Recovering, OwnsLease, PublishJob
<1>2. ASSUME PublishJobFails
      PROVE  HolderWorks' /\ ReadsAreFresh'
  BY <1>0, <1>2
  DEF HolderWorks, ReadsAreFresh, Working, Recovering, OwnsLease, PublishJobFails
<1>3. ASSUME CancelRead
      PROVE  HolderWorks' /\ ReadsAreFresh'
  BY <1>0, <1>3
  DEF HolderWorks, ReadsAreFresh, Working, Recovering, OwnsLease, CancelRead, LeasedDeployment
<1>4. ASSUME CancelWrite
      PROVE  HolderWorks' /\ ReadsAreFresh'
  BY <1>0, <1>4
  DEF HolderWorks, ReadsAreFresh, Working, Recovering, OwnsLease, CancelWrite
<1>5. ASSUME NEW h \in Slots, Receive(h)
      PROVE  HolderWorks' /\ ReadsAreFresh'
  <2>1. PICK l \in {"resolve", "acquire"}, m \in Messages :
           slot' = [slot EXCEPT ![h].pc = l, ![h].msg = m,
                                ![h].delivery = queue[m].deliveries + 1]
    BY <1>5 DEF Receive
  <2>2. l = IF h \in ApiSlots THEN "resolve" ELSE "acquire"
    BY <1>0, <1>5, <2>1 DEF Receive, SlotStates
  <2>3. l = "acquire" /\ slot[h].pc = "idle"
    BY <1>5, <2>2 DEF Receive, LeasedDeployment
  <2>4. /\ \A g \in Slots : g # h => slot'[g] = slot[g]
        /\ slot'[h].lease = slot[h].lease /\ slot'[h].beating = slot[h].beating
        /\ slot'[h].pc = "acquire"
    BY <1>0, <2>1, <2>3 DEF SlotStates
  <2>5. QED
    BY <1>5, <2>3, <2>4, SlotGoesOn DEF Receive, Working
<1>6. ASSUME NEW h \in Slots, AcquireLease(h)
      PROVE  HolderWorks' /\ ReadsAreFresh'
  <2>1. /\ \A g \in Slots : ~Working(g)
        /\ \A s \in Supervisors : ~Recovering(s)
    BY <1>6, AvailableIsIdle, SlotsAssumption DEF AcquireLease, Working
  <2>2. \A g \in Slots : slot[g].beating = FALSE
    BY <1>0, <2>1 DEF HolderWorks, SlotStates
  <2>3. /\ slot'[h].pc = "resolve" /\ slot'[h].lease = NewLease /\ slot'[h].beating = TRUE
        /\ \A g \in Slots : g # h => slot'[g] = slot[g]
        /\ sup' = sup /\ client' = client
    BY <1>0, <1>6 DEF AcquireLease, SlotStates
  <2>4. record'.worker = WorkerOf[h] /\ record'.lease = NewLease /\ record'.ttl > 0
    BY <1>0, <1>6, BoundsAssumption DEF AcquireLease, Granted, RunRecords
  <2>5. HolderWorks'
    BY <2>1, <2>2, <2>3, <2>4, FreshIsLease
    DEF HolderWorks, Working, Recovering, OwnsLease
  <2>6. ReadsAreFresh'
    BY <2>1, <2>3 DEF ReadsAreFresh, Working, Recovering
  <2>7. QED
    BY <2>5, <2>6
<1>7. ASSUME NEW h \in Slots, LeaseConflict(h)
      PROVE  HolderWorks' /\ ReadsAreFresh'
  BY <1>0, <1>7
  DEF HolderWorks, ReadsAreFresh, Working, Recovering, OwnsLease, LeaseConflict, IdleSlot
<1>8. ASSUME NEW h \in Slots, ResolveContext(h)
      PROVE  HolderWorks' /\ ReadsAreFresh'
  <2>1. /\ \A g \in Slots : g # h => slot'[g] = slot[g]
        /\ slot'[h].lease = slot[h].lease /\ slot'[h].beating = slot[h].beating
        /\ Working(h)' <=> Working(h)
        /\ slot'[h].pc # "write"
    BY <1>0, <1>8 DEF ResolveContext, Working, SlotStates
  <2>2. QED
    BY <1>8, <2>1, SlotGoesOn DEF ResolveContext
<1>9. ASSUME NEW h \in Slots, LoadCheckpoint(h)
      PROVE  HolderWorks' /\ ReadsAreFresh'
  <2>1. /\ \A g \in Slots : g # h => slot'[g] = slot[g]
        /\ slot'[h].lease = slot[h].lease /\ slot'[h].beating = slot[h].beating
        /\ Working(h)' <=> Working(h)
        /\ slot'[h].pc # "write"
    BY <1>0, <1>9 DEF LoadCheckpoint, Working, SlotStates, Enter
  <2>2. QED
    BY <1>9, <2>1, SlotGoesOn DEF LoadCheckpoint
<1>10. ASSUME NEW h \in Slots, SyncRead(h)
      PROVE  HolderWorks' /\ ReadsAreFresh'
  BY <1>0, <1>10
  DEF HolderWorks, ReadsAreFresh, Working, Recovering, OwnsLease, SyncRead
<1>11. ASSUME NEW h \in Slots, SyncWrite(h)
      PROVE  HolderWorks' /\ ReadsAreFresh'
  <2>1. /\ slot'[h].pc \in {"plan", "execute", "release"}
        /\ slot'[h].lease = slot[h].lease /\ slot'[h].beating = slot[h].beating
        /\ \A g \in Slots : g # h => slot'[g] = slot[g]
    BY <1>0, <1>11 DEF SyncWrite, SlotStates
  <2>2. slot[h].pc = "write" /\ record' = Synchronised(h) /\ sup' = sup /\ client' = client
    BY <1>11 DEF SyncWrite
  <2>3. QED
    BY <2>1, <2>2, HolderWrites DEF Working
<1>12. ASSUME NEW h \in Slots, Plan(h)
      PROVE  HolderWorks' /\ ReadsAreFresh'
  <2>1. /\ \A g \in Slots : g # h => slot'[g] = slot[g]
        /\ slot'[h].lease = slot[h].lease /\ slot'[h].beating = slot[h].beating
        /\ Working(h)' <=> Working(h)
        /\ slot'[h].pc # "write"
    <3>1. PICK st, then, again : Enter(h, st, then, again)
      BY <1>12 DEF Plan, Raise
    <3>2. QED
      BY <1>0, <1>12, <3>1, EnterStep DEF Plan, Working
  <2>2. QED
    BY <1>12, <2>1, SlotGoesOn DEF Plan
<1>13. ASSUME NEW h \in Slots, SaveCheckpoint(h)
      PROVE  HolderWorks' /\ ReadsAreFresh'
  BY <1>0, <1>13
  DEF HolderWorks, ReadsAreFresh, Working, Recovering, OwnsLease, SaveCheckpoint
<1>14. ASSUME NEW h \in Slots, Execute(h)
      PROVE  HolderWorks' /\ ReadsAreFresh'
  <2>1. /\ \A g \in Slots : g # h => slot'[g] = slot[g]
        /\ slot'[h].lease = slot[h].lease /\ slot'[h].beating = slot[h].beating
        /\ Working(h)' <=> Working(h)
        /\ slot'[h].pc # "write"
    BY <1>0, <1>14 DEF Execute, Raise, Working, SlotStates, Enter
  <2>2. QED
    BY <1>14, <2>1, SlotGoesOn DEF Execute
<1>15. ASSUME NEW h \in Slots, Refine(h)
      PROVE  HolderWorks' /\ ReadsAreFresh'
  <2>1. /\ \A g \in Slots : g # h => slot'[g] = slot[g]
        /\ slot'[h].lease = slot[h].lease /\ slot'[h].beating = slot[h].beating
        /\ Working(h)' <=> Working(h)
        /\ slot'[h].pc # "write"
    BY <1>0, <1>15 DEF Refine, Working, SlotStates, Enter
  <2>2. QED
    BY <1>15, <2>1, SlotGoesOn DEF Refine
<1>16. ASSUME NEW h \in Slots, Report(h)
      PROVE  HolderWorks' /\ ReadsAreFresh'
  <2>1. /\ \A g \in Slots : g # h => slot'[g] = slot[g]
        /\ slot'[h].lease = slot[h].lease /\ slot'[h].beating = slot[h].beating
        /\ Working(h)' <=> Working(h)
        /\ slot'[h].pc # "write"
    BY <1>0, <1>16 DEF Report, Raise, Working, SlotStates, Enter
  <2>2. QED
    BY <1>16, <2>1, SlotGoesOn DEF Report
<1>17. ASSUME NEW h \in Slots, ReleaseLease(h)
      PROVE  HolderWorks' /\ ReadsAreFresh'
  <2>1. Working(h)
    BY <1>17 DEF ReleaseLease, Working
  <2>2. /\ \A g \in Slots : g # h => ~Working(g) /\ slot[g].beating = FALSE
        /\ \A s \in Supervisors : ~Recovering(s)
    BY <1>0, <2>1, OneAtWorkFollows DEF OneAtWork, HolderWorks, SlotStates
  <2>3. /\ slot'[h].pc = "settle" /\ slot'[h].beating = FALSE
        /\ \A g \in Slots : g # h => slot'[g] = slot[g]
        /\ sup' = sup /\ client' = client
    BY <1>0, <1>17 DEF ReleaseLease, SlotStates
  <2>4. /\ \A g \in Slots : ~Working(g)' /\ slot'[g].beating = FALSE
        /\ \A s \in Supervisors : ~Recovering(s)'
    BY <2>2, <2>3 DEF Working, Recovering
  <2>5. QED
    BY <2>3, <2>4, NobodyAtWork DEF ReadsAreFresh
<1>18. ASSUME NEW h \in Slots, Settle(h)
      PROVE  HolderWorks' /\ ReadsAreFresh'
  BY <1>0, <1>18
  DEF HolderWorks, ReadsAreFresh, Working, Recovering, OwnsLease, Settle
<1>19. ASSUME NEW h \in Slots, Acknowledge(h)
      PROVE  HolderWorks' /\ ReadsAreFresh'
  BY <1>0, <1>19
  DEF HolderWorks, ReadsAreFresh, Working, Recovering, OwnsLease, Acknowledge, IdleSlot
<1>20. ASSUME NEW h \in Slots, Heartbeat(h)
      PROVE  HolderWorks' /\ ReadsAreFresh'
  BY <1>0, <1>20, BoundsAssumption
  DEF HolderWorks, ReadsAreFresh, Working, Recovering, OwnsLease, Heartbeat,
      Renewed, RunRecords
<1>21. ASSUME NEW h \in Slots, Duplicate(h)
      PROVE  HolderWorks' /\ ReadsAreFresh'
  BY <1>0, <1>21
  DEF HolderWorks, ReadsAreFresh, Working, Recovering, OwnsLease, Duplicate
<1>22. ASSUME NEW s \in Supervisors, Scan(s)
      PROVE  HolderWorks' /\ ReadsAreFresh'
  BY <1>0, <1>22
  DEF HolderWorks, ReadsAreFresh, Working, Recovering, OwnsLease, Scan
<1>23. ASSUME NEW s \in Supervisors, Claim(s)
      PROVE  HolderWorks' /\ ReadsAreFresh'
  <2>1. CASE LeaseAvailable(record, WorkerOf[s])
    <3>1. /\ \A g \in Slots : ~Working(g)
          /\ \A t \in Supervisors : ~Recovering(t)
      BY <1>23, <2>1, AvailableIsIdle, SlotsAssumption DEF Claim, Recovering
    <3>2. \A g \in Slots : slot[g].beating = FALSE
      BY <1>0, <3>1 DEF HolderWorks, SlotStates
    <3>3. /\ sup'[s].pc = "inspect" /\ sup'[s].lease = NewLease
          /\ \A t \in Supervisors : t # s => sup'[t] = sup[t]
          /\ slot' = slot /\ client' = client
      BY <1>0, <1>23, <2>1 DEF Claim, SupervisorStates
    <3>4. record'.worker = WorkerOf[s] /\ record'.lease = NewLease /\ record'.ttl > 0
      <4>1. record' = Granted(record, WorkerOf[s], NewLease, Duration)
        BY <1>23, <2>1 DEF Claim
      <4>2. QED
        BY <1>0, <4>1, BoundsAssumption DEF Granted, RunRecords
    <3>5. HolderWorks'
      BY <3>1, <3>2, <3>3, <3>4, FreshIsLease
      DEF HolderWorks, Working, Recovering, OwnsLease
    <3>6. ReadsAreFresh'
      BY <3>1, <3>3 DEF ReadsAreFresh, Working, Recovering
    <3>7. QED
      BY <3>5, <3>6
  <2>2. CASE ~LeaseAvailable(record, WorkerOf[s])
    BY <1>0, <1>23, <2>2
    DEF Claim, IdleSupervisor, HolderWorks, ReadsAreFresh, Working, Recovering, OwnsLease
  <2>3. QED
    BY <2>1, <2>2
<1>24. ASSUME NEW s \in Supervisors, Inspect(s)
      PROVE  HolderWorks' /\ ReadsAreFresh'
  BY <1>0, <1>24
  DEF HolderWorks, ReadsAreFresh, Working, Recovering, OwnsLease, Inspect
<1>25. ASSUME NEW s \in Supervisors, Skip(s)
      PROVE  HolderWorks' /\ ReadsAreFresh'
  <2>1. /\ \A t \in Supervisors : t # s => sup'[t] = sup[t]
        /\ sup'[s].pc \in {"idle", "publish"}
        /\ Recovering(s)
    BY <1>0, <1>25 DEF Skip, Recovering, IdleSupervisor
  <2>2. QED
    BY <1>25, <2>1, RecoveryEnds DEF Skip, Unclaimed
<1>26. ASSUME NEW s \in Supervisors, RecoverCancelled(s)
      PROVE  HolderWorks' /\ ReadsAreFresh'
  <2>1. /\ \A t \in Supervisors : t # s => sup'[t] = sup[t]
        /\ sup'[s].pc \in {"idle", "publish"}
        /\ Recovering(s)
    BY <1>0, <1>26 DEF RecoverCancelled, Recovering, IdleSupervisor
  <2>2. QED
    BY <1>26, <2>1, RecoveryEnds DEF RecoverCancelled
<1>27. ASSUME NEW s \in Supervisors, RecoveryExhausted(s)
      PROVE  HolderWorks' /\ ReadsAreFresh'
  <2>1. /\ \A t \in Supervisors : t # s => sup'[t] = sup[t]
        /\ sup'[s].pc \in {"idle", "publish"}
        /\ Recovering(s)
    BY <1>0, <1>27 DEF RecoveryExhausted, Recovering, IdleSupervisor
  <2>2. QED
    BY <1>27, <2>1, RecoveryEnds DEF RecoveryExhausted
<1>28. ASSUME NEW s \in Supervisors, Recover(s)
      PROVE  HolderWorks' /\ ReadsAreFresh'
  <2>1. /\ \A t \in Supervisors : t # s => sup'[t] = sup[t]
        /\ sup'[s].pc \in {"idle", "publish"}
        /\ Recovering(s)
    BY <1>0, <1>28 DEF Recover, Recovering, IdleSupervisor
  <2>2. QED
    BY <1>28, <2>1, RecoveryEnds DEF Recover
<1>29. ASSUME NEW s \in Supervisors, Republish(s)
      PROVE  HolderWorks' /\ ReadsAreFresh'
  BY <1>0, <1>29
  DEF HolderWorks, ReadsAreFresh, Working, Recovering, OwnsLease, Republish, IdleSupervisor
<1>30. ASSUME NEW s \in Supervisors, RepublishFails(s)
      PROVE  HolderWorks' /\ ReadsAreFresh'
  <2>1. /\ sup'[s].pc = "idle" /\ sup[s].pc = "publish"
        /\ \A t \in Supervisors : t # s => sup'[t] = sup[t]
        /\ slot' = slot /\ client' = client
    BY <1>0, <1>30 DEF RepublishFails, IdleSupervisor
  <2>2. CASE record' = record
    BY <2>1, <2>2 DEF HolderWorks, ReadsAreFresh, Working, Recovering, OwnsLease
  <2>3. CASE OwnsLease(record, WorkerOf[s], sup[s].lease)
    <3>1. /\ \A g \in Slots : ~Working(g)
          /\ \A t \in Supervisors : ~Recovering(t)
      BY <2>1, <2>3, SlotsAssumption
      DEF LeasedDeployment, HolderWorks, Recovering, OwnsLease
    <3>2. /\ \A g \in Slots : ~Working(g)' /\ slot'[g].beating = FALSE
          /\ \A t \in Supervisors : ~Recovering(t)'
      BY <1>0, <2>1, <3>1 DEF HolderWorks, Working, Recovering, SlotStates
    <3>3. QED
      BY <2>1, <3>2, NobodyAtWork DEF ReadsAreFresh
  <2>4. QED
    BY <1>30, <2>2, <2>3 DEF RepublishFails, Unclaimed
<1>31. ASSUME NEW p \in Processes, Crash(p)
      PROVE  HolderWorks' /\ ReadsAreFresh'
  BY <1>0, <1>31
  DEF HolderWorks, ReadsAreFresh, Working, Recovering, OwnsLease, Crash, IdleSlot,
      IdleSupervisor
<1>32. ASSUME Tick
      PROVE  HolderWorks' /\ ReadsAreFresh'
  <2>1. /\ record'.worker = record.worker /\ record'.lease = record.lease
        /\ record'.recovery = record.recovery /\ record'.status = record.status
        /\ record'.ttl = OneTickLess(record.ttl)
    BY <1>0, <1>32 DEF Tick, Aged, RunRecords
  <2>2. \A g \in Slots : slot'[g] = [slot[g] EXCEPT !.copy = AgedCopy(@)]
    BY <1>32 DEF Tick
  <2>3. \A t \in Supervisors : sup'[t] = [sup[t] EXCEPT !.copy = AgedCopy(@)]
    BY <1>32 DEF Tick
  <2>4. \A r \in RunRecords : /\ AgedCopy(r).recovery = r.recovery
                              /\ AgedCopy(r).status = r.status
                              /\ AgedCopy(r).ttl = OneTickLess(r.ttl)
    BY AbsentAssumption DEF AgedCopy, Aged, RunRecords
  <2>5. client'.pc = "none"
    BY <1>32 DEF Tick, ReadsAreFresh, TypeInv, TypeOK
  <2>6. \A t \in Nat : t > 1 => OneTickLess(t) > 0
    BY DEF OneTickLess
  <2>7. ASSUME NEW g \in Slots
        PROVE  /\ slot'[g].beating <=> Working(g)'
               /\ Working(g)' => /\ OwnsLease(record, WorkerOf[g], slot[g].lease)'
                                 /\ slot'[g].lease # NoLease
                                 /\ record'.ttl > 0
               /\ slot'[g].pc = "write" => /\ slot'[g].copy.ttl > 0
                                           /\ slot'[g].copy.recovery = record'.recovery
    <3>1. /\ slot'[g].pc = slot[g].pc /\ slot'[g].beating = slot[g].beating
          /\ slot'[g].lease = slot[g].lease /\ slot'[g].copy = AgedCopy(slot[g].copy)
      BY <1>0, <2>2 DEF SlotStates
    <3>2. /\ slot[g].beating <=> Working(g)
          /\ Working(g) => /\ OwnsLease(record, WorkerOf[g], slot[g].lease)
                           /\ slot[g].lease # NoLease
      BY DEF HolderWorks
    <3>3. Working(g) => record.ttl > 1
      BY <1>0, <1>32, <3>2 DEF Tick, KeptAlive, LeasedDeployment, RunRecords
    <3>4. slot[g].pc = "write" => /\ slot[g].copy \in RunRecords
                                  /\ slot[g].copy.ttl > 1
                                  /\ slot[g].copy.recovery = record.recovery
      <4>1. slot[g].pc = "write" => slot[g].beating
        BY <3>2 DEF Working
      <4>2. slot[g].pc = "write" => /\ slot[g].copy \in RunRecords
                                    /\ slot[g].copy.ttl > 0
                                    /\ slot[g].copy.recovery = record.recovery
        BY <1>0 DEF ReadsAreFresh, TypeInv, Equipped, SlotStates
      <4>3. QED
        BY <1>32, <4>1, <4>2 DEF Tick, StaleUpdate, LeasedDeployment, RunRecords
    <3>5. Working(g)' <=> Working(g)
      BY <3>1 DEF Working
    <3>6. Working(g) => record'.ttl > 0
      BY <1>0, <2>1, <2>6, <3>3 DEF RunRecords
    <3>7. slot[g].pc = "write" => OneTickLess(slot[g].copy.ttl) > 0
      BY <2>6, <3>4 DEF RunRecords
    <3>8. QED
      BY <2>1, <2>4, <3>1, <3>2, <3>4, <3>5, <3>6, <3>7 DEF OwnsLease
  <2>8. ASSUME NEW t \in Supervisors
        PROVE  /\ Recovering(t)' => /\ OwnsLease(record, WorkerOf[t], sup[t].lease)'
                                    /\ sup'[t].lease # NoLease
                                    /\ record'.ttl > 0
               /\ sup'[t].pc = "decide" => /\ sup'[t].copy.recovery = record'.recovery
                                           /\ sup'[t].copy.status = record'.status
    <3>1. /\ sup'[t].pc = sup[t].pc /\ sup'[t].lease = sup[t].lease
          /\ sup'[t].copy = AgedCopy(sup[t].copy)
      BY <1>0, <2>3 DEF SupervisorStates
    <3>2. Recovering(t) => /\ OwnsLease(record, WorkerOf[t], sup[t].lease)
                           /\ sup[t].lease # NoLease
      BY DEF HolderWorks
    <3>3. Recovering(t) => record.ttl > 1
      BY <1>0, <1>32, <3>2 DEF Tick, KeptAlive, LeasedDeployment, RunRecords, Recovering
    <3>4. sup[t].pc = "decide" => /\ sup[t].copy \in RunRecords
                                  /\ sup[t].copy.recovery = record.recovery
                                  /\ sup[t].copy.status = record.status
      BY <1>0 DEF ReadsAreFresh, TypeInv, Equipped, SupervisorStates
    <3>5. Recovering(t)' <=> Recovering(t)
      BY <3>1 DEF Recovering
    <3>6. Recovering(t) => record'.ttl > 0
      BY <1>0, <2>1, <2>6, <3>3 DEF RunRecords
    <3>7. QED
      BY <2>1, <2>4, <3>1, <3>2, <3>4, <3>5, <3>6 DEF OwnsLease
  <2>9. QED
    BY <2>5, <2>7, <2>8 DEF HolderWorks, ReadsAreFresh
<1>33. ASSUME NEW h \in Slots, AcquireRaises(h)
      PROVE  HolderWorks' /\ ReadsAreFresh'
  <2>1. /\ ~Working(h) /\ ~Working(h)'
        /\ slot'[h].lease = slot[h].lease /\ slot'[h].beating = slot[h].beating
        /\ slot'[h].pc = "settle" /\ \A g \in Slots : g # h => slot'[g] = slot[g]
        /\ sup' = sup /\ client' = client
    BY <1>0, <1>33 DEF AcquireRaises, Working, SlotStates
  <2>2. CASE record' = record
    BY <2>1, <2>2, SlotGoesOn
  <2>3. CASE LeaseAvailable(record, WorkerOf[h])
    <3>1. /\ \A g \in Slots : ~Working(g)
          /\ \A s \in Supervisors : ~Recovering(s)
      BY <2>1, <2>3, AvailableIsIdle, SlotsAssumption
    <3>2. /\ \A g \in Slots : ~Working(g)' /\ slot'[g].beating = FALSE
          /\ \A s \in Supervisors : ~Recovering(s)'
      BY <1>0, <2>1, <3>1 DEF HolderWorks, Working, Recovering, SlotStates
    <3>3. QED
      BY <2>1, <3>2, NobodyAtWork DEF ReadsAreFresh
  <2>4. QED
    BY <1>33, <2>2, <2>3 DEF AcquireRaises
<1>34. ASSUME NEW h \in Slots, ResolveRaises(h)
      PROVE  HolderWorks' /\ ReadsAreFresh'
  <2>1. /\ \A g \in Slots : g # h => slot'[g] = slot[g]
        /\ slot'[h].lease = slot[h].lease /\ slot'[h].beating = slot[h].beating
        /\ Working(h)' <=> Working(h)
        /\ slot'[h].pc # "write"
    BY <1>0, <1>34 DEF ResolveRaises, Working, SlotStates
  <2>2. QED
    BY <1>34, <2>1, SlotGoesOn DEF ResolveRaises
<1>35. ASSUME NEW h \in Slots, LoadRaises(h)
      PROVE  HolderWorks' /\ ReadsAreFresh'
  <2>1. /\ \A g \in Slots : g # h => slot'[g] = slot[g]
        /\ slot'[h].lease = slot[h].lease /\ slot'[h].beating = slot[h].beating
        /\ Working(h)' <=> Working(h)
        /\ slot'[h].pc # "write"
    BY <1>0, <1>35 DEF LoadRaises, Working, SlotStates, Enter
  <2>2. QED
    BY <1>35, <2>1, SlotGoesOn DEF LoadRaises
<1>36. ASSUME NEW h \in Slots, SyncRaises(h)
      PROVE  HolderWorks' /\ ReadsAreFresh'
  <2>1. /\ slot'[h].pc \in {"read", "release"}
        /\ slot'[h].lease = slot[h].lease /\ slot'[h].beating = slot[h].beating
        /\ \A g \in Slots : g # h => slot'[g] = slot[g]
    BY <1>0, <1>36 DEF SyncRaises, Raise, Enter, SlotStates
  <2>2. sup' = sup /\ client' = client /\ Working(h) /\ Working(h)'
    BY <1>36, <2>1 DEF SyncRaises, Working
  <2>3. CASE record' = record
    BY <2>1, <2>2, <2>3, SlotGoesOn
  <2>4. CASE slot[h].pc = "write" /\ record' = Synchronised(h)
    BY <2>1, <2>2, <2>4, HolderWrites
  <2>5. QED
    BY <1>36, <2>3, <2>4 DEF SyncRaises
<1>37. ASSUME NEW h \in Slots, ReleaseRaises(h)
      PROVE  HolderWorks' /\ ReadsAreFresh'
  <2>1. /\ slot'[h].pc = "settle" /\ slot'[h].beating = FALSE
        /\ \A g \in Slots : g # h => slot'[g] = slot[g]
        /\ sup' = sup /\ client' = client /\ record' = record
    BY <1>0, <1>37 DEF ReleaseRaises, SlotStates
  <2>2. QED
    BY <2>1 DEF HolderWorks, ReadsAreFresh, Working, Recovering, OwnsLease
<1>38. ASSUME NEW h \in Slots, SettleRaises(h)
      PROVE  HolderWorks' /\ ReadsAreFresh'
  BY <1>0, <1>38
  DEF HolderWorks, ReadsAreFresh, Working, Recovering, OwnsLease, SettleRaises, IdleSlot
<1>39. ASSUME NEW s \in Supervisors, ClaimRaises(s)
      PROVE  HolderWorks' /\ ReadsAreFresh'
  <2>1. /\ ~Recovering(s) /\ ~Recovering(s)' /\ sup'[s].pc = "idle"
        /\ \A t \in Supervisors : t # s => sup'[t] = sup[t]
        /\ slot' = slot /\ client' = client
    BY <1>0, <1>39 DEF ClaimRaises, IdleSupervisor, Recovering
  <2>2. CASE record' = record
    BY <2>1, <2>2 DEF HolderWorks, ReadsAreFresh, Working, Recovering, OwnsLease
  <2>3. CASE LeaseAvailable(record, WorkerOf[s])
    <3>1. /\ \A g \in Slots : ~Working(g)
          /\ \A t \in Supervisors : ~Recovering(t)
      BY <2>1, <2>3, AvailableIsIdle, SlotsAssumption
    <3>2. /\ \A g \in Slots : ~Working(g)' /\ slot'[g].beating = FALSE
          /\ \A t \in Supervisors : ~Recovering(t)'
      BY <1>0, <2>1, <3>1 DEF HolderWorks, Working, Recovering, SlotStates
    <3>3. QED
      BY <2>1, <3>2, NobodyAtWork DEF ReadsAreFresh
  <2>4. QED
    BY <1>39, <2>2, <2>3 DEF ClaimRaises
<1>40. ASSUME NEW s \in Supervisors, RecoverRaises(s)
      PROVE  HolderWorks' /\ ReadsAreFresh'
  <2>1. /\ \A t \in Supervisors : t # s => sup'[t] = sup[t]
        /\ sup'[s].pc \in {"idle", "publish"}
        /\ Recovering(s)
    BY <1>0, <1>40 DEF RecoverRaises, Recovering, IdleSupervisor
  <2>2. QED
    BY <1>40, <2>1, RecoveryEnds DEF RecoverRaises
<1>41. CASE UNCHANGED vars
  BY <1>41 DEF vars, HolderWorks, ReadsAreFresh, Working, Recovering, OwnsLease
<1>42. QED
  BY <1>1, <1>2, <1>3, <1>4, <1>5, <1>6, <1>7, <1>8, <1>9, <1>10, <1>11, <1>12,
     <1>13, <1>14, <1>15, <1>16, <1>17, <1>18, <1>19, <1>20, <1>21, <1>22, <1>23,
     <1>24, <1>25, <1>26, <1>27, <1>28, <1>29, <1>30, <1>31, <1>32, <1>33, <1>34,
     <1>35, <1>36, <1>37, <1>38, <1>39, <1>40, <1>41
  DEF Next, SlotStep, SlotCallRaises, SupervisorStep, Finished

\* In a deployment with leases the slots and supervisors are at work on the run one at
\* a time: OneAtWork, for any number of slots, supervisors, crashes and redeliveries.
THEOREM OneAtWorkHolds == LeasedDeployment => (Spec => []OneAtWork)
<1>1. LeasedDeployment /\ LeaseInv => OneAtWork
  BY OneAtWorkFollows DEF LeaseInv
<1>2. ASSUME LeasedDeployment PROVE Spec => []OneAtWork
  <2>1. Init => LeaseInv
    BY <1>2, InitLeaseInv
  <2>2. LeaseInv /\ [Next]_vars => LeaseInv'
    BY <1>2, NextLeaseInv
  <2>3. LeaseInv => OneAtWork
    BY <1>1, <1>2
  <2>4. QED
    BY <2>1, <2>2, <2>3, PTL DEF Spec
<1>3. QED
  BY <1>2

\* No step takes back a recovery that was counted, not even the slots' and the
\* supervisors' writing of whole records that they read before.
LEMMA RecoveryCountStep ==
    LeaseInv /\ [Next]_vars => record'.recovery >= record.recovery
<1> SUFFICES ASSUME LeaseInv, [Next]_vars
             PROVE  record'.recovery >= record.recovery
  OBVIOUS
<1>0. /\ record \in RunRecords /\ record.recovery \in Nat
      /\ \A h \in Slots : slot[h].pc = "write" =>
            /\ slot[h].copy \in RunRecords
            /\ slot[h].copy.recovery = record.recovery
      /\ \A s \in Supervisors : sup[s].pc = "decide" =>
            /\ sup[s].copy \in RunRecords
            /\ sup[s].copy.recovery = record.recovery
  BY BoundsAssumption
  DEF LeaseInv, TypeInv, TypeOK, Equipped, ReadsAreFresh, SlotStates, SupervisorStates,
      RunRecords
<1>1. ASSUME NEW h \in Slots, SyncWrite(h)
      PROVE  record'.recovery = record.recovery
  BY <1>0, <1>1 DEF SyncWrite, Synchronised, RunRecords
<1>2. ASSUME NEW h \in Slots, AcquireLease(h)
      PROVE  record'.recovery = record.recovery
  BY <1>0, <1>2 DEF AcquireLease, Granted, RunRecords
<1>3. ASSUME NEW h \in Slots, ReleaseLease(h) \/ Heartbeat(h)
      PROVE  record'.recovery = record.recovery
  BY <1>0, <1>3 DEF ReleaseLease, Heartbeat, ClearLease, Renewed, RunRecords
<1>4. ASSUME NEW h \in Slots, SlotStep(h) \/ Heartbeat(h) \/ Duplicate(h)
      PROVE  record'.recovery = record.recovery
  BY <1>1, <1>2, <1>3, <1>4
  DEF SlotStep, Receive, LeaseConflict, ResolveContext, LoadCheckpoint, SyncRead, Plan,
      SaveCheckpoint, Execute, Refine, Report, Settle, Acknowledge, Duplicate
<1>5. ASSUME NEW s \in Supervisors,
             Claim(s) \/ Skip(s) \/ RepublishFails(s) \/ ClaimRaises(s) \/ RecoverRaises(s)
      PROVE  record'.recovery = record.recovery
  BY <1>0, <1>5
  DEF Claim, Skip, RepublishFails, ClaimRaises, RecoverRaises, Unclaimed, Granted,
      ClearLease, RunRecords
<1>6. ASSUME NEW s \in Supervisors, RecoverCancelled(s) \/ RecoveryExhausted(s)
      PROVE  record'.recovery = record.recovery
  BY <1>0, <1>6 DEF RecoverCancelled, RecoveryExhausted, ClearLease, RunRecords
<1>7. ASSUME NEW s \in Supervisors, Recover(s)
      PROVE  record'.recovery = record.recovery + 1
  BY <1>0, <1>7 DEF Recover, ClearLease, RunRecords
<1>8. ASSUME NEW s \in Supervisors,
             SupervisorStep(s) \/ RepublishFails(s) \/ ClaimRaises(s) \/ RecoverRaises(s)
      PROVE  record'.recovery >= record.recovery
  BY <1>0, <1>5, <1>6, <1>7, <1>8 DEF SupervisorStep, Scan, Inspect, Republish
<1>9. ASSUME Tick
      PROVE  record'.recovery = record.recovery
  BY <1>0, <1>9 DEF Tick, Aged, RunRecords
<1>10. ASSUME CancelWrite
       PROVE  FALSE
  BY <1>10 DEF CancelWrite, LeaseInv, ReadsAreFresh
<1>11. ASSUME \/ PublishJob \/ PublishJobFails \/ CancelRead \/ Finished
              \/ \E p \in Processes : Crash(p)
              \/ UNCHANGED vars
       PROVE  record' = record
  BY <1>11 DEF PublishJob, PublishJobFails, CancelRead, Finished, Crash, vars
<1>12. ASSUME NEW h \in Slots, SlotCallRaises(h)
       PROVE  record'.recovery = record.recovery
  <2>1. CASE AcquireRaises(h)
    BY <1>0, <2>1 DEF AcquireRaises, Granted, RunRecords
  <2>2. CASE SyncRaises(h)
    BY <1>0, <2>2 DEF SyncRaises, Synchronised, RunRecords
  <2>3. QED
    BY <1>12, <2>1, <2>2
    DEF SlotCallRaises, ResolveRaises, LoadRaises, ReleaseRaises, SettleRaises
<1>13. QED
  BY <1>0, <1>4, <1>8, <1>9, <1>10, <1>11, <1>12 DEF Next

\* RecoveryCountGrows: the bound on the recoveries of a run counts all of them.
THEOREM RecoveriesAreCounted == LeasedDeployment => (Spec => RecoveryCountGrows)
<1>1. ASSUME LeasedDeployment PROVE Spec => RecoveryCountGrows
  <2>1. Init => LeaseInv
    BY <1>1, InitLeaseInv
  <2>2. LeaseInv /\ [Next]_vars => LeaseInv'
    BY <1>1, NextLeaseInv
  <2>3. LeaseInv /\ [Next]_vars => [record'.recovery >= record.recovery]_vars
    BY RecoveryCountStep
  <2>4. QED
    BY <2>1, <2>2, <2>3, PTL DEF Spec, RecoveryCountGrows
<1>2. QED
  BY <1>1

-------------------------------------------------------------------------------
\* The context takes a status that ends the run, or the job goes on.
LEMMA EnterEndsRun ==
    ASSUME ApiSlots = {}, TypeInv, JobsEndRuns, NEW h \in Slots,
           NEW st \in Statuses, NEW then, NEW again,
           Enter(h, st, then, again), st # "QUEUED",
           then \in {"release", "finally"} <=> st \in Terminal,
           then = "finally" => again
    PROVE  JobsEndRuns'
<1>1. \A g \in Slots : Own(g) = g /\ g \in Contexts
  BY DEF Own, Contexts
<1>2. /\ slot'[h].pc = "read" /\ slot'[h].then = then /\ slot'[h].again = again
      /\ \A g \in Slots : g # h => slot'[g] = slot[g]
  BY DEF Enter, TypeInv, TypeOK, SlotStates
<1>3. /\ context'[h].status = st
      /\ \A g \in Slots : g # h => context'[g] = context[g]
  BY <1>1 DEF Enter, TypeInv, TypeOK
<1>4. QED
  BY <1>1, <1>2, <1>3 DEF JobsEndRuns

\* The context takes a status with which the run has ended.
LEMMA EnterLast ==
    ASSUME ApiSlots = {}, TypeInv, JobsEndRuns, NEW h \in Slots, NEW st \in Terminal,
           \/ \E again \in BOOLEAN : Enter(h, st, "release", again)
           \/ Enter(h, st, "finally", TRUE)
    PROVE  JobsEndRuns'
<1>1. st \in Statuses /\ st # "QUEUED"
  BY DEF Statuses, Terminal
<1>2. ASSUME NEW again \in BOOLEAN, Enter(h, st, "release", again)
      PROVE  JobsEndRuns'
  BY <1>1, <1>2, EnterEndsRun
<1>3. ASSUME Enter(h, st, "finally", TRUE)
      PROVE  JobsEndRuns'
  BY <1>1, <1>3, EnterEndsRun
<1>4. QED
  BY <1>2, <1>3

\* A step that leaves the contexts alone, and brings no slot to an update.
LEMMA NoJobEnds ==
    ASSUME JobsEndRuns, NEW h \in Slots,
           context' = context,
           \A g \in Slots : g # h => slot'[g] = slot[g],
           slot'[h].pc \in {"read", "write"} =>
               /\ slot[h].pc \in {"read", "write"} /\ slot'[h].then = slot[h].then
               /\ slot'[h].again = slot[h].again
    PROVE  JobsEndRuns'
  BY DEF JobsEndRuns, Own

\* Every step keeps a slot that goes from its next update to the release one that ends
\* the run.
LEMMA NextJobsEndRuns ==
    ApiSlots = {} /\ TypeInv /\ JobsEndRuns /\ [Next]_vars => JobsEndRuns'
<1> SUFFICES ASSUME ApiSlots = {}, TypeInv, JobsEndRuns, [Next]_vars
             PROVE  JobsEndRuns'
  OBVIOUS
<1>0. /\ Api \notin Slots
      /\ \A g \in Slots : Own(g) = g /\ g \in Contexts
      /\ slot \in [Slots -> SlotStates] /\ \A g \in Slots : slot[g] \in SlotStates
      /\ context \in [Contexts -> [status : Statuses, token : BOOLEAN]]
  BY SlotsAssumption DEF TypeInv, TypeOK, Own, Contexts
<1>1. ASSUME NEW h \in Slots, LoadCheckpoint(h) \/ LoadRaises(h) \/ Plan(h) \/ Report(h)
      PROVE  JobsEndRuns'
  <2>1. PICK st \in Statuses, then \in {"plan", "execute", "release", "finally"},
             again \in BOOLEAN :
           /\ Enter(h, st, then, again) /\ st # "QUEUED"
           /\ then \in {"release", "finally"} <=> st \in Terminal
           /\ then = "finally" => again
    BY <1>1, StatusesType DEF LoadCheckpoint, LoadRaises, Plan, Report, Raise, Terminal
  <2>2. QED
    BY <1>0, <2>1, EnterEndsRun
<1>2. ASSUME NEW h \in Slots, Execute(h)
      PROVE  JobsEndRuns'
  <2>1. CASE \/ Enter(h, "FAILED", "release", TRUE)
             \/ Raise(h)
             \/ Enter(h, "CANCELLED", "release", FALSE)
    <3>1. "FAILED" \in Terminal /\ "CANCELLED" \in Terminal
      BY DEF Terminal
    <3>2. QED
      BY <1>0, <2>1, <3>1, EnterLast DEF Raise
  <2>2. CASE /\ context' = [context EXCEPT ![Own(h)].status =
                               IF slot[h].refined = 0 THEN "COMPLETED" ELSE @]
             /\ slot' = [slot EXCEPT ![h].pc = "report"]
    BY <1>0, <2>2 DEF JobsEndRuns, SlotStates
  <2>3. QED
    BY <1>2, <2>1, <2>2 DEF Execute
<1>3. ASSUME NEW h \in Slots, Refine(h)
      PROVE  JobsEndRuns'
  <2>1. CASE Enter(h, "CANCELLED", "release", FALSE)
    BY <1>0, <2>1, EnterLast DEF Terminal
  <2>2. CASE /\ context' = [context EXCEPT ![Own(h)].status = "RESEARCHING"]
             /\ slot' = [slot EXCEPT ![h].pc = "read", ![h].then = "execute",
                                     ![h].refined = @ + 1]
    <3>1. /\ slot'[h].then = "execute" /\ context'[h].status = "RESEARCHING"
          /\ \A g \in Slots : g # h => slot'[g] = slot[g] /\ context'[g] = context[g]
      BY <1>0, <2>2 DEF SlotStates
    <3>2. QED
      BY <1>0, <3>1 DEF JobsEndRuns, Terminal
  <2>3. QED
    BY <1>3, <2>1, <2>2 DEF Refine
<1>4. ASSUME NEW h \in Slots, ResolveContext(h)
      PROVE  JobsEndRuns'
  <2>1. \A g \in Slots : g # h => slot'[g] = slot[g] /\ context'[g] = context[g]
    BY <1>0, <1>4 DEF ResolveContext
  <2>2. Resolved(h) \in [status : Statuses, token : BOOLEAN]
    BY <1>0 DEF Resolved, TypeInv, TypeOK, RunRecords
  <2>3. slot'[h].pc = "read" =>
           context'[h].status = "CANCELLED" /\ slot'[h].then = "release"
    BY <1>0, <1>4, <2>2 DEF ResolveContext, SlotStates
  <2>4. slot'[h].pc # "write"
    BY <1>0, <1>4 DEF ResolveContext, SlotStates
  <2>5. QED
    BY <1>0, <2>1, <2>3, <2>4 DEF JobsEndRuns, Terminal
<1>5. ASSUME NEW h \in Slots, Acknowledge(h) \/ SettleRaises(h)
      PROVE  JobsEndRuns'
  <2>1. /\ slot'[h].pc = "idle"
        /\ \A g \in Slots : g # h => slot'[g] = slot[g] /\ context'[g] = context[g]
    BY <1>0, <1>5 DEF Acknowledge, SettleRaises, Forget, IdleSlot
  <2>2. QED
    BY <1>0, <2>1 DEF JobsEndRuns
<1>6. ASSUME NEW h \in Slots, Receive(h)
      PROVE  JobsEndRuns'
  <2>1. PICK l \in {"resolve", "acquire"}, m \in Messages :
           slot' = [slot EXCEPT ![h].pc = l, ![h].msg = m,
                                ![h].delivery = queue[m].deliveries + 1]
    BY <1>6 DEF Receive
  <2>2. slot'[h].pc = l /\ \A g \in Slots : g # h => slot'[g] = slot[g]
    BY <1>0, <2>1 DEF SlotStates
  <2>3. QED
    BY <1>6, <2>2, NoJobEnds DEF Receive
<1>7. ASSUME NEW h \in Slots,
             \/ AcquireLease(h) \/ LeaseConflict(h) \/ ReleaseLease(h)
             \/ AcquireRaises(h) \/ ResolveRaises(h) \/ ReleaseRaises(h)
      PROVE  JobsEndRuns'
  <2>1. /\ slot'[h].pc \in {"resolve", "idle", "settle", "release"}
        /\ \A g \in Slots : g # h => slot'[g] = slot[g]
    BY <1>0, <1>7
    DEF AcquireLease, LeaseConflict, ReleaseLease, AcquireRaises, ResolveRaises,
        ReleaseRaises, IdleSlot, SlotStates
  <2>2. context' = context
    BY <1>7
    DEF AcquireLease, LeaseConflict, ReleaseLease, AcquireRaises, ResolveRaises,
        ReleaseRaises
  <2>3. QED
    BY <2>1, <2>2, NoJobEnds
<1>8. ASSUME NEW h \in Slots, SyncRead(h) \/ SyncWrite(h) \/ Settle(h)
      PROVE  JobsEndRuns'
  <2>1. /\ slot'[h].pc \in {"read", "write"} =>
               /\ slot[h].pc \in {"read", "write"} /\ slot'[h].then = slot[h].then
               /\ slot'[h].again = slot[h].again
        /\ \A g \in Slots : g # h => slot'[g] = slot[g]
    BY <1>0, <1>8 DEF SyncRead, SyncWrite, Settle, SlotStates
  <2>2. QED
    BY <1>8, <2>1, NoJobEnds DEF SyncRead, SyncWrite, Settle
<1>9. ASSUME NEW h \in Slots, Heartbeat(h) \/ SaveCheckpoint(h) \/ Duplicate(h)
      PROVE  JobsEndRuns'
  <2>1. /\ slot'[h].pc = slot[h].pc /\ slot'[h].then = slot[h].then
        /\ slot'[h].again = slot[h].again
        /\ \A g \in Slots : g # h => slot'[g] = slot[g]
    BY <1>0, <1>9 DEF Heartbeat, SaveCheckpoint, Duplicate, SlotStates
  <2>2. QED
    BY <1>9, <2>1, NoJobEnds DEF Heartbeat, SaveCheckpoint, Duplicate
<1>10. ASSUME NEW s \in Supervisors,
              SupervisorStep(s) \/ RepublishFails(s) \/ ClaimRaises(s) \/ RecoverRaises(s)
       PROVE  JobsEndRuns'
  <2>1. slot' = slot /\ context' = context
    BY <1>10
    DEF SupervisorStep, Scan, Claim, Inspect, Skip, RecoverCancelled, RecoveryExhausted,
        Recover, Republish, RepublishFails, ClaimRaises, RecoverRaises
  <2>2. QED
    BY <2>1 DEF JobsEndRuns, Own
<1>11. ASSUME NEW p \in Processes, Crash(p)
       PROVE  JobsEndRuns'
  <2>1. \A g \in Slots : IF HostOf[g] = p THEN slot'[g].pc = "idle"
                                         ELSE slot'[g] = slot[g]
    BY <1>11 DEF Crash, IdleSlot
  <2>2. \A g \in Slots : HostOf[g] # p => context'[g] = context[g]
    BY <1>0, <1>11 DEF Crash, Forget
  <2>3. QED
    BY <1>0, <2>1, <2>2 DEF JobsEndRuns
<1>12. ASSUME Tick
       PROVE  JobsEndRuns'
  <2>1. \A g \in Slots : /\ slot'[g].pc = slot[g].pc /\ slot'[g].then = slot[g].then
                         /\ slot'[g].again = slot[g].again
    BY <1>0, <1>12 DEF Tick, SlotStates
  <2>2. QED
    BY <1>12, <2>1 DEF Tick, JobsEndRuns, Own
<1>13. ASSUME CancelRead \/ CancelWrite
       PROVE  JobsEndRuns'
  <2>1. slot' = slot /\ \A g \in Slots : context'[g] = context[g]
    BY <1>0, <1>13 DEF CancelRead, CancelWrite
  <2>2. QED
    BY <1>0, <2>1 DEF JobsEndRuns
<1>14. ASSUME PublishJob \/ PublishJobFails \/ Finished \/ UNCHANGED vars
       PROVE  JobsEndRuns'
  BY <1>14 DEF PublishJob, PublishJobFails, Finished, vars, JobsEndRuns, Own
<1>15. ASSUME NEW h \in Slots, SyncRaises(h)
       PROVE  JobsEndRuns'
  <2>1. CASE Raise(h)
    BY <1>0, <2>1, EnterEndsRun, StatusesType DEF Terminal, Raise
  <2>2. CASE context' = context /\ slot' = [slot EXCEPT ![h].pc = "release",
                                  ![h].then = "release", ![h].copy = NoRecord]
    BY <1>0, <2>2, NoJobEnds DEF SlotStates
  <2>3. QED
    BY <1>15, <2>1, <2>2 DEF SyncRaises
<1>16. QED
  BY <1>1, <1>2, <1>3, <1>4, <1>5, <1>6, <1>7, <1>8, <1>9, <1>10, <1>11, <1>12, <1>13,
     <1>14, <1>15
  DEF Next, SlotStep, SlotCallRaises

\* A message that is published is on its way.
LEMMA PublishedIsOnItsWay ==
    ASSUME TypeInv, NEW e, Publish(e),
           \A h \in Slots : slot'[h].msg = slot[h].msg
    PROVE  \E m \in Messages : OnItsWay(m)'
<1>1. PICK m \in Messages : /\ queue'[m].state = "waiting"
                            /\ \A h \in Slots : slot[h].msg # m
  BY PublishType DEF TypeInv, TypeOK
<1>2. OnItsWay(m)'
  BY <1>1 DEF OnItsWay, Live
<1>3. QED
  BY <1>2

\* A message whose delivery is not acknowledged is on its way again, or used up.
LEMMA ReturnedIsOnItsWay ==
    ASSUME TypeInv, NEW hs, Returned(hs), UsedUp \/ \E m \in Messages : OnItsWay(m),
           \A g \in Slots : slot'[g] = slot[g] \/ slot'[g] = IdleSlot
    PROVE  UsedUp' \/ \E m \in Messages : OnItsWay(m)'
<1>1. queue \in [Messages -> MessageStates]
  BY DEF TypeInv, TypeOK
<1>2. ASSUME NEW m \in Messages
      PROVE  \/ queue'[m] = queue[m]
             \/ queue[m].state = "out" /\ queue'[m].state = "waiting"
             \/ /\ queue[m].state = "out" /\ queue'[m].state = "dead"
                /\ queue'[m].deliveries = MaxDeliveries
  <2>1. CASE m \notin {slot[h].msg : h \in {g \in hs : Outstanding(g)}}
    BY <2>1 DEF Returned
  <2>2. CASE m \in {slot[h].msg : h \in {g \in hs : Outstanding(g)}}
    <3>1. queue[m].state = "out"
      <4>1. PICK g \in hs : m = slot[g].msg /\ Outstanding(g)
        BY <2>2
      <4>2. QED
        BY <4>1 DEF Outstanding
    <3>2. queue'[m] = [queue[m] EXCEPT !.state =
                          IF queue[m].deliveries < MaxDeliveries THEN "waiting" ELSE "dead"]
      BY <2>2 DEF Returned
    <3>3. queue[m] \in MessageStates /\ MaxDeliveries \in Nat
      BY <1>1, BoundsAssumption
    <3>4. QED
      BY <3>1, <3>2, <3>3 DEF MessageStates
  <2>3. QED
    BY <2>1, <2>2
<1>3. ASSUME UsedUp PROVE UsedUp'
  BY <1>2, <1>3 DEF UsedUp
<1>4. ASSUME NEW m \in Messages, OnItsWay(m)
      PROVE  OnItsWay(m)' \/ UsedUp'
  <2>1. ASSUME NEW h \in Slots, slot'[h].msg = m
        PROVE  Young(h)'
    <3>1. slot'[h] = slot[h]
      BY <2>1, AbsentAssumption DEF IdleSlot
    <3>2. QED
      BY <1>4, <2>1, <3>1 DEF OnItsWay, Young
  <2>2. queue'[m].state \in {"waiting", "out"} \/ UsedUp'
    BY <1>2, <1>4 DEF OnItsWay, Live, UsedUp
  <2>3. QED
    BY <2>1, <2>2 DEF OnItsWay, Live
<1>5. QED
  BY <1>3, <1>4

\* A step of one slot that leaves the messages alone, and its own one the run's.
LEMMA SlotKeepsMessage ==
    ASSUME JobOnItsWay, NEW h \in Slots,
           \A g \in Slots : g # h => slot'[g] = slot[g],
           slot'[h].msg = slot[h].msg, Young(h) => Young(h)',
           queue' = queue, sup' = sup, faults'["publish"] = faults["publish"]
    PROVE  JobOnItsWay'
<1>1. \A m \in Messages : OnItsWay(m) => OnItsWay(m)'
  BY DEF OnItsWay, Live, Young
<1>2. UsedUp' <=> UsedUp
  BY DEF UsedUp
<1>3. QED
  BY <1>1, <1>2 DEF JobOnItsWay

\* Every step keeps a job for a run that waits in QUEUED.
LEMMA NextQueuedRunAwaitsJob ==
    ApiSlots = {} /\ JobInv /\ [Next]_vars => QueuedRunAwaitsJob'
<1> SUFFICES ASSUME ApiSlots = {}, JobInv, [Next]_vars
             PROVE  QueuedRunAwaitsJob'
  OBVIOUS
<1>0. /\ TypeInv /\ TypeInv'
      /\ record \in RunRecords /\ queue \in [Messages -> MessageStates]
      /\ slot \in [Slots -> SlotStates] /\ sup \in [Supervisors -> SupervisorStates]
      /\ \A g \in Slots : slot[g] \in SlotStates /\ Own(g) = g /\ g \in Contexts
      /\ \A s \in Supervisors : sup[s] \in SupervisorStates
      /\ \A g \in Slots : slot[g].pc # "idle" => slot[g].msg \in Messages
      /\ \A g \in Slots : slot[g].pc = "idle" => slot[g].msg = NoMessage
      /\ faults \in [FaultKinds -> Nat]
  BY NextTypeInv
  DEF JobInv, TypeInv, TypeOK, Equipped, Own, Contexts, SlotStates
<1>1. ASSUME api' = api, faults'["publish"] >= faults["publish"],
             record'.status = "QUEUED" => record.status = "QUEUED",
             record.status = "QUEUED" /\ JobOnItsWay => JobOnItsWay'
      PROVE  QueuedRunAwaitsJob'
  <2>1. faults["publish"] \in Nat /\ faults'["publish"] \in Nat
    BY <1>0, KindsAreFaults DEF TypeInv, TypeOK
  <2>2. QED
    BY <1>1, <2>1 DEF JobInv, QueuedRunAwaitsJob
<1>2. ASSUME api' = api, faults'["publish"] = faults["publish"],
             record'.status = record.status, NEW h \in Slots,
             \A g \in Slots : g # h => slot'[g] = slot[g],
             slot'[h].msg = slot[h].msg, record.status = "QUEUED" /\ Young(h) => Young(h)',
             queue' = queue, sup' = sup
      PROVE  QueuedRunAwaitsJob'
  <2>1. record.status = "QUEUED" /\ JobOnItsWay => JobOnItsWay'
    BY <1>2, SlotKeepsMessage
  <2>2. faults'["publish"] >= faults["publish"]
    BY <1>0, <1>2, KindsAreFaults
  <2>3. QED
    BY <1>1, <1>2, <2>1, <2>2
<1>3. ASSUME api' = api, faults'["publish"] = faults["publish"],
             record'.status = record.status,
             \A g \in Slots : slot'[g] = slot[g] \/ slot'[g] = IdleSlot,
             \E hs : Returned(hs),
             \A s \in Supervisors : sup[s].pc = "publish" => sup'[s] = sup[s]
      PROVE  QueuedRunAwaitsJob'
  <2>1. JobOnItsWay => JobOnItsWay'
    BY <1>0, <1>3, ReturnedIsOnItsWay DEF JobOnItsWay
  <2>2. faults'["publish"] >= faults["publish"]
    BY <1>0, <1>3, KindsAreFaults
  <2>3. QED
    BY <1>1, <1>3, <2>1, <2>2
<1>4. ASSUME NEW h \in Slots, NEW m \in Messages, queue[m].state = "waiting",
             queue' = [queue EXCEPT ![m].state = "out", ![m].deliveries = @ + 1],
             slot' = [slot EXCEPT ![h].pc = "acquire", ![h].msg = m,
                                  ![h].delivery = queue[m].deliveries + 1],
             JobOnItsWay, sup' = sup, faults' = faults
      PROVE  JobOnItsWay'
  <2>1. /\ slot'[h].pc = "acquire" /\ \A g \in Slots : g # h => slot'[g] = slot[g]
        /\ \A n \in Messages : n # m => queue'[n] = queue[n]
        /\ queue'[m].state = "out"
    BY <1>0, <1>4 DEF SlotStates, MessageStates
  <2>2. \A n \in Messages : OnItsWay(n) => OnItsWay(n)'
    BY <2>1 DEF OnItsWay, Live, Young
  <2>3. UsedUp => UsedUp'
    BY <1>4, <2>1 DEF UsedUp
  <2>4. QED
    BY <1>4, <2>2, <2>3 DEF JobOnItsWay
<1>5. ASSUME NEW h \in Slots, Receive(h)
      PROVE  QueuedRunAwaitsJob'
  <2>1. JobOnItsWay => JobOnItsWay'
    BY <1>4, <1>5 DEF Receive
  <2>2. QED
    BY <1>0, <1>1, <1>5, <2>1, KindsAreFaults DEF Receive
<1>6. ASSUME NEW h \in Slots, AcquireLease(h) \/ AcquireRaises(h)
      PROVE  QueuedRunAwaitsJob'
  <2>1. record'.status = record.status
    BY <1>0, <1>6 DEF AcquireLease, AcquireRaises, Granted, RunRecords
  <2>2. /\ \A g \in Slots : g # h => slot'[g] = slot[g]
        /\ slot'[h].msg = slot[h].msg /\ Young(h)'
    BY <1>0, <1>6 DEF AcquireLease, AcquireRaises, Young, SlotStates
  <2>3. faults'["publish"] = faults["publish"]
    BY <1>0, <1>6, CallType DEF AcquireLease, AcquireRaises
  <2>4. api' = api /\ queue' = queue /\ sup' = sup
    BY <1>6 DEF AcquireLease, AcquireRaises
  <2>5. QED
    BY <1>2, <2>1, <2>2, <2>3, <2>4
<1>7. ASSUME NEW h \in Slots, LeaseConflict(h) \/ SettleRaises(h)
      PROVE  QueuedRunAwaitsJob'
  <2>1. faults'["publish"] = faults["publish"]
    BY <1>0, <1>7, CallType DEF LeaseConflict, SettleRaises
  <2>2. QED
    BY <1>0, <1>3, <1>7, <2>1 DEF LeaseConflict, SettleRaises
<1>8. ASSUME NEW h \in Slots, ResolveContext(h)
      PROVE  QueuedRunAwaitsJob'
  <2>1. Resolved(h).status = record.status
    BY DEF Resolved
  <2>2. record.status = "QUEUED" => slot'[h].pc \in {"read", "load"}
    BY <1>0, <1>8, <2>1 DEF ResolveContext, SlotStates
  <2>3. /\ \A g \in Slots : g # h => slot'[g] = slot[g]
        /\ slot'[h].msg = slot[h].msg
    BY <1>0, <1>8 DEF ResolveContext, SlotStates
  <2>4. QED
    BY <1>2, <1>8, <2>2, <2>3 DEF ResolveContext, Young
<1>9. ASSUME NEW h \in Slots,
             ResolveRaises(h) \/ LoadCheckpoint(h) \/ LoadRaises(h) \/ SyncRead(h)
      PROVE  QueuedRunAwaitsJob'
  <2>1. /\ \A g \in Slots : g # h => slot'[g] = slot[g]
        /\ slot'[h].msg = slot[h].msg /\ Young(h)'
    BY <1>0, <1>9
    DEF ResolveRaises, LoadCheckpoint, LoadRaises, SyncRead, Enter, Young, SlotStates
  <2>2. faults'["publish"] = faults["publish"]
    BY <1>0, <1>9, CallType DEF ResolveRaises, LoadCheckpoint, LoadRaises, SyncRead
  <2>3. record' = record /\ api' = api /\ queue' = queue /\ sup' = sup
    BY <1>9 DEF ResolveRaises, LoadCheckpoint, LoadRaises, SyncRead
  <2>4. QED
    BY <1>2, <2>1, <2>2, <2>3
<1>10. ASSUME NEW h \in Slots, slot[h].pc = "write"
       PROVE  Synchronised(h).status # "QUEUED"
  <2>1. slot[h].copy \in RunRecords
    BY <1>0, <1>10 DEF TypeInv, Equipped, SlotStates
  <2>2. Synchronised(h).status = context[h].status
    BY <1>0, <2>1 DEF Synchronised, RunRecords
  <2>3. QED
    BY <1>0, <1>10, <2>2 DEF JobInv, JobsEndRuns
<1>11. ASSUME NEW h \in Slots, SyncWrite(h)
       PROVE  QueuedRunAwaitsJob'
  <2>1. record'.status # "QUEUED"
    BY <1>10, <1>11 DEF SyncWrite
  <2>2. QED
    BY <1>11, <2>1 DEF SyncWrite, JobInv, QueuedRunAwaitsJob
<1>12. ASSUME NEW h \in Slots, SyncRaises(h)
       PROVE  QueuedRunAwaitsJob'
  <2>1. faults'["publish"] = faults["publish"]
    BY <1>0, <1>12, CallType DEF SyncRaises
  <2>2. CASE slot[h].pc = "write" /\ record' = Synchronised(h)
    BY <1>10, <1>12, <2>1, <2>2 DEF SyncRaises, JobInv, QueuedRunAwaitsJob
  <2>3. CASE record' = record
    <3>1. /\ \A g \in Slots : g # h => slot'[g] = slot[g]
          /\ slot'[h].msg = slot[h].msg
      BY <1>0, <1>12 DEF SyncRaises, Raise, Enter, SlotStates
    <3>2. Young(h)'
      <4>1. CASE slot[h].then = "finally"
        <5>1. slot[h].again
          BY <1>12, <4>1 DEF SyncRaises, JobInv, JobsEndRuns
        <5>2. slot'[h].pc = "release" /\ slot'[h].again = slot[h].again
          BY <1>0, <1>12, <4>1 DEF SyncRaises, SlotStates
        <5>3. QED
          BY <5>1, <5>2 DEF Young
      <4>2. CASE slot[h].then # "finally"
        BY <1>0, <1>12, <4>2 DEF SyncRaises, Raise, Enter, Young, SlotStates
      <4>3. QED
        BY <4>1, <4>2
    <3>3. QED
      BY <1>2, <1>12, <2>1, <2>3, <3>1, <3>2 DEF SyncRaises
  <2>4. QED
    BY <1>12, <2>2, <2>3 DEF SyncRaises
<1>13. ASSUME NEW h \in Slots, Plan(h) \/ SaveCheckpoint(h) \/ Execute(h) \/ Refine(h)
                                   \/ Report(h)
       PROVE  QueuedRunAwaitsJob'
  <2>1. ~Young(h)
    BY <1>13 DEF Plan, SaveCheckpoint, Execute, Refine, Report, Young
  <2>2. /\ \A g \in Slots : g # h => slot'[g] = slot[g]
        /\ slot'[h].msg = slot[h].msg
    <3>1. ASSUME NEW st, NEW then, NEW again, Enter(h, st, then, again)
          PROVE  /\ \A g \in Slots : g # h => slot'[g] = slot[g]
                 /\ slot'[h].msg = slot[h].msg
      BY <1>0, <3>1, EnterStep
    <3>2. CASE Plan(h) \/ Report(h)
      BY <3>1, <3>2 DEF Plan, Report, Raise
    <3>3. CASE SaveCheckpoint(h)
      BY <3>3 DEF SaveCheckpoint
    <3>4. CASE Execute(h)
      BY <1>0, <3>1, <3>4 DEF Execute, Raise, SlotStates
    <3>5. CASE Refine(h)
      <4>1. CASE Cancelled(h)
        BY <3>1, <3>5, <4>1 DEF Refine
      <4>2. CASE ~Cancelled(h)
        BY <1>0, <3>5, <4>2 DEF Refine, SlotStates
      <4>3. QED
        BY <4>1, <4>2
    <3>6. QED
      BY <1>13, <3>2, <3>3, <3>4, <3>5
  <2>3. UNCHANGED <<record, api, queue, sup, faults>>
    BY <1>13 DEF Plan, SaveCheckpoint, Execute, Refine, Report
  <2>4. QED
    BY <1>2, <2>1, <2>2, <2>3
<1>14. ASSUME NEW h \in Slots, ReleaseLease(h) \/ ReleaseRaises(h) \/ Heartbeat(h)
       PROVE  QueuedRunAwaitsJob'
  <2>1. record'.status = record.status
    BY <1>0, <1>14
    DEF ReleaseLease, ReleaseRaises, Heartbeat, ClearLease, Renewed, RunRecords
  <2>2. /\ \A g \in Slots : g # h => slot'[g] = slot[g]
        /\ slot'[h].msg = slot[h].msg /\ slot'[h].again = slot[h].again
        /\ \/ slot'[h].pc = slot[h].pc
           \/ slot[h].pc = "release" /\ slot'[h].pc = "settle"
    <3>1. CASE ReleaseLease(h) \/ ReleaseRaises(h)
      BY <1>0, <3>1 DEF ReleaseLease, ReleaseRaises, SlotStates
    <3>2. CASE Heartbeat(h)
      <4>1. slot' = slot \/ slot' = [slot EXCEPT ![h].beating = FALSE]
        BY <3>2 DEF Heartbeat
      <4>2. QED
        BY <1>0, <4>1 DEF SlotStates
    <3>3. QED
      BY <1>14, <3>1, <3>2
  <2>3. Young(h) => Young(h)'
    BY <2>2 DEF Young
  <2>4. faults'["publish"] = faults["publish"]
    BY <1>0, <1>14, CallType DEF ReleaseLease, ReleaseRaises, Heartbeat
  <2>5. api' = api /\ queue' = queue /\ sup' = sup
    BY <1>14 DEF ReleaseLease, ReleaseRaises, Heartbeat
  <2>6. QED
    BY <1>2, <2>1, <2>2, <2>3, <2>4, <2>5
<1>15. ASSUME NEW h \in Slots, Settle(h)
       PROVE  QueuedRunAwaitsJob'
  <2>1. /\ \A g \in Slots : g # h => slot'[g] = slot[g]
        /\ slot'[h].msg = slot[h].msg /\ slot'[h].again = slot[h].again
        /\ slot'[h].pc = "ack" /\ slot[h].pc = "settle"
    BY <1>0, <1>15 DEF Settle, SlotStates
  <2>2. CASE Retried(h)
    <3>1. \E m \in Messages : OnItsWay(m)'
      BY <1>0, <1>15, <2>1, <2>2, PublishedIsOnItsWay DEF Settle
    <3>2. QED
      BY <1>15, <3>1 DEF Settle, JobInv, QueuedRunAwaitsJob, JobOnItsWay
  <2>3. CASE ~Retried(h)
    <3>1. slot[h].msg.job.attempt =< slot[h].msg.job.max
      <4>1. slot[h].msg.job \in Envelopes
        BY <1>0, <2>1 DEF Messages
      <4>2. QED
        BY <4>1, EnvelopeCounts
    <3>2. Young(h) => Young(h)'
      <4>1. /\ slot[h].msg.job.attempt \in Nat /\ slot[h].msg.job.max \in Nat
        BY <1>0, <2>1, EnvelopeCounts DEF Messages
      <4>2. QED
        BY <2>1, <2>3, <3>1, <4>1 DEF Young, Retried
    <3>3. QED
      BY <1>2, <1>15, <2>1, <2>3, <3>2 DEF Settle
  <2>4. QED
    BY <2>2, <2>3
<1>16. ASSUME NEW h \in Slots, Acknowledge(h)
       PROVE  QueuedRunAwaitsJob'
  <2> DEFINE m == slot[h].msg
  <2>1. /\ \A g \in Slots : g # h => slot'[g] = slot[g]
        /\ slot'[h].msg = NoMessage /\ m \in Messages /\ slot[h].pc = "ack"
        /\ \A n \in Messages : n # m => queue'[n] = queue[n]
    BY <1>0, <1>16 DEF Acknowledge, IdleSlot
  <2>2. ASSUME NEW n \in Messages, OnItsWay(n)
        PROVE  OnItsWay(n)' \/ UsedUp'
    <3>1. CASE n # m
      BY <2>1, <2>2, <3>1, AbsentAssumption DEF OnItsWay, Live, Young
    <3>2. CASE n = m
      <4>1. slot[h].again /\ m.job.attempt = m.job.max
        BY <2>1, <2>2, <3>2 DEF OnItsWay, Young
      <4>2. ~Retried(h)
        <5>1. m.job.attempt \in Nat
          BY <2>1, EnvelopeCounts DEF Messages
        <5>2. QED
          BY <4>1, <5>1 DEF Retried
      <4>3. Live(m)
        BY <2>2, <3>2 DEF OnItsWay
      <4>4. queue'[m].state = "dead"
        BY <1>0, <1>16, <2>1, <4>1, <4>2, <4>3 DEF Acknowledge, MessageStates
      <4>5. QED
        BY <2>1, <4>1, <4>4 DEF UsedUp
    <3>3. QED
      BY <3>1, <3>2
  <2>3. UsedUp => UsedUp'
    <3>1. ~Live(m) => queue'[m] = queue[m]
      BY <1>0, <1>16, <2>1 DEF Acknowledge
    <3>2. QED
      BY <2>1, <3>1 DEF UsedUp, Live
  <2>4. UNCHANGED <<record, api, sup, faults>>
    BY <1>16 DEF Acknowledge
  <2>5. JobOnItsWay => JobOnItsWay'
    BY <2>2, <2>3, <2>4 DEF JobOnItsWay
  <2>6. QED
    BY <1>0, <1>1, <2>4, <2>5, KindsAreFaults
<1>17. ASSUME NEW h \in Slots, Duplicate(h)
       PROVE  QueuedRunAwaitsJob'
  <2>1. faults'["publish"] = faults["publish"]
    BY <1>0, <1>17, FaultType DEF Duplicate, FaultKinds
  <2>2. QED
    BY <1>3, <1>17, <2>1 DEF Duplicate
<1>18. ASSUME NEW s \in Supervisors,
              \/ Scan(s) \/ Claim(s) \/ Inspect(s) \/ Skip(s)
              \/ ClaimRaises(s) \/ RecoverRaises(s)
       PROVE  QueuedRunAwaitsJob'
  <2>1. record'.status = record.status
    BY <1>0, <1>18
    DEF Scan, Claim, Inspect, Skip, ClaimRaises, RecoverRaises, Unclaimed, Granted,
        ClearLease, RunRecords
  <2>2. UNCHANGED <<api, queue, slot>>
    BY <1>18 DEF Scan, Claim, Inspect, Skip, ClaimRaises, RecoverRaises
  <2>3. /\ sup[s].pc # "publish"
        /\ \A t \in Supervisors : t # s => sup'[t] = sup[t]
    BY <1>0, <1>18 DEF Scan, Claim, Inspect, Skip, ClaimRaises, RecoverRaises
  <2>4. faults'["publish"] = faults["publish"]
    BY <1>0, <1>18, CallType DEF Scan, Claim, Inspect, Skip, ClaimRaises, RecoverRaises
  <2>5. JobOnItsWay => JobOnItsWay'
    BY <2>2, <2>3, <2>4 DEF JobOnItsWay, OnItsWay, Live, Young, UsedUp
  <2>6. QED
    BY <1>0, <1>1, <2>1, <2>2, <2>4, <2>5, KindsAreFaults
<1>19. ASSUME NEW s \in Supervisors, RecoverCancelled(s) \/ RecoveryExhausted(s)
       PROVE  QueuedRunAwaitsJob'
  <2>1. sup[s].copy \in RunRecords
    BY <1>0, <1>19
    DEF RecoverCancelled, RecoveryExhausted, TypeInv, Equipped, SupervisorStates
  <2>2. record'.status # "QUEUED"
    <3>1. CASE RecoverCancelled(s)
      BY <2>1, <3>1 DEF RecoverCancelled, ClearLease, RunRecords
    <3>2. CASE RecoveryExhausted(s)
      BY <2>1, <3>2 DEF RecoveryExhausted, ClearLease, RunRecords
    <3>3. QED
      BY <1>19, <3>1, <3>2
  <2>3. QED
    BY <1>19, <2>2
    DEF RecoverCancelled, RecoveryExhausted, JobInv, QueuedRunAwaitsJob
<1>20. ASSUME NEW s \in Supervisors, Recover(s)
       PROVE  QueuedRunAwaitsJob'
  <2>1. sup'[s].pc = "publish" /\ api' = api
    BY <1>0, <1>20 DEF Recover, SupervisorStates
  <2>2. faults'["publish"] = faults["publish"]
    BY <1>0, <1>20, CallType DEF Recover
  <2>3. QED
    BY <2>1, <2>2 DEF JobInv, QueuedRunAwaitsJob, JobOnItsWay
<1>21. ASSUME NEW s \in Supervisors, Republish(s)
       PROVE  QueuedRunAwaitsJob'
  <2>1. \E m \in Messages : OnItsWay(m)'
    BY <1>0, <1>21, PublishedIsOnItsWay DEF Republish
  <2>2. QED
    BY <1>21, <2>1 DEF Republish, JobInv, QueuedRunAwaitsJob, JobOnItsWay
<1>22. CASE PublishJob
  <2>1. \E m \in Messages : OnItsWay(m)'
    BY <1>0, <1>22, PublishedIsOnItsWay DEF PublishJob
  <2>2. QED
    BY <1>22, <2>1 DEF PublishJob, QueuedRunAwaitsJob, JobOnItsWay
<1>23. ASSUME PublishJobFails \/ \E s \in Supervisors : RepublishFails(s)
       PROVE  QueuedRunAwaitsJob'
  <2>1. faults'["publish"] > 0
    BY <1>0, <1>23, FaultType, KindsAreFaults DEF PublishJobFails, RepublishFails
  <2>2. QED
    BY <2>1 DEF QueuedRunAwaitsJob, JobOnItsWay
<1>24. ASSUME NEW p \in Processes, Crash(p)
       PROVE  QueuedRunAwaitsJob'
  <2>1. faults'["publish"] = faults["publish"]
    BY <1>0, <1>24, FaultType DEF Crash, FaultKinds
  <2>2. QED
    BY <1>3, <1>24, <2>1 DEF Crash
<1>25. CASE Tick
  <2>1. /\ record'.status = record.status /\ UNCHANGED <<api, queue, faults>>
        /\ \A g \in Slots : /\ slot'[g].pc = slot[g].pc /\ slot'[g].msg = slot[g].msg
                            /\ slot'[g].again = slot[g].again
        /\ \A s \in Supervisors : sup'[s].pc = sup[s].pc
    BY <1>0, <1>25 DEF Tick, Aged, RunRecords, SlotStates, SupervisorStates
  <2>2. \A g \in Slots : Young(g)' <=> Young(g)
    BY <2>1 DEF Young
  <2>3. JobOnItsWay => JobOnItsWay'
    BY <2>1, <2>2 DEF JobOnItsWay, OnItsWay, Live, UsedUp
  <2>4. QED
    BY <1>0, <1>1, <2>1, <2>3, KindsAreFaults
<1>26. CASE CancelRead
  BY <1>26
  DEF CancelRead, JobInv, QueuedRunAwaitsJob, JobOnItsWay, OnItsWay, Live, Young, UsedUp
<1>27. CASE CancelWrite
  <2>1. client.copy \in RunRecords
    BY <1>0, <1>27 DEF CancelWrite, TypeInv, TypeOK, Equipped
  <2>2. record'.status # "QUEUED"
    BY <1>27, <2>1 DEF CancelWrite, RunRecords
  <2>3. QED
    BY <1>27, <2>2 DEF CancelWrite, JobInv, QueuedRunAwaitsJob
<1>28. CASE UNCHANGED vars
  BY <1>28
  DEF vars, JobInv, QueuedRunAwaitsJob, JobOnItsWay, OnItsWay, Live, Young, UsedUp
<1>29. QED
  BY <1>5, <1>6, <1>7, <1>8, <1>9, <1>11, <1>12, <1>13, <1>14, <1>15, <1>16, <1>17, <1>18,
     <1>19, <1>20, <1>21, <1>22, <1>23, <1>24, <1>25, <1>26, <1>27, <1>28
  DEF Next, SlotStep, SlotCallRaises, SupervisorStep, Finished

\* A run that waits in QUEUED, where no supervisor looks, has a job, or one whose
\* attempts or deliveries were used up, or that was never published: QueuedRunHasJob,
\* with leases that are kept or lapse early, whatever crashes and whichever calls
\* raise, where the API process consumes no jobs.
THEOREM QueuedRunKeepsJob == ApiSlots = {} => (Spec => []QueuedRunHasJob)
<1>1. ASSUME ApiSlots = {} PROVE Spec => []QueuedRunHasJob
  <2>1. Init => JobInv
    BY InitTypeInv DEF Init, JobInv, QueuedRunAwaitsJob, JobsEndRuns, IdleSlot
  <2>2. JobInv /\ [Next]_vars => JobInv'
    BY <1>1, NextTypeInv, NextJobsEndRuns, NextQueuedRunAwaitsJob DEF JobInv
  <2>3. JobInv => QueuedRunHasJob
    BY DEF JobInv, TypeInv, TypeOK, QueuedRunAwaitsJob, JobOnItsWay, OnItsWay,
           QueuedRunHasJob
  <2>4. QED
    BY <2>1, <2>2, <2>3, PTL DEF Spec
<1>2. QED
  BY <1>1

-------------------------------------------------------------------------------
\* A step of a settled run's slot that goes nowhere but to its end.
LEMMA SlotStaysSettled ==
    ASSUME Settled, NEW h \in Slots, ApiSlots = {},
           \A g \in Slots : g # h => slot'[g] = slot[g] /\ context'[g] = context[g],
           slot'[h].pc \notin {"load", "plan", "execute", "report"},
           slot'[h].pc \in {"read", "write"} =>
               /\ slot'[h].then = "release"
               /\ context'[h].status = record.status,
           record'.status = record.status,
           UNCHANGED <<sup, client>>
    PROVE  Settled'
<1>1. \A g \in Slots : Own(g) = g
  BY DEF Own
<1>2. QED
  BY <1>1 DEF Settled

\* A step of the others that changes no status, no context and no slot's place.
LEMMA OthersStaySettled ==
    ASSUME Settled,
           \A g \in Slots : slot'[g].pc = slot[g].pc /\ slot'[g].then = slot[g].then,
           \A s \in Supervisors : sup'[s].pc = "decide" => sup'[s].copy.status \notin Active,
           record'.status = record.status,
           context' = context,
           client'.pc # "write"
    PROVE  Settled'
  BY DEF Settled, Own

\* In a deployment where workers execute runs, a run that has settled is not taken up
\* again, whatever else happens: crashes, lapsed leases, redeliveries, recoveries, and
\* calls that raise, but for a slot that is about to write once more how it ended.
LEMMA NextSettled ==
    ASSUME ApiSlots = {}, TypeInv, [Next]_vars, Settled, client'.pc # "write",
           \A h \in Slots : ~SyncRaises(h)
    PROVE  Settled' /\ record'.status = record.status
<1>0. /\ \A g \in Slots : slot[g] \in SlotStates /\ Own(g) = g /\ g \in Contexts
      /\ \A s \in Supervisors : sup[s] \in SupervisorStates
      /\ record \in RunRecords
      /\ slot \in [Slots -> SlotStates] /\ sup \in [Supervisors -> SupervisorStates]
      /\ context \in [Contexts -> [status : Statuses, token : BOOLEAN]]
  BY DEF TypeInv, TypeOK, Own, Contexts
<1>1. ASSUME NEW h \in Slots, Receive(h)
      PROVE  Settled' /\ record'.status = record.status
  <2>1. PICK l \in {"resolve", "acquire"}, m \in Messages :
           slot' = [slot EXCEPT ![h].pc = l, ![h].msg = m,
                                ![h].delivery = queue[m].deliveries + 1]
    BY <1>1 DEF Receive
  <2>2. slot'[h].pc = l /\ \A g \in Slots : g # h => slot'[g] = slot[g]
    BY <1>0, <2>1 DEF SlotStates
  <2>3. QED
    BY <1>1, <2>2, SlotStaysSettled DEF Receive
<1>2. ASSUME NEW h \in Slots,
             \/ AcquireLease(h) \/ LeaseConflict(h) \/ ReleaseLease(h) \/ Settle(h)
             \/ AcquireRaises(h) \/ ResolveRaises(h) \/ ReleaseRaises(h)
      PROVE  Settled' /\ record'.status = record.status
  <2>1. /\ slot'[h].pc \in {"resolve", "idle", "release", "settle", "ack"}
        /\ \A g \in Slots : g # h => slot'[g] = slot[g]
    <3>1. CASE AcquireLease(h) \/ LeaseConflict(h) \/ ReleaseLease(h) \/ Settle(h)
      BY <1>0, <3>1
      DEF AcquireLease, LeaseConflict, ReleaseLease, Settle, IdleSlot, SlotStates
    <3>2. CASE AcquireRaises(h) \/ ResolveRaises(h) \/ ReleaseRaises(h)
      BY <1>0, <3>2 DEF AcquireRaises, ResolveRaises, ReleaseRaises, SlotStates
    <3>3. QED
      BY <1>2, <3>1, <3>2
  <2>2. record'.status = record.status
    BY <1>0, <1>2
    DEF AcquireLease, LeaseConflict, ReleaseLease, Settle, AcquireRaises, ResolveRaises,
        ReleaseRaises, Granted, ClearLease, RunRecords
  <2>3. context' = context /\ sup' = sup /\ client' = client
    BY <1>2
    DEF AcquireLease, LeaseConflict, ReleaseLease, Settle, AcquireRaises, ResolveRaises,
        ReleaseRaises
  <2>4. QED
    BY <2>1, <2>2, <2>3, SlotStaysSettled
<1>3. ASSUME NEW h \in Slots, ResolveContext(h)
      PROVE  Settled' /\ record'.status = record.status
  <2>1. \A g \in Slots : g # h => slot'[g] = slot[g] /\ context'[g] = context[g]
    BY <1>0, <1>3 DEF ResolveContext
  <2>2. Resolved(h).status = record.status /\ record.status \in {"COMPLETED", "CANCELLED"}
    BY DEF Resolved, Settled
  <2>3. Resolved(h) \in [status : Statuses, token : BOOLEAN]
    BY <1>0 DEF Resolved, TypeInv, TypeOK, RunRecords
  <2>4. /\ slot'[h].pc \in {"release", "read"}
        /\ slot'[h].pc = "read" => /\ slot'[h].then = "release"
                                   /\ context'[h].status = record.status
    BY <1>0, <1>3, <2>2, <2>3 DEF ResolveContext, SlotStates
  <2>5. QED
    BY <1>3, <2>1, <2>4, SlotStaysSettled DEF ResolveContext
<1>4. ASSUME NEW h \in Slots,
             \/ LoadCheckpoint(h) \/ LoadRaises(h) \/ Plan(h) \/ SaveCheckpoint(h)
             \/ Execute(h) \/ Refine(h) \/ Report(h)
      PROVE  FALSE
  BY <1>4
  DEF LoadCheckpoint, LoadRaises, Plan, SaveCheckpoint, Execute, Refine, Report, Settled
<1>5. ASSUME NEW h \in Slots, SyncRead(h)
      PROVE  Settled' /\ record'.status = record.status
  <2>1. /\ slot'[h].pc = "write" /\ slot'[h].then = slot[h].then
        /\ \A g \in Slots : g # h => slot'[g] = slot[g]
    BY <1>0, <1>5 DEF SyncRead, SlotStates
  <2>2. slot[h].then = "release" /\ context[h].status = record.status
    BY <1>0, <1>5 DEF SyncRead, Settled
  <2>3. QED
    BY <1>5, <2>1, <2>2, SlotStaysSettled DEF SyncRead
<1>6. ASSUME NEW h \in Slots, SyncWrite(h)
      PROVE  Settled' /\ record'.status = record.status
  <2>1. slot[h].then = "release" /\ context[h].status = record.status
    BY <1>0, <1>6 DEF SyncWrite, Settled
  <2>2. slot[h].copy \in RunRecords
    BY <1>0, <1>6 DEF SyncWrite, TypeInv, Equipped, SlotStates
  <2>3. record'.status = record.status
    BY <1>0, <1>6, <2>1, <2>2 DEF SyncWrite, Synchronised, RunRecords
  <2>4. /\ slot'[h].pc = "release"
        /\ \A g \in Slots : g # h => slot'[g] = slot[g]
    BY <1>0, <1>6, <2>1 DEF SyncWrite, SlotStates
  <2>5. QED
    BY <1>6, <2>3, <2>4, SlotStaysSettled DEF SyncWrite
<1>7. ASSUME NEW h \in Slots, Acknowledge(h) \/ SettleRaises(h)
      PROVE  Settled' /\ record'.status = record.status
  <2>1. /\ slot'[h].pc = "idle"
        /\ \A g \in Slots : g # h => slot'[g] = slot[g] /\ context'[g] = context[g]
    BY <1>0, <1>7 DEF Acknowledge, SettleRaises, Forget, IdleSlot
  <2>2. QED
    BY <1>7, <2>1, SlotStaysSettled DEF Acknowledge, SettleRaises
<1>8. ASSUME NEW h \in Slots, Heartbeat(h) \/ Duplicate(h)
      PROVE  Settled' /\ record'.status = record.status
  <2>1. \/ slot' = slot
        \/ slot' = [slot EXCEPT ![h].beating = FALSE]
    BY <1>8 DEF Heartbeat, Duplicate
  <2>2. \A g \in Slots : slot'[g].pc = slot[g].pc /\ slot'[g].then = slot[g].then
    BY <1>0, <2>1 DEF SlotStates
  <2>3. record'.status = record.status
    BY <1>0, <1>8 DEF Heartbeat, Duplicate, Renewed, RunRecords
  <2>4. QED
    BY <1>8, <2>2, <2>3, OthersStaySettled DEF Heartbeat, Duplicate, Settled
<1>9. ASSUME NEW s \in Supervisors,
             \/ Scan(s) \/ Claim(s) \/ Inspect(s) \/ Skip(s) \/ Republish(s)
             \/ RepublishFails(s) \/ ClaimRaises(s) \/ RecoverRaises(s)
      PROVE  Settled' /\ record'.status = record.status
  <2>1. slot' = slot /\ context' = context /\ client' = client
    BY <1>9
    DEF Scan, Claim, Inspect, Skip, Republish, RepublishFails, ClaimRaises, RecoverRaises
  <2>2. record'.status = record.status
    BY <1>0, <1>9
    DEF Scan, Claim, Inspect, Skip, Republish, RepublishFails, ClaimRaises,
        RecoverRaises, Unclaimed, Granted, ClearLease, RunRecords
  <2>3. /\ \A t \in Supervisors : t # s => sup'[t] = sup[t]
        /\ sup'[s].pc = "decide" => sup'[s].copy = record
    BY <1>0, <1>9
    DEF Scan, Claim, Inspect, Skip, Republish, RepublishFails, ClaimRaises,
        RecoverRaises, IdleSupervisor, SupervisorStates
  <2>4. record.status \notin Active
    BY DEF Settled, Active
  <2>5. QED
    BY <2>1, <2>2, <2>3, <2>4, OthersStaySettled DEF Settled
<1>10. ASSUME NEW s \in Supervisors,
              RecoverCancelled(s) \/ RecoveryExhausted(s) \/ Recover(s)
       PROVE  FALSE
  BY <1>10 DEF RecoverCancelled, RecoveryExhausted, Recover, Recoverable, Settled
<1>11. ASSUME NEW p \in Processes, Crash(p)
       PROVE  Settled' /\ record'.status = record.status
  <2>1. \A g \in Slots : IF HostOf[g] = p THEN slot'[g].pc = "idle"
                                         ELSE slot'[g] = slot[g]
    BY <1>11 DEF Crash, IdleSlot
  <2>2. \A g \in Slots : HostOf[g] # p => context'[g] = context[g]
    BY <1>0, <1>11 DEF Crash, Forget
  <2>3. \A s \in Supervisors : sup'[s].pc = "decide" => sup'[s] = sup[s]
    BY <1>11 DEF Crash, IdleSupervisor
  <2>4. record' = record /\ client' = client
    BY <1>11 DEF Crash
  <2>5. QED
    BY <1>0, <2>1, <2>2, <2>3, <2>4 DEF Settled
<1>12. ASSUME Tick
       PROVE  Settled' /\ record'.status = record.status
  <2>1. /\ \A g \in Slots : slot'[g].pc = slot[g].pc /\ slot'[g].then = slot[g].then
        /\ record'.status = record.status /\ context' = context
    BY <1>0, <1>12 DEF Tick, Aged, SlotStates, RunRecords
  <2>2. \A r \in RunRecords : AgedCopy(r).status = r.status
    BY DEF AgedCopy, Aged, RunRecords
  <2>3. ASSUME NEW s \in Supervisors, sup'[s].pc = "decide"
        PROVE  sup'[s].copy.status \notin Active
    <3>1. sup'[s] = [sup[s] EXCEPT !.copy = AgedCopy(@)]
      BY <1>12 DEF Tick
    <3>2. sup[s].pc = "decide" /\ sup'[s].copy = AgedCopy(sup[s].copy)
      BY <1>0, <2>3, <3>1 DEF SupervisorStates
    <3>3. sup[s].copy \in RunRecords
      BY <1>0, <3>2 DEF TypeInv, Equipped, SupervisorStates
    <3>4. QED
      BY <2>2, <3>2, <3>3 DEF Settled
  <2>4. QED
    BY <2>1, <2>3, OthersStaySettled
<1>13. ASSUME PublishJob \/ PublishJobFails \/ Finished \/ UNCHANGED vars
       PROVE  Settled' /\ record'.status = record.status
  BY <1>13 DEF PublishJob, PublishJobFails, Finished, vars, Settled, Own
<1>14. ASSUME CancelRead \/ CancelWrite
       PROVE  FALSE
  BY <1>14 DEF CancelRead, CancelWrite, Settled
<1>15. QED
  BY <1>1, <1>2, <1>3, <1>4, <1>5, <1>6, <1>7, <1>8, <1>9, <1>10, <1>11, <1>12, <1>13,
     <1>14
  DEF Next, SlotStep, SlotCallRaises, SupervisorStep

\* SettledIsFinal, where no API process consumes jobs: nothing is asked of the leases,
\* so a run that has settled stays so even among callers that hold none any more.
THEOREM SettledRunStaysSo == ApiSlots = {} => (Spec => SettledIsFinal)
<1>1. ASSUME ApiSlots = {} PROVE Spec => SettledIsFinal
  <2>1. TypeInv /\ [Next]_vars => [SettledStep]_vars
    <3>1. ASSUME TypeInv, NEW h \in Slots, SyncRaises(h)
          PROVE  faults'["call"] # faults["call"]
      BY <3>1, CallType DEF SyncRaises, TypeInv, TypeOK
    <3>2. QED
      BY <1>1, <3>1, NextSettled DEF SettledStep
  <2>2. QED
    BY <2>1, InitTypeInv, NextTypeInv, PTL DEF Spec, SettledIsFinal
<1>2. QED
  BY <1>1

-------------------------------------------------------------------------------
\* Somebody is at work on the run.
Busy == (\E h \in Slots : Working(h)) \/ (\E s \in Supervisors : Recovering(s))

\* Nobody has anything more to write about the run, which was completed.
ClosedOff ==
    /\ Closed
    /\ \A s \in Supervisors : sup[s].pc = "decide" => sup[s].copy.status \notin Active

\* The slot failed to say how the run ended, and is to say so in its except block.
Unfinished(h) == slot[h].pc \in {"read", "write"} /\ slot[h].then = "finally"

CompletedIsClosed ==
    record.status = "COMPLETED" => ClosedOff \/ \E h \in Slots : Unfinished(h)

RunInv == LeaseInv /\ JobsEndRuns /\ CompletedIsClosed

\* A slot that is at work, or a supervisor, is among those of AtWork.
LEMMA BusyHasOwner ==
    /\ Busy <=> AtWork # {}
    /\ AtWork \subseteq Workers
    /\ Busy => Owner \in Workers /\ Owner # NoWorker
    /\ ~Busy => Owner = NoWorker
<1>1. Busy <=> AtWork # {}
  BY DEF Busy, AtWork
<1>2. AtWork \subseteq Workers
  BY CallersAreWorkers DEF AtWork
<1>3. AtWork # {} => Owner \in AtWork
  BY DEF Owner
<1>4. QED
  BY <1>1, <1>2, <1>3, AbsentAssumption DEF Owner

\* Slots and supervisors that go on as they were leave the run's owner as it was.
LEMMA OwnerStays ==
    ASSUME \A h \in Slots : Working(h)' <=> Working(h),
           \A s \in Supervisors : Recovering(s)' <=> Recovering(s)
    PROVE  Owner' = Owner
<1>1. AtWork' = AtWork
  BY DEF AtWork
<1>2. QED
  BY <1>1 DEF Owner

\* A step of one slot that is at work before and after it, or neither, and of no one else.
LEMMA SlotStaysAtWork ==
    ASSUME NEW h \in Slots,
           \A g \in Slots : g # h => slot'[g] = slot[g],
           Working(h)' <=> Working(h),
           UNCHANGED sup
    PROVE  Owner' = Owner
<1>1. \A g \in Slots : Working(g)' <=> Working(g)
  BY DEF Working
<1>2. \A s \in Supervisors : Recovering(s)' <=> Recovering(s)
  BY DEF Recovering
<1>3. QED
  BY <1>1, <1>2, OwnerStays

\* The run passes from one owner to another only through a moment when nobody is at
\* work on it: of two states of a step, either both have the same owner or one has none.
LEMMA OwnerPasses ==
    LeasedDeployment /\ LeaseInv /\ [Next]_vars => Owner' = Owner \/ ~Busy \/ ~Busy'
<1> SUFFICES ASSUME LeasedDeployment, TypeInv, HolderWorks, [Next]_vars
             PROVE  Owner' = Owner \/ ~Busy \/ ~Busy'
  BY DEF LeaseInv
<1>0. /\ slot \in [Slots -> SlotStates] /\ sup \in [Supervisors -> SupervisorStates]
      /\ \A g \in Slots : slot[g] \in SlotStates
      /\ \A t \in Supervisors : sup[t] \in SupervisorStates
      /\ ApiSlots = {} /\ OneAtWork
  BY OneAtWorkFollows DEF TypeInv, TypeOK, LeasedDeployment
<1>1. ASSUME NEW h \in Slots, Receive(h)
      PROVE  Owner' = Owner
  <2>1. PICK l \in {"resolve", "acquire"}, m \in Messages :
           slot' = [slot EXCEPT ![h].pc = l, ![h].msg = m,
                                ![h].delivery = queue[m].deliveries + 1]
    BY <1>1 DEF Receive
  <2>2. l = IF h \in ApiSlots THEN "resolve" ELSE "acquire"
    BY <1>0, <1>1, <2>1 DEF Receive, SlotStates
  <2>3. /\ \A g \in Slots : g # h => slot'[g] = slot[g]
        /\ slot'[h].pc = "acquire"
    BY <1>0, <2>1, <2>2 DEF SlotStates
  <2>4. QED
    BY <1>1, <2>3, SlotStaysAtWork DEF Receive, Working
<1>2. ASSUME NEW h \in Slots, AcquireLease(h)
      PROVE  ~Busy
  BY <1>2, AvailableIsIdle, SlotsAssumption DEF AcquireLease, Working, Busy
<1>3. ASSUME NEW h \in Slots, ReleaseLease(h) \/ ReleaseRaises(h)
      PROVE  ~Busy'
  <2>1. /\ slot'[h].pc = "settle" /\ sup' = sup
        /\ \A g \in Slots : g # h => slot'[g] = slot[g]
    BY <1>0, <1>3 DEF ReleaseLease, ReleaseRaises, SlotStates
  <2>2. /\ \A g \in Slots : g # h => ~Working(g)
        /\ \A s \in Supervisors : ~Recovering(s)
    BY <1>0, <1>3 DEF OneAtWork, ReleaseLease, ReleaseRaises, Working
  <2>3. QED
    BY <2>1, <2>2 DEF Busy, Working, Recovering
<1>4. ASSUME NEW h \in Slots,
             \/ ResolveContext(h) \/ LoadCheckpoint(h) \/ SyncRead(h) \/ SyncWrite(h)
             \/ Plan(h) \/ SaveCheckpoint(h) \/ Execute(h) \/ Refine(h) \/ Report(h)
             \/ ResolveRaises(h) \/ LoadRaises(h) \/ SyncRaises(h)
      PROVE  Owner' = Owner
  <2>1. \A g \in Slots : g # h => slot'[g] = slot[g]
    BY <1>0, <1>4
    DEF ResolveContext, LoadCheckpoint, SyncRead, SyncWrite, Plan, SaveCheckpoint,
        Execute, Refine, Report, ResolveRaises, LoadRaises, SyncRaises, Raise, Enter
  <2>2. Working(h) /\ sup' = sup
    BY <1>4
    DEF ResolveContext, LoadCheckpoint, SyncRead, SyncWrite, Plan, SaveCheckpoint,
        Execute, Refine, Report, ResolveRaises, LoadRaises, SyncRaises, Working
  <2>3. ASSUME NEW st, NEW then, NEW again, Enter(h, st, then, again)
        PROVE  slot'[h].pc = "read"
    BY <1>0, <2>3, EnterStep
  <2>4. slot'[h].pc \in {"load", "read", "write", "plan", "execute", "report", "release"}
    <3>1. CASE ResolveContext(h) \/ SyncRead(h) \/ ResolveRaises(h)
      BY <1>0, <3>1 DEF ResolveContext, SyncRead, ResolveRaises, SlotStates
    <3>2. CASE SyncWrite(h)
      BY <1>0, <3>2 DEF SyncWrite, SlotStates
    <3>3. CASE SaveCheckpoint(h)
      BY <3>3 DEF SaveCheckpoint
    <3>4. CASE LoadCheckpoint(h) \/ LoadRaises(h) \/ Plan(h) \/ Report(h)
      BY <2>3, <3>4 DEF LoadCheckpoint, LoadRaises, Plan, Report, Raise
    <3>5. CASE Execute(h)
      BY <1>0, <2>3, <3>5 DEF Execute, Raise, SlotStates
    <3>6. CASE Refine(h)
      <4>1. CASE Cancelled(h)
        BY <2>3, <3>6, <4>1 DEF Refine
      <4>2. CASE ~Cancelled(h)
        BY <1>0, <3>6, <4>2 DEF Refine, SlotStates
      <4>3. QED
        BY <4>1, <4>2
    <3>7. CASE SyncRaises(h)
      <4>1. CASE slot[h].then = "finally"
        BY <1>0, <3>7, <4>1 DEF SyncRaises, SlotStates
      <4>2. CASE slot[h].then # "finally"
        BY <2>3, <3>7, <4>2 DEF SyncRaises, Raise
      <4>3. QED
        BY <4>1, <4>2
    <3>8. QED
      BY <1>4, <3>1, <3>2, <3>3, <3>4, <3>5, <3>6, <3>7
  <2>5. QED
    BY <2>1, <2>2, <2>4, SlotStaysAtWork DEF Working
<1>5. ASSUME NEW h \in Slots,
             \/ LeaseConflict(h) \/ Settle(h) \/ Acknowledge(h) \/ AcquireRaises(h)
             \/ SettleRaises(h)
      PROVE  Owner' = Owner
  <2>1. /\ slot'[h].pc \in {"idle", "settle", "ack"}
        /\ slot[h].pc \in {"acquire", "settle", "ack"}
        /\ \A g \in Slots : g # h => slot'[g] = slot[g]
        /\ sup' = sup
    BY <1>0, <1>5
    DEF LeaseConflict, Settle, Acknowledge, AcquireRaises, SettleRaises, IdleSlot,
        SlotStates
  <2>2. QED
    BY <2>1, SlotStaysAtWork DEF Working
<1>6. ASSUME NEW h \in Slots, Heartbeat(h) \/ Duplicate(h)
      PROVE  Owner' = Owner
  <2>1. /\ slot'[h].pc = slot[h].pc /\ sup' = sup
        /\ \A g \in Slots : g # h => slot'[g] = slot[g]
    BY <1>0, <1>6 DEF Heartbeat, Duplicate, SlotStates
  <2>2. QED
    BY <2>1, SlotStaysAtWork DEF Working
<1>7. ASSUME NEW s \in Supervisors,
             Scan(s) \/ Inspect(s) \/ Republish(s) \/ RepublishFails(s) \/ ClaimRaises(s)
      PROVE  Owner' = Owner
  <2>1. /\ slot' = slot
        /\ \A t \in Supervisors : t # s => sup'[t] = sup[t]
        /\ Recovering(s)' <=> Recovering(s)
    BY <1>0, <1>7
    DEF Scan, Inspect, Republish, RepublishFails, ClaimRaises, IdleSupervisor,
        Recovering, SupervisorStates
  <2>2. QED
    BY <2>1, OwnerStays DEF Working, Recovering
<1>8. ASSUME NEW s \in Supervisors, Claim(s)
      PROVE  Owner' = Owner \/ ~Busy
  <2>1. CASE LeaseAvailable(record, WorkerOf[s])
    BY <1>8, <2>1, AvailableIsIdle, SlotsAssumption DEF Claim, Recovering, Busy
  <2>2. CASE ~LeaseAvailable(record, WorkerOf[s])
    <3>1. /\ slot' = slot
          /\ \A t \in Supervisors : t # s => sup'[t] = sup[t]
          /\ sup'[s].pc = "idle" /\ sup[s].pc = "claim"
      BY <1>0, <1>8, <2>2 DEF Claim, IdleSupervisor
    <3>2. QED
      BY <3>1, OwnerStays DEF Working, Recovering
  <2>3. QED
    BY <2>1, <2>2
<1>9. ASSUME NEW s \in Supervisors,
             \/ Skip(s) \/ RecoverCancelled(s) \/ RecoveryExhausted(s) \/ Recover(s)
             \/ RecoverRaises(s)
      PROVE  ~Busy'
  <2>1. /\ slot' = slot
        /\ \A t \in Supervisors : t # s => sup'[t] = sup[t]
        /\ sup'[s].pc \in {"idle", "publish"} /\ sup[s].pc \in {"inspect", "decide"}
    <3>1. CASE Skip(s) \/ RecoverCancelled(s) \/ RecoveryExhausted(s)
      BY <1>0, <3>1 DEF Skip, RecoverCancelled, RecoveryExhausted, IdleSupervisor
    <3>2. CASE Recover(s)
      BY <1>0, <3>2 DEF Recover, SupervisorStates
    <3>3. CASE RecoverRaises(s)
      BY <1>0, <3>3 DEF RecoverRaises, IdleSupervisor
    <3>4. QED
      BY <1>9, <3>1, <3>2, <3>3
  <2>2. /\ \A h \in Slots : ~Working(h)
        /\ \A t \in Supervisors : t # s => ~Recovering(t)
    BY <1>0, <2>1 DEF OneAtWork, Recovering
  <2>3. QED
    BY <2>1, <2>2 DEF Busy, Working, Recovering
<1>10. ASSUME NEW p \in Processes, Crash(p)
       PROVE  Owner' = Owner \/ ~Busy'
  <2>1. /\ \A g \in Slots : IF HostOf[g] = p THEN ~Working(g)' ELSE slot'[g] = slot[g]
        /\ \A s \in Supervisors : IF HostOf[s] = p THEN ~Recovering(s)' ELSE sup'[s] = sup[s]
    BY <1>10 DEF Crash, IdleSlot, IdleSupervisor, Working, Recovering
  <2>2. CASE /\ \A g \in Slots : HostOf[g] = p => ~Working(g)
             /\ \A s \in Supervisors : HostOf[s] = p => ~Recovering(s)
    BY <2>1, <2>2, OwnerStays DEF Working, Recovering
  <2>3. CASE \/ \E g \in Slots : HostOf[g] = p /\ Working(g)
             \/ \E s \in Supervisors : HostOf[s] = p /\ Recovering(s)
    <3>1. /\ \A g \in Slots : Working(g) => HostOf[g] = p
          /\ \A s \in Supervisors : Recovering(s) => HostOf[s] = p
      BY <1>0, <2>3 DEF OneAtWork
    <3>2. QED
      BY <2>1, <3>1 DEF Busy, Working, Recovering
  <2>4. QED
    BY <2>2, <2>3
<1>11. ASSUME Tick
       PROVE  Owner' = Owner
  <2>1. /\ \A g \in Slots : slot'[g].pc = slot[g].pc
        /\ \A s \in Supervisors : sup'[s].pc = sup[s].pc
    BY <1>0, <1>11 DEF Tick, SlotStates, SupervisorStates
  <2>2. QED
    BY <2>1, OwnerStays DEF Working, Recovering
<1>12. ASSUME \/ PublishJob \/ PublishJobFails \/ CancelRead \/ CancelWrite \/ Finished
              \/ UNCHANGED vars
       PROVE  Owner' = Owner
  <2>1. slot' = slot /\ sup' = sup
    BY <1>12 DEF PublishJob, PublishJobFails, CancelRead, CancelWrite, Finished, vars
  <2>2. QED
    BY <2>1, OwnerStays DEF Working, Recovering
<1>13. QED
  BY <1>1, <1>2, <1>3, <1>4, <1>5, <1>6, <1>7, <1>8, <1>9, <1>10, <1>11, <1>12
  DEF Next, SlotStep, SlotCallRaises, SupervisorStep

\* The steps that change the status of the record: a slot's update, and a supervisor's
\* decision on a run that it found active.
LEMMA StatusChanges ==
    LeaseInv /\ [Next]_vars =>
        \/ record'.status = record.status
        \/ \E h \in Slots : SyncWrite(h) \/ SyncRaises(h)
        \/ \E s \in Supervisors : /\ sup[s].pc = "decide" /\ sup[s].copy.status \in Active
                                  /\ record'.status \in Statuses \ {"COMPLETED"}
<1> SUFFICES ASSUME LeaseInv, [Next]_vars,
                    \A h \in Slots : ~SyncWrite(h) /\ ~SyncRaises(h)
             PROVE  \/ record'.status = record.status
                    \/ \E s \in Supervisors :
                          /\ sup[s].pc = "decide" /\ sup[s].copy.status \in Active
                          /\ record'.status \in Statuses \ {"COMPLETED"}
  OBVIOUS
<1>0. /\ record \in RunRecords
      /\ \A s \in Supervisors : sup[s].pc = "decide" => sup[s].copy \in RunRecords
  BY DEF LeaseInv, TypeInv, TypeOK, Equipped, SupervisorStates
<1>1. ASSUME NEW h \in Slots,
             AcquireLease(h) \/ AcquireRaises(h) \/ ReleaseLease(h) \/ Heartbeat(h)
      PROVE  record'.status = record.status
  BY <1>0, <1>1
  DEF AcquireLease, AcquireRaises, ReleaseLease, Heartbeat, Granted, ClearLease, Renewed,
      RunRecords
<1>2. ASSUME NEW h \in Slots,
             SlotStep(h) \/ SlotCallRaises(h) \/ Heartbeat(h) \/ Duplicate(h)
      PROVE  record'.status = record.status
  BY <1>1, <1>2
  DEF SlotStep, SlotCallRaises, Receive, LeaseConflict, ResolveContext, LoadCheckpoint,
      SyncRead, Plan, SaveCheckpoint, Execute, Refine, Report, Settle, Acknowledge,
      Duplicate, ResolveRaises, LoadRaises, ReleaseRaises, SettleRaises
<1>3. ASSUME NEW s \in Supervisors,
             \/ Claim(s) \/ Skip(s) \/ RepublishFails(s) \/ ClaimRaises(s)
             \/ RecoverRaises(s)
      PROVE  record'.status = record.status
  BY <1>0, <1>3
  DEF Claim, Skip, RepublishFails, ClaimRaises, RecoverRaises, Unclaimed, Granted,
      ClearLease, RunRecords
<1>4. ASSUME NEW s \in Supervisors,
             RecoverCancelled(s) \/ RecoveryExhausted(s) \/ Recover(s)
      PROVE  /\ sup[s].pc = "decide" /\ sup[s].copy.status \in Active
             /\ record'.status \in Statuses \ {"COMPLETED"}
  <2>1. sup[s].pc = "decide" /\ sup[s].copy.status \in Active
    BY <1>4 DEF RecoverCancelled, RecoveryExhausted, Recover, Recoverable
  <2>2. record'.status \in {"CANCELLED", "FAILED", "RESEARCHING", "QUEUED"}
    BY <1>0, <1>4, <2>1
    DEF RecoverCancelled, RecoveryExhausted, Recover, ClearLease, RunRecords
  <2>3. QED
    BY <2>1, <2>2 DEF Statuses, Active, Terminal
<1>5. ASSUME NEW s \in Supervisors,
             SupervisorStep(s) \/ RepublishFails(s) \/ ClaimRaises(s) \/ RecoverRaises(s)
      PROVE  \/ record'.status = record.status
             \/ /\ sup[s].pc = "decide" /\ sup[s].copy.status \in Active
                /\ record'.status \in Statuses \ {"COMPLETED"}
  BY <1>3, <1>4, <1>5 DEF SupervisorStep, Scan, Inspect, Republish
<1>6. ASSUME Tick
      PROVE  record'.status = record.status
  BY <1>0, <1>6 DEF Tick, Aged, RunRecords
<1>7. ASSUME CancelWrite
      PROVE  FALSE
  BY <1>7 DEF CancelWrite, LeaseInv, ReadsAreFresh
<1>8. ASSUME \/ PublishJob \/ PublishJobFails \/ CancelRead \/ Finished
             \/ \E p \in Processes : Crash(p)
             \/ UNCHANGED vars
      PROVE  record' = record
  BY <1>8 DEF PublishJob, PublishJobFails, CancelRead, Finished, Crash, vars
<1>9. QED
  BY <1>2, <1>5, <1>6, <1>7, <1>8 DEF Next

\* A slot comes to an update of the record from the stages of its job, or because the
\* record did not say that the run was completed.
LEMMA ReachesUpdate ==
    ASSUME ApiSlots = {}, TypeInv, [Next]_vars, NEW h \in Slots,
           slot'[h].pc \in {"read", "write"}
    PROVE  \/ slot[h].pc \in {"load", "read", "write", "plan", "execute", "report"}
           \/ record.status # "COMPLETED"
<1>0. /\ slot \in [Slots -> SlotStates] /\ \A g \in Slots : slot[g] \in SlotStates
      /\ record \in RunRecords
  BY DEF TypeInv, TypeOK
<1>1. ASSUME NEW g \in Slots, Receive(g)
      PROVE  slot[h].pc \in {"read", "write"}
  <2>1. /\ slot'[g].pc \in {"resolve", "acquire"}
        /\ \A f \in Slots : f # g => slot'[f] = slot[f]
    BY <1>0, <1>1 DEF Receive, SlotStates
  <2>2. QED
    BY <2>1
<1>2. ASSUME NEW g \in Slots,
             \/ AcquireLease(g) \/ LeaseConflict(g) \/ ReleaseLease(g) \/ Settle(g)
             \/ Acknowledge(g) \/ AcquireRaises(g) \/ ResolveRaises(g) \/ ReleaseRaises(g)
             \/ SettleRaises(g) \/ SyncWrite(g)
      PROVE  slot[h].pc \in {"read", "write"}
  <2>1. /\ slot'[g].pc \notin {"read", "write"}
        /\ \A f \in Slots : f # g => slot'[f] = slot[f]
    <3>1. CASE AcquireLease(g) \/ LeaseConflict(g) \/ ReleaseLease(g) \/ Settle(g)
      BY <1>0, <3>1
      DEF AcquireLease, LeaseConflict, ReleaseLease, Settle, IdleSlot, SlotStates
    <3>2. CASE AcquireRaises(g) \/ ResolveRaises(g) \/ ReleaseRaises(g)
      BY <1>0, <3>2 DEF AcquireRaises, ResolveRaises, ReleaseRaises, SlotStates
    <3>3. CASE Acknowledge(g) \/ SettleRaises(g)
      BY <1>0, <3>3 DEF Acknowledge, SettleRaises, IdleSlot
    <3>4. CASE SyncWrite(g)
      BY <1>0, <3>4 DEF SyncWrite, SlotStates
    <3>5. QED
      BY <1>2, <3>1, <3>2, <3>3, <3>4
  <2>2. QED
    BY <2>1
<1>3. ASSUME NEW g \in Slots, ResolveContext(g), h = g
      PROVE  record.status # "COMPLETED"
  <2>1. SUFFICES ASSUME record.status = "COMPLETED" PROVE FALSE
    OBVIOUS
  <2>2. Resolved(g).status = "COMPLETED"
    BY <2>1 DEF Resolved
  <2>3. slot' = [slot EXCEPT ![g].pc = "release"]
    BY <1>3, <2>2 DEF ResolveContext
  <2>4. QED
    BY <1>0, <1>3, <2>3 DEF SlotStates
<1>4. ASSUME NEW g \in Slots,
             \/ LoadCheckpoint(g) \/ LoadRaises(g) \/ SyncRead(g) \/ SyncRaises(g) \/ Plan(g)
             \/ SaveCheckpoint(g) \/ Execute(g) \/ Refine(g) \/ Report(g)
      PROVE  slot[g].pc \in {"load", "read", "write", "plan", "execute", "report"}
  BY <1>4
  DEF LoadCheckpoint, LoadRaises, SyncRead, SyncRaises, Plan, SaveCheckpoint, Execute,
      Refine, Report
<1>5. ASSUME NEW g \in Slots, h # g,
             \/ ResolveContext(g) \/ LoadCheckpoint(g) \/ LoadRaises(g) \/ SyncRead(g)
             \/ SyncRaises(g) \/ Plan(g) \/ SaveCheckpoint(g) \/ Execute(g) \/ Refine(g)
             \/ Report(g)
      PROVE  slot'[h] = slot[h]
  BY <1>0, <1>5
  DEF ResolveContext, LoadCheckpoint, LoadRaises, SyncRead, SyncRaises, Plan,
      SaveCheckpoint, Execute, Refine, Report, Raise, Enter
<1>6. ASSUME NEW g \in Slots, Heartbeat(g) \/ Duplicate(g)
      PROVE  slot'[h].pc = slot[h].pc
  <2>1. slot' = slot \/ slot' = [slot EXCEPT ![g].beating = FALSE]
    BY <1>6 DEF Heartbeat, Duplicate
  <2>2. QED
    BY <1>0, <2>1 DEF SlotStates
<1>7. ASSUME NEW s \in Supervisors,
             SupervisorStep(s) \/ RepublishFails(s) \/ ClaimRaises(s) \/ RecoverRaises(s)
      PROVE  slot' = slot
  BY <1>7
  DEF SupervisorStep, Scan, Claim, Inspect, Skip, RecoverCancelled, RecoveryExhausted,
      Recover, Republish, RepublishFails, ClaimRaises, RecoverRaises
<1>8. ASSUME NEW p \in Processes, Crash(p)
      PROVE  slot[h].pc \in {"read", "write"}
  BY <1>8 DEF Crash, IdleSlot
<1>9. CASE Tick
  BY <1>0, <1>9 DEF Tick, SlotStates
<1>10. CASE PublishJob \/ PublishJobFails \/ CancelRead \/ CancelWrite \/ Finished
                \/ UNCHANGED vars
  BY <1>10 DEF PublishJob, PublishJobFails, CancelRead, CancelWrite, Finished, vars
<1>11. QED
  BY <1>1, <1>2, <1>3, <1>4, <1>5, <1>6, <1>7, <1>8, <1>9, <1>10
  DEF Next, SlotStep, SlotCallRaises

\* Once nobody has anything more to write about a completed run, nobody will have.
LEMMA NextClosed ==
    ASSUME LeasedDeployment, LeaseInv, ClosedOff, [Next]_vars
    PROVE  ClosedOff'
<1>1. /\ ApiSlots = {} /\ TypeInv /\ LeaseInv'
      /\ client.pc = "none" /\ client'.pc = "none"
  BY NextLeaseInv DEF LeasedDeployment, LeaseInv, ReadsAreFresh
<1>2. Settled
  BY <1>1 DEF ClosedOff, Closed, Settled
<1>3. \A h \in Slots : ~SyncRaises(h)
  BY DEF ClosedOff, Closed, SyncRaises
<1>4. Settled' /\ record'.status = "COMPLETED"
  BY <1>1, <1>2, <1>3, NextSettled DEF ClosedOff, Closed
<1>5. \A h \in Slots : slot'[h].pc \notin {"read", "write"}
  BY <1>1, ReachesUpdate DEF ClosedOff, Closed
<1>6. QED
  BY <1>4, <1>5 DEF ClosedOff, Closed, Settled

\* Whoever changes the status is at work on the run, which is not closed.
LEMMA StatusIsOwners ==
    LeasedDeployment /\ RunInv /\ [Next]_vars =>
        \/ record'.status = record.status
        \/ ~Closed /\ Busy
<1> SUFFICES ASSUME LeasedDeployment, RunInv, [Next]_vars,
                    record'.status # record.status
             PROVE  ~Closed /\ Busy
  OBVIOUS
<1>1. ASSUME Closed PROVE FALSE
  <2>1. ClosedOff
    BY <1>1 DEF RunInv, CompletedIsClosed, Unfinished, Closed
  <2>2. ClosedOff'
    BY <2>1, NextClosed DEF RunInv
  <2>3. QED
    BY <2>1, <2>2 DEF ClosedOff, Closed
<1>2. Busy
  <2>1. \/ \E h \in Slots : SyncWrite(h) \/ SyncRaises(h)
        \/ \E s \in Supervisors : sup[s].pc = "decide"
    BY StatusChanges DEF RunInv
  <2>2. ASSUME NEW h \in Slots, SyncWrite(h) \/ SyncRaises(h)
        PROVE  Working(h)
    BY <2>2 DEF SyncWrite, SyncRaises, Working
  <2>3. QED
    BY <2>1, <2>2 DEF Busy, Recovering
<1>3. QED
  BY <1>1, <1>2

\* The slot that was to say how the run ended goes on to do so, or it has done so, gave
\* it up or died; the others are where they were, or died.
LEMMA UnfinishedEnds ==
    ASSUME TypeInv, [Next]_vars, NEW h \in Slots, Unfinished(h),
           \A g \in Slots : g # h => ~Working(g),
           \A s \in Supervisors : ~Recovering(s),
           LeasedDeployment, HolderWorks
    PROVE  \/ Unfinished(h)'
           \/ /\ slot'[h].pc \in {"release", "idle"}
              /\ \A g \in Slots : g # h => ~Working(g)'
              /\ \A s \in Supervisors : ~Recovering(s)'
<1>0. /\ slot \in [Slots -> SlotStates] /\ \A g \in Slots : slot[g] \in SlotStates
      /\ Working(h) /\ ApiSlots = {}
  BY DEF TypeInv, TypeOK, Unfinished, Working, LeasedDeployment
<1>1. ASSUME NEW g \in Slots, g # h, Receive(g)
      PROVE  Unfinished(h)'
  <2>1. slot'[h] = slot[h]
    BY <1>0, <1>1 DEF Receive
  <2>2. QED
    BY <2>1 DEF Unfinished
<1>2. ASSUME NEW g \in Slots, g # h,
             \/ LeaseConflict(g) \/ Settle(g) \/ Acknowledge(g) \/ AcquireRaises(g)
             \/ SettleRaises(g) \/ AcquireLease(g)
      PROVE  Unfinished(h)'
  <2>1. slot'[h] = slot[h]
    BY <1>0, <1>2
    DEF LeaseConflict, Settle, Acknowledge, AcquireRaises, SettleRaises, AcquireLease
  <2>2. QED
    BY <2>1 DEF Unfinished
<1>3. ASSUME NEW g \in Slots,
             \/ ResolveContext(g) \/ LoadCheckpoint(g) \/ LoadRaises(g) \/ Plan(g)
             \/ SaveCheckpoint(g) \/ Execute(g) \/ Refine(g) \/ Report(g)
             \/ ResolveRaises(g) \/ ReleaseLease(g) \/ ReleaseRaises(g)
      PROVE  FALSE
  <2>1. Working(g) /\ slot[g].pc \notin {"read", "write"}
    BY <1>3
    DEF ResolveContext, LoadCheckpoint, LoadRaises, Plan, SaveCheckpoint, Execute,
        Refine, Report, ResolveRaises, ReleaseLease, ReleaseRaises, Working
  <2>2. QED
    BY <2>1 DEF Unfinished
<1>4. ASSUME NEW g \in Slots, SyncRead(g) \/ SyncWrite(g) \/ SyncRaises(g)
      PROVE  \/ Unfinished(h)'
             \/ /\ slot'[h].pc = "release" /\ sup' = sup
                /\ \A f \in Slots : f # h => slot'[f] = slot[f]
  <2>1. g = h
    BY <1>4 DEF SyncRead, SyncWrite, SyncRaises, Working
  <2>2. CASE SyncRead(h)
    BY <1>0, <2>2 DEF SyncRead, Unfinished, SlotStates
  <2>3. CASE SyncWrite(h)
    BY <1>0, <2>3 DEF SyncWrite, Unfinished, SlotStates
  <2>4. CASE SyncRaises(h)
    BY <1>0, <2>4 DEF SyncRaises, Unfinished, SlotStates
  <2>5. QED
    BY <1>4, <2>1, <2>2, <2>3, <2>4
<1>5. ASSUME NEW g \in Slots, Heartbeat(g) \/ Duplicate(g)
      PROVE  Unfinished(h)'
  <2>1. slot' = slot \/ slot' = [slot EXCEPT ![g].beating = FALSE]
    BY <1>5 DEF Heartbeat, Duplicate
  <2>2. slot'[h].pc = slot[h].pc /\ slot'[h].then = slot[h].then
    BY <1>0, <2>1 DEF SlotStates
  <2>3. QED
    BY <2>2 DEF Unfinished
<1>6. ASSUME NEW s \in Supervisors,
             SupervisorStep(s) \/ RepublishFails(s) \/ ClaimRaises(s) \/ RecoverRaises(s)
      PROVE  Unfinished(h)'
  BY <1>6
  DEF SupervisorStep, Scan, Claim, Inspect, Skip, RecoverCancelled, RecoveryExhausted,
      Recover, Republish, RepublishFails, ClaimRaises, RecoverRaises, Unfinished
<1>7. ASSUME NEW p \in Processes, Crash(p)
      PROVE  \/ Unfinished(h)'
             \/ /\ slot'[h].pc = "idle"
                /\ \A f \in Slots : f # h => ~Working(f)'
                /\ \A s \in Supervisors : ~Recovering(s)'
  BY <1>7
  DEF Crash, IdleSlot, IdleSupervisor, Unfinished, Working, Recovering
<1>8. CASE Tick
  BY <1>0, <1>8 DEF Tick, SlotStates, Unfinished
<1>9. CASE PublishJob \/ PublishJobFails \/ CancelRead \/ CancelWrite \/ Finished
               \/ UNCHANGED vars
  BY <1>9
  DEF PublishJob, PublishJobFails, CancelRead, CancelWrite, Finished, vars, Unfinished
<1>10. ASSUME NEW g \in Slots, g = h,
              \/ Receive(g) \/ AcquireLease(g) \/ LeaseConflict(g) \/ Settle(g)
              \/ Acknowledge(g) \/ AcquireRaises(g) \/ SettleRaises(g)
       PROVE  FALSE
  BY <1>10
  DEF Receive, AcquireLease, LeaseConflict, Settle, Acknowledge, AcquireRaises,
      SettleRaises, Unfinished
<1>11. QED
  BY <1>1, <1>2, <1>3, <1>4, <1>5, <1>6, <1>7, <1>8, <1>9, <1>10
  DEF Next, SlotStep, SlotCallRaises, Working, Recovering

\* The slot that writes that the run was completed leaves nobody behind who has anything
\* to write about it, but for itself when it was not told that it had written.
LEMMA NextCompletedIsClosed ==
    LeasedDeployment /\ RunInv /\ [Next]_vars => CompletedIsClosed'
<1> SUFFICES ASSUME LeasedDeployment, RunInv, [Next]_vars, record'.status = "COMPLETED"
             PROVE  ClosedOff' \/ \E h \in Slots : Unfinished(h)'
  BY DEF CompletedIsClosed
<1>0. /\ ApiSlots = {} /\ TypeInv /\ LeaseInv /\ HolderWorks /\ OneAtWork
      /\ \A g \in Slots : slot[g] \in SlotStates /\ Own(g) = g
      /\ slot \in [Slots -> SlotStates]
  BY OneAtWorkFollows
  DEF LeasedDeployment, RunInv, LeaseInv, TypeInv, TypeOK, Own
<1>1. ASSUME NEW h \in Slots, slot'[h].pc \in {"release", "idle"},
             \A g \in Slots : g # h => ~Working(g)',
             \A s \in Supervisors : ~Recovering(s)'
      PROVE  ClosedOff'
  BY <1>1 DEF ClosedOff, Closed, Working, Recovering
<1>2. CASE record.status = "COMPLETED" /\ ClosedOff
  BY <1>0, <1>2, NextClosed
<1>3. CASE record.status = "COMPLETED" /\ ~ClosedOff
  <2>1. PICK h \in Slots : Unfinished(h)
    BY <1>3 DEF RunInv, CompletedIsClosed
  <2>2. /\ \A g \in Slots : g # h => ~Working(g)
        /\ \A s \in Supervisors : ~Recovering(s)
    BY <1>0, <2>1 DEF OneAtWork, Unfinished, Working
  <2>3. QED
    BY <1>0, <1>1, <2>1, <2>2, UnfinishedEnds
<1>4. CASE record.status # "COMPLETED"
  <2>1. PICK h \in Slots : SyncWrite(h) \/ SyncRaises(h)
    BY <1>4, StatusChanges DEF RunInv
  <2>2. /\ \A g \in Slots : g # h => ~Working(g)
        /\ \A s \in Supervisors : ~Recovering(s)
    BY <1>0, <2>1 DEF OneAtWork, SyncWrite, SyncRaises, Working
  <2>3. slot[h].pc = "write" /\ record' = Synchronised(h)
    BY <1>4, <2>1 DEF SyncWrite, SyncRaises
  <2>4. context[h].status = "COMPLETED"
    <3>1. slot[h].copy \in RunRecords
      BY <1>0, <2>3 DEF TypeInv, Equipped, SlotStates
    <3>2. QED
      BY <1>0, <2>3, <3>1 DEF Synchronised, RunRecords
  <2>5. slot[h].then \in {"release", "finally"}
    BY <1>0, <2>3, <2>4 DEF RunInv, JobsEndRuns, Terminal
  <2>6. /\ sup' = sup
        /\ \A g \in Slots : g # h => slot'[g] = slot[g]
    BY <1>0, <2>1 DEF SyncWrite, SyncRaises, Raise, Enter
  <2>7. slot'[h].pc = "release" \/ Unfinished(h)'
    <3>1. CASE SyncWrite(h)
      BY <1>0, <2>5, <3>1 DEF SyncWrite, SlotStates
    <3>2. CASE SyncRaises(h) /\ slot[h].then = "finally"
      BY <1>0, <3>2 DEF SyncRaises, SlotStates
    <3>3. CASE SyncRaises(h) /\ slot[h].then # "finally"
      BY <1>0, <3>3, EnterStep DEF SyncRaises, Raise, Unfinished
    <3>4. QED
      BY <2>1, <3>1, <3>2, <3>3
  <2>8. QED
    BY <1>1, <2>2, <2>6, <2>7 DEF Working, Recovering
<1>5. QED
  BY <1>2, <1>3, <1>4

\* The deployment starts with a run that nobody is at work on.
LEMMA InitRunInv == LeasedDeployment /\ Init => RunInv /\ ~Busy /\ ~Closed
<1> SUFFICES ASSUME LeasedDeployment, Init PROVE RunInv /\ ~Busy /\ ~Closed
  OBVIOUS
<1>1. LeaseInv
  BY InitLeaseInv
<1>2. JobsEndRuns /\ CompletedIsClosed /\ ~Busy /\ ~Closed
  BY DEF Init, JobsEndRuns, CompletedIsClosed, Closed, Busy, Working, Recovering, IdleSlot,
         IdleSupervisor
<1>3. QED
  BY <1>1, <1>2 DEF RunInv

\* Every step is one of the exclusive run, or leaves its owner, its status and whether
\* it is closed.
LEMMA RunStep ==
    ASSUME LeasedDeployment, RunInv, RunInv', [Next]_vars
    PROVE  Exclusive!Next \/ UNCHANGED <<Owner, record.status, Closed>>
<1>1. Owner' = Owner \/ ~Busy \/ ~Busy'
  BY OwnerPasses DEF RunInv
<1>2. record'.status = record.status \/ (~Closed /\ Busy)
  BY StatusIsOwners
<1>3. /\ Busy => Owner # NoWorker
      /\ ~Busy => Owner = NoWorker
  BY BusyHasOwner
<1>4. /\ Busy' => Owner' \in Workers /\ Owner' # NoWorker
      /\ ~Busy' => Owner' = NoWorker
  <2>1. AtWork' \subseteq Workers
    BY CallersAreWorkers DEF AtWork
  <2>2. Busy' <=> AtWork' # {}
    BY DEF Busy, AtWork
  <2>3. AtWork' # {} => Owner' \in AtWork'
    BY DEF Owner
  <2>4. ~Busy' => Owner' = NoWorker
    BY <2>2 DEF Owner
  <2>5. QED
    BY <2>1, <2>2, <2>3, <2>4, AbsentAssumption
<1>5. record'.status \in Statuses
  BY DEF RunInv, LeaseInv, TypeInv, TypeOK, RunRecords
<1>6. Closed => Closed'
  <2>1. Closed => ClosedOff
    BY DEF RunInv, CompletedIsClosed, Unfinished, Closed
  <2>2. QED
    BY <2>1, NextClosed DEF RunInv, ClosedOff
<1>7. /\ ~Busy => Closed = (record.status = "COMPLETED")
      /\ ~Busy' => Closed' = (record'.status = "COMPLETED")
      /\ Closed' => record'.status = "COMPLETED"
      /\ Closed \in BOOLEAN /\ Closed' \in BOOLEAN
  BY DEF Busy, Working, Closed
<1>8. CASE Busy /\ Owner' = Owner
  BY <1>2, <1>3, <1>5, <1>6, <1>7, <1>8 DEF Exclusive!Next, Exclusive!Work, Exclusive!Update
<1>9. CASE ~Busy /\ ~Busy'
  BY <1>2, <1>3, <1>4, <1>7, <1>9
<1>10. CASE ~Busy /\ Busy'
  BY <1>2, <1>3, <1>4, <1>6, <1>7, <1>10 DEF Exclusive!Next, Exclusive!Begin
<1>11. CASE Busy /\ ~Busy'
  BY <1>2, <1>3, <1>4, <1>5, <1>7, <1>11
  DEF Exclusive!Next, Exclusive!Leave, Exclusive!Update
<1>12. QED
  BY <1>1, <1>8, <1>9, <1>10, <1>11

\* ExclusiveRunSpec, in the deployment that the leases are made for: one slot for each
\* worker_id, no job in the API process, no cancellation by a client, no holder at one
\* update for as long as a lease.  There, whatever crashes, whichever calls raise and
\* however often its jobs are delivered, one owner at most is at work on the run, takes
\* it from nobody, and alone writes its status, not once an owner left it completed.
THEOREM ImplementsExclusiveRun == LeasedDeployment => (Spec => ExclusiveRunSpec)
<1>1. ASSUME LeasedDeployment PROVE Spec => ExclusiveRunSpec
  <2>1. Init => RunInv
    BY <1>1, InitRunInv
  <2>2. RunInv /\ [Next]_vars => RunInv'
    BY <1>1, NextLeaseInv, NextJobsEndRuns, NextCompletedIsClosed
    DEF RunInv, LeaseInv, LeasedDeployment
  <2>3. ASSUME Init PROVE Exclusive!Init
    <3>1. record.status \in Statuses /\ record.status # "COMPLETED"
      BY <2>3, StatusesType DEF Init
    <3>2. Owner = NoWorker
      BY <1>1, <2>3, InitRunInv, BusyHasOwner
    <3>3. Closed = (record.status \in {"COMPLETED"})
      <4>1. ~Closed /\ Closed \in BOOLEAN
        BY <3>1 DEF Closed
      <4>2. Closed = FALSE
        BY <4>1
      <4>3. (record.status \in {"COMPLETED"}) = FALSE
        BY <3>1
      <4>4. QED
        BY <4>2, <4>3, Zenon
    <3>4. QED
      BY <3>1, <3>2, <3>3 DEF Exclusive!Init
  <2>4. RunInv /\ RunInv' /\ [Next]_vars
           => [Exclusive!Next]_<<Owner, record.status, Closed>>
    BY <1>1, RunStep
  <2>5. QED
    BY <2>1, <2>2, <2>3, <2>4, PTL DEF Spec, ExclusiveRunSpec, Exclusive!Spec
<1>2. QED
  BY <1>1

-------------------------------------------------------------------------------
\* The deployment in one process: the API process executes its runs itself.
EmbeddedDeployment ==
    /\ ApiSlots = Slots
    /\ \A g, h \in Slots : HostOf[g] = HostOf[h]

\* The run was cancelled in time, or the process that could complete it is gone.
Aborted ==
    /\ record.status # "COMPLETED"
    /\ \/ /\ context[Api].token /\ context[Api].status # "COMPLETED"
          /\ \A h \in Slots : slot[h].pc # "report"
       \/ \A h \in Slots : slot[h].pc = "idle" /\ HostOf[h] \in down

\* A status that is entered, by a slot that goes to synchronise the record.
LEMMA EnterAborted ==
    ASSUME ApiSlots = Slots, TypeInv, Aborted, NEW h \in Slots,
           NEW st \in Statuses, NEW then, NEW again,
           Enter(h, st, then, again), slot[h].pc # "idle", st # "COMPLETED",
           record'.status # "COMPLETED"
    PROVE  Aborted'
<1>1. \A g \in Slots : slot'[g].pc # "report"
  BY DEF Enter, Aborted, TypeInv, TypeOK, SlotStates
<1>2. context'[Api].token /\ context'[Api].status # "COMPLETED"
  BY DEF Enter, Aborted, Own, TypeInv, TypeOK, Contexts
<1>3. QED
  BY <1>1, <1>2 DEF Aborted

\* A step that changes no context, completes nothing and brings no slot to its report.
LEMMA StaysAborted ==
    ASSUME Aborted,
           context'[Api] = context[Api], down' = down,
           record'.status # "COMPLETED",
           \A h \in Slots : /\ slot[h].pc # "report" => slot'[h].pc # "report"
                            /\ slot[h].pc = "idle" /\ HostOf[h] \in down
                                   => slot'[h].pc = "idle"
    PROVE  Aborted'
  BY DEF Aborted

\* Every step keeps an aborted run from completing.
LEMMA NextAborted ==
    EmbeddedDeployment /\ TypeInv /\ Aborted /\ [Next]_vars => Aborted'
<1> SUFFICES ASSUME EmbeddedDeployment, TypeInv, Aborted, [Next]_vars
             PROVE  Aborted'
  OBVIOUS
<1>0. /\ ApiSlots = Slots /\ Api \in Contexts /\ Api \notin Slots
      /\ \A g \in Slots : slot[g] \in SlotStates /\ Own(g) = Api
      /\ slot \in [Slots -> SlotStates]
      /\ record \in RunRecords /\ record.status # "COMPLETED"
      /\ context \in [Contexts -> [status : Statuses, token : BOOLEAN]]
      /\ \A s \in Supervisors : sup[s] \in SupervisorStates
  BY SlotsAssumption
  DEF TypeInv, TypeOK, Own, Contexts, EmbeddedDeployment, Aborted
<1>1. ASSUME NEW h \in Slots, Receive(h)
      PROVE  Aborted'
  <2>1. PICK l \in {"resolve", "acquire"}, m \in Messages :
           slot' = [slot EXCEPT ![h].pc = l, ![h].msg = m,
                                ![h].delivery = queue[m].deliveries + 1]
    BY <1>1 DEF Receive
  <2>2. slot'[h].pc = l /\ \A g \in Slots : g # h => slot'[g] = slot[g]
    BY <1>0, <2>1 DEF SlotStates
  <2>3. HostOf[h] \notin down
    BY <1>1 DEF Receive
  <2>4. QED
    BY <1>0, <1>1, <2>2, <2>3, StaysAborted DEF Receive
<1>2. ASSUME NEW h \in Slots,
             \/ AcquireLease(h) \/ LeaseConflict(h) \/ ReleaseLease(h) \/ Settle(h)
             \/ SyncRead(h) \/ AcquireRaises(h) \/ ResolveRaises(h) \/ ReleaseRaises(h)
      PROVE  Aborted'
  <2>1. /\ slot'[h].pc \in {"resolve", "idle", "release", "settle", "ack", "write"}
        /\ \A g \in Slots : g # h => slot'[g] = slot[g]
        /\ slot[h].pc # "idle"
    <3>1. CASE AcquireLease(h) \/ LeaseConflict(h) \/ ReleaseLease(h) \/ Settle(h)
                   \/ SyncRead(h)
      BY <1>0, <3>1
      DEF AcquireLease, LeaseConflict, ReleaseLease, Settle, SyncRead, IdleSlot,
          SlotStates
    <3>2. CASE AcquireRaises(h) \/ ResolveRaises(h) \/ ReleaseRaises(h)
      BY <1>0, <3>2 DEF AcquireRaises, ResolveRaises, ReleaseRaises, SlotStates
    <3>3. QED
      BY <1>2, <3>1, <3>2
  <2>2. record'.status = record.status
    BY <1>0, <1>2
    DEF AcquireLease, LeaseConflict, ReleaseLease, Settle, SyncRead, AcquireRaises,
        ResolveRaises, ReleaseRaises, Granted, ClearLease, RunRecords
  <2>3. context' = context /\ down' = down
    BY <1>2
    DEF AcquireLease, LeaseConflict, ReleaseLease, Settle, SyncRead, AcquireRaises,
        ResolveRaises, ReleaseRaises
  <2>4. QED
    BY <1>0, <2>1, <2>2, <2>3, StaysAborted
<1>3. ASSUME NEW h \in Slots, ResolveContext(h)
      PROVE  Aborted'
  <2>1. /\ context[Api].token /\ context[Api].status # "COMPLETED"
        /\ \A g \in Slots : slot[g].pc # "report"
    BY <1>3 DEF ResolveContext, Aborted
  <2>2. context' = [context EXCEPT ![Api].status = "CANCELLED"] /\ record' = record
    BY <1>0, <1>3, <2>1 DEF ResolveContext, Resolved
  <2>3. slot' = [slot EXCEPT ![h].pc = "read", ![h].then = "release"]
    BY <1>0, <1>3, <2>1 DEF ResolveContext, Resolved
  <2>4. \A g \in Slots : slot'[g].pc # "report"
    BY <1>0, <2>1, <2>3 DEF SlotStates
  <2>5. context'[Api].token /\ context'[Api].status # "COMPLETED"
    BY <1>0, <2>1, <2>2
  <2>6. QED
    BY <1>0, <2>2, <2>4, <2>5 DEF Aborted
<1>4. ASSUME NEW h \in Slots,
             LoadCheckpoint(h) \/ LoadRaises(h) \/ Plan(h) \/ Execute(h)
      PROVE  Aborted'
  <2>1. context[Api].token /\ slot[h].pc # "idle"
    BY <1>4 DEF LoadCheckpoint, LoadRaises, Plan, Execute, Aborted
  <2>2. \E st \in Statuses, then \in {"plan", "execute", "release", "finally"},
          again \in BOOLEAN :
           Enter(h, st, then, again) /\ st # "COMPLETED"
    BY <1>0, <1>4, <2>1, StatusesType
    DEF LoadCheckpoint, LoadRaises, Plan, Execute, Raise, Cancelled
  <2>3. QED
    BY <1>0, <1>4, <2>1, <2>2, EnterAborted DEF LoadCheckpoint, LoadRaises, Plan, Execute
<1>5. ASSUME NEW h \in Slots, Refine(h) \/ Report(h)
      PROVE  FALSE
  BY <1>5 DEF Refine, Report, Aborted
<1>6. ASSUME NEW h \in Slots, SyncWrite(h)
      PROVE  Aborted'
  <2>1. slot[h].copy \in RunRecords /\ context[Api].status # "COMPLETED"
    BY <1>0, <1>6 DEF SyncWrite, TypeInv, Equipped, SlotStates, Aborted
  <2>2. record'.status # "COMPLETED"
    BY <1>0, <1>6, <2>1 DEF SyncWrite, Synchronised, RunRecords
  <2>3. /\ slot[h].pc # "idle" /\ slot'[h].pc \in {"plan", "execute", "release"}
        /\ \A g \in Slots : g # h => slot'[g] = slot[g]
    BY <1>0, <1>6 DEF SyncWrite, SlotStates
  <2>4. QED
    BY <1>6, <2>2, <2>3, StaysAborted DEF SyncWrite
<1>7. ASSUME NEW h \in Slots, Acknowledge(h) \/ SettleRaises(h)
      PROVE  Aborted'
  <2>1. /\ slot[h].pc # "idle" /\ slot'[h].pc = "idle"
        /\ \A g \in Slots : g # h => slot'[g] = slot[g]
        /\ context'[Api] = context[Api]
    BY <1>0, <1>7 DEF Acknowledge, SettleRaises, Forget, IdleSlot
  <2>2. QED
    BY <1>0, <1>7, <2>1, StaysAborted DEF Acknowledge, SettleRaises
<1>8. ASSUME NEW h \in Slots, Heartbeat(h) \/ Duplicate(h) \/ SaveCheckpoint(h)
      PROVE  Aborted'
  <2>1. \/ slot' = slot
        \/ slot' = [slot EXCEPT ![h].beating = FALSE]
    BY <1>8 DEF Heartbeat, Duplicate, SaveCheckpoint
  <2>2. \A g \in Slots : slot'[g].pc = slot[g].pc
    BY <1>0, <2>1 DEF SlotStates
  <2>3. record'.status = record.status
    BY <1>0, <1>8 DEF Heartbeat, Duplicate, SaveCheckpoint, Renewed, RunRecords
  <2>4. QED
    BY <1>0, <1>8, <2>2, <2>3, StaysAborted DEF Heartbeat, Duplicate, SaveCheckpoint
<1>9. ASSUME NEW s \in Supervisors,
             SupervisorStep(s) \/ RepublishFails(s) \/ ClaimRaises(s) \/ RecoverRaises(s)
      PROVE  Aborted'
  <2>1. slot' = slot /\ context' = context /\ down' = down
    BY <1>9
    DEF SupervisorStep, Scan, Claim, Inspect, Skip, RecoverCancelled, RecoveryExhausted,
        Recover, Republish, RepublishFails, ClaimRaises, RecoverRaises
  <2>2. CASE Scan(s) \/ Inspect(s) \/ Republish(s)
    BY <1>0, <2>1, <2>2, StaysAborted DEF Scan, Inspect, Republish
  <2>3. CASE Claim(s) \/ Skip(s) \/ RepublishFails(s) \/ ClaimRaises(s) \/ RecoverRaises(s)
    <3>1. record'.status = record.status
      BY <1>0, <2>3
      DEF Claim, Skip, RepublishFails, ClaimRaises, RecoverRaises, Unclaimed, Granted,
          ClearLease, RunRecords
    <3>2. QED
      BY <1>0, <2>1, <3>1, StaysAborted
  <2>4. CASE RecoverCancelled(s) \/ RecoveryExhausted(s) \/ Recover(s)
    <3>1. sup[s].copy \in RunRecords
      BY <1>0, <2>4
      DEF RecoverCancelled, RecoveryExhausted, Recover, TypeInv, Equipped,
          SupervisorStates
    <3>2. \A st \in Statuses, n \in Nat :
             /\ ClearLease([sup[s].copy EXCEPT !.status = st]).status = st
             /\ ClearLease([sup[s].copy EXCEPT !.status = st, !.recovery = n]).status = st
      BY <3>1 DEF ClearLease, RunRecords
    <3>3. sup[s].copy.recovery + 1 \in Nat
      BY <3>1, BoundsAssumption DEF RunRecords
    <3>4. record'.status \in {"CANCELLED", "FAILED", "RESEARCHING", "QUEUED"}
      <4>1. CASE RecoverCancelled(s)
        BY <3>2, <4>1, StatusesType DEF RecoverCancelled
      <4>2. CASE RecoveryExhausted(s)
        BY <3>2, <4>2, StatusesType DEF RecoveryExhausted
      <4>3. CASE Recover(s)
        <5>1. PICK st \in {"RESEARCHING", "QUEUED"} :
                 record' = ClearLease([sup[s].copy EXCEPT !.status = st, !.recovery = @ + 1])
          BY <4>3 DEF Recover
        <5>2. record'.status = st
          BY <3>1, <5>1 DEF ClearLease, RunRecords
        <5>3. QED
          BY <5>2
      <4>4. QED
        BY <2>4, <4>1, <4>2, <4>3
    <3>5. QED
      BY <2>1, <3>4, StaysAborted
  <2>5. QED
    BY <1>9, <2>2, <2>3, <2>4 DEF SupervisorStep
<1>10. ASSUME NEW p \in Processes, Crash(p)
       PROVE  Aborted'
  <2>1. CASE \E h \in Slots : HostOf[h] = p
    BY <1>0, <1>10, <2>1 DEF Crash, IdleSlot, Aborted, EmbeddedDeployment
  <2>2. CASE \A h \in Slots : HostOf[h] # p
    <3>1. context'[Api] = context[Api] /\ \A h \in Slots : slot'[h] = slot[h]
      BY <1>0, <1>10, <2>2 DEF Crash, Forget
    <3>2. QED
      BY <1>10, <3>1 DEF Crash, Aborted
  <2>3. QED
    BY <2>1, <2>2
<1>11. ASSUME Tick
       PROVE  Aborted'
  <2>1. /\ \A g \in Slots : slot'[g].pc = slot[g].pc
        /\ record'.status = record.status
    BY <1>0, <1>11 DEF Tick, Aged, SlotStates, RunRecords
  <2>2. QED
    BY <1>0, <1>11, <2>1, StaysAborted DEF Tick
<1>12. ASSUME CancelRead
       PROVE  Aborted'
  BY <1>0, <1>12 DEF CancelRead, Aborted
<1>13. ASSUME CancelWrite
       PROVE  Aborted'
  <2>1. client.copy \in RunRecords
    BY <1>13 DEF CancelWrite, TypeInv, TypeOK, Equipped
  <2>2. QED
    BY <1>13, <2>1, StaysAborted DEF CancelWrite, RunRecords
<1>14. ASSUME PublishJob \/ PublishJobFails \/ Finished \/ UNCHANGED vars
       PROVE  Aborted'
  BY <1>14 DEF PublishJob, PublishJobFails, Finished, vars, Aborted
<1>15. ASSUME NEW h \in Slots, SyncRaises(h)
       PROVE  Aborted'
  <2>1. slot[h].pc # "idle" /\ context[Api].status # "COMPLETED"
    BY <1>15 DEF SyncRaises, Aborted
  <2>2. record'.status # "COMPLETED"
    <3>1. CASE slot[h].pc = "write" /\ record' = Synchronised(h)
      <4>1. slot[h].copy \in RunRecords
        BY <1>0, <3>1 DEF TypeInv, Equipped, SlotStates
      <4>2. QED
        BY <1>0, <2>1, <3>1, <4>1 DEF Synchronised, RunRecords
    <3>2. QED
      BY <1>0, <1>15, <3>1 DEF SyncRaises
  <2>3. CASE slot[h].then = "finally"
    <3>1. /\ slot'[h].pc = "release" /\ context' = context
          /\ \A g \in Slots : g # h => slot'[g] = slot[g]
      BY <1>0, <1>15, <2>3 DEF SyncRaises, SlotStates
    <3>2. QED
      BY <1>15, <2>1, <2>2, <3>1, StaysAborted DEF SyncRaises
  <2>4. CASE slot[h].then # "finally"
    BY <1>0, <1>15, <2>1, <2>2, <2>4, EnterAborted, StatusesType DEF SyncRaises, Raise
  <2>5. QED
    BY <2>3, <2>4
<1>16. QED
  BY <1>1, <1>2, <1>3, <1>4, <1>5, <1>6, <1>7, <1>8, <1>9, <1>10, <1>11, <1>12, <1>13,
     <1>14, <1>15
  DEF Next, SlotStep, SlotCallRaises

\* CancelledInTimeIsAborted, where the API process executes its runs itself: a
\* cancellation that reaches it before the report is begun is never undone, by
\* redeliveries, by its other slots or by supervisors.
THEOREM CancelledInTimeStaysAborted ==
    EmbeddedDeployment => (Spec => CancelledInTimeIsAborted)
<1>1. ASSUME EmbeddedDeployment PROVE Spec => CancelledInTimeIsAborted
  <2>1. InTime => Aborted
    BY <1>1 DEF InTime, Aborted, EmbeddedDeployment
  <2>2. TypeInv /\ Aborted /\ [Next]_vars => Aborted'
    BY <1>1, NextAborted
  <2>3. Aborted => record.status # "COMPLETED"
    BY DEF Aborted
  <2>4. QED
    BY <2>1, <2>2, <2>3, InitTypeInv, NextTypeInv, PTL DEF Spec, CancelledInTimeIsAborted
<1>2. QED
  BY <1>1

===============================================================================

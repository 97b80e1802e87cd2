----------------------------- MODULE RunLifecycle -----------------------------
(***************************************************************************)
(* One research run in the deployment with Pub/Sub and Firestore: the API  *)
(* process that creates and cancels it, the job slots that execute it      *)
(* (jobs/worker.py under jobs/pubsub.py), the supervisors that recover it  *)
(* when its lease has lapsed (jobs/supervisor.py), and the run record they *)
(* share (persistence/firestore.py).                                       *)
(*                                                                         *)
(* Slots belong to worker processes or to the API process, which consumes  *)
(* the same subscription (api/service.py).  A worker's slot takes a lease  *)
(* and builds its RunContext from the record.  The API's worker is given   *)
(* no lease manager, and works on the RunContext that the API process      *)
(* keeps of the run, which cancel_run cancels.                             *)
(*                                                                         *)
(* The lease manager's calls are transactions.  Every other update of the  *)
(* record is a get_run followed by an update_run of the whole document,    *)
(* with no expected_version: two steps, between which the record moves on. *)
(* What a caller read is kept in its "copy" until it writes.               *)
(***************************************************************************)
EXTENDS RunRecord, FiniteSets

CONSTANTS
    Slots,             \* job slots: the worker loops of the consumers
    ApiSlots,          \* those of them that the API process runs
    Api,               \* the RunContext of the API process
    Supervisors,
    WorkerOf,          \* worker_id of each slot's process, id of each supervisor
    HostOf,            \* the process that each slot and each supervisor runs in
    Leases,
    NoRecord,          \* a caller that has read nothing
    NoMessage,         \* a slot that has received nothing
    Duration,          \* of a lease, in ticks
    MaxAttempts,       \* JobEnvelope.max_attempts of the run's first job
    MaxRecovery,       \* max_recovery_attempts
    MaxDeliveries,     \* max_delivery_attempts of the subscription
    MaxRefinements,    \* max_refinement_loops
    ClientCancels,     \* whether a client asks to cancel the run
    HeartbeatsKeepUp,  \* whether leases lapse only when their heartbeat has stopped,
                       \* and no holder is at one update for as long as a lease
    ScanListsRun,      \* whether the run is one of the newest 50, the scan's limit
    FaultBudgets,      \* bound: how many faults of each kind, in the combinations
                       \* that may occur
    MaxMessages        \* bound: messages with one envelope at a time

ASSUME SlotsAssumption ==
    /\ IsFiniteSet(Slots) /\ IsFiniteSet(Supervisors)
    /\ Slots \cap Supervisors = {}
    /\ ApiSlots \subseteq Slots /\ Api \notin Slots
ASSUME BoundsAssumption ==
    /\ Duration \in Nat \ {0}
    /\ {MaxAttempts, MaxRecovery, MaxDeliveries} \subseteq Nat \ {0}
    /\ {MaxRefinements, MaxMessages} \subseteq Nat
    /\ {ClientCancels, HeartbeatsKeepUp, ScanListsRun} \subseteq BOOLEAN

VARIABLES
    record,     \* the run's RunRecord
    checkpoint, \* whether a checkpoint of stage RESEARCHING is stored
    queue,      \* the subscription's messages, and those on its dead-letter topic
    context,    \* the RunContexts: one per worker slot, and the API process's
    slot,       \* the job each slot is handling
    sup,        \* the recovery each supervisor is carrying out
    api,        \* create_and_start_run: "created", "published" or "failed"
    client,     \* cancel_run: "none", "write" or "done", with what it read
    down,       \* processes that have crashed
    faults      \* how many faults of each kind so far

vars == <<record, checkpoint, queue, context, slot, sup, api, client, down, faults>>

\* A process crashes, the ack deadline of a message lapses while its job is processed,
\* a job is never published, another call raises.
FaultKinds == {"crash", "lapse", "publish", "call"}

Terminal == {"COMPLETED", "FAILED", "CANCELLED"}
\* ACTIVE_RUN_STAGES, of which the worker only writes these two.
Active == {"PLANNING", "RESEARCHING"}
Statuses == {"QUEUED"} \cup Active \cup Terminal

Workers == {WorkerOf[c] : c \in Slots \cup Supervisors}
Processes == {HostOf[c] : c \in Slots \cup Supervisors}

Envelope(n, max) == [attempt |-> n, max |-> max]
Envelopes == {Envelope(n, MaxAttempts) : n \in 1..MaxAttempts}
                 \cup {Envelope(n, MaxRecovery) : n \in 1..MaxRecovery}

\* A message awaits delivery, is out at the slot of its last delivery, has become a dead
\* letter, or was acknowledged or never published ("none").
Messages == [job : Envelopes, copy : 1..MaxMessages]
MessageStates == [state : {"none", "waiting", "out", "dead"},
                  deliveries : 0..MaxDeliveries]
NotThere == [state |-> "none", deliveries |-> 0]
Live(m) == queue[m].state \in {"waiting", "out"}

\* The RunContext that a slot works on.
Own(h) == IF h \in ApiSlots THEN Api ELSE h
Contexts == (Slots \ ApiSlots) \cup {Api}
NewContext == [status |-> "QUEUED", token |-> FALSE]

\* msg and delivery are the message and its count of deliveries when it was pulled;
\* then is where the job goes on after the record is synchronised ("finally" is the
\* synchronisation of the except block), again whether it failed in a way that may be
\* retried.
IdleSlot == [pc |-> "idle", msg |-> NoMessage, delivery |-> 0, then |-> "release",
             again |-> FALSE, lease |-> NoLease, beating |-> FALSE, copy |-> NoRecord,
             refined |-> 0]
IdleSupervisor == [pc |-> "idle", lease |-> NoLease, copy |-> NoRecord]

\* A fresh lease id, referred to by nobody.
Referred == {record.lease} \cup {slot[h].lease : h \in Slots}
                \cup {sup[s].lease : s \in Supervisors}
                \cup {r.lease : r \in ({slot[h].copy : h \in Slots}
                                  \cup {sup[s].copy : s \in Supervisors}
                                  \cup {client.copy}) \ {NoRecord}}
NewLease == CHOOSE l \in Leases : l \notin Referred

\* There is always one: uuid4 does not run out.
ASSUME LeasesAssumption ==
    /\ NoLease \notin Leases
    /\ IsFiniteSet(Leases)
    /\ Cardinality(Leases) > 2 * (Cardinality(Slots) + Cardinality(Supervisors)) + 2

Init ==
    /\ record = [status |-> "QUEUED", cancelled |-> FALSE, recovery |-> 0,
                 worker |-> NoWorker, lease |-> NoLease, ttl |-> 0]
    /\ checkpoint = FALSE
    /\ queue = [m \in Messages |-> NotThere]
    /\ context = [x \in Contexts |-> NewContext]
    /\ slot = [h \in Slots |-> IdleSlot]
    /\ sup = [s \in Supervisors |-> IdleSupervisor]
    /\ api = "created"
    /\ client = [pc |-> "none", copy |-> NoRecord]
    /\ down = {}
    /\ faults = [k \in FaultKinds |-> 0]

\* Another fault of a kind, if a budget allows it.
Fault(kind) ==
    /\ faults' = [faults EXCEPT ![kind] = @ + 1]
    /\ \E b \in FaultBudgets : \A k \in FaultKinds : faults'[k] =< b[k]
CallRaises == Fault("call")

-------------------------------------------------------------------------------
(* Pub/Sub: publications, deliveries that are not acknowledged, dead letters.   *)

\* Messages that can be published with an envelope: no slot still holds an old one.
Unused(e) == {m \in Messages : /\ m.job = e
                               /\ queue[m].state = "none"
                               /\ \A h \in Slots : slot[h].msg # m}
NewMessage(e) == CHOOSE m \in Unused(e) : TRUE

Publish(e) ==
    /\ Unused(e) # {}
    /\ queue' = [queue EXCEPT ![NewMessage(e)] = [state |-> "waiting", deliveries |-> 0]]

\* The slot has the last delivery of its message, which was not acknowledged.
Outstanding(h) ==
    /\ slot[h].msg # NoMessage
    /\ queue[slot[h].msg] = [state |-> "out", deliveries |-> slot[h].delivery]

\* Mutant: the messages are acknowledged.
AcknowledgedAll(hs) ==
    queue' = [m \in Messages |->
                IF m \in {slot[h].msg : h \in hs} THEN NotThere ELSE queue[m]]

\* The deliveries that these slots have are never acknowledged: after the ack deadline
\* the messages are delivered again, or, delivered as often as the subscription
\* allows, go to the dead-letter topic.
Returned(hs) ==
    queue' = [m \in Messages |->
        IF m \notin {slot[h].msg : h \in {g \in hs : Outstanding(g)}} THEN queue[m]
        ELSE [queue[m] EXCEPT
                 !.state = IF queue[m].deliveries < MaxDeliveries THEN "waiting" ELSE "dead"]]

-------------------------------------------------------------------------------
(* The API process.                                                            *)

\* The last step of create_and_start_run; Init is what the steps before it left.
PublishJob ==
    /\ api = "created"
    /\ api' = "published"
    /\ Publish(Envelope(1, MaxAttempts))
    /\ UNCHANGED <<record, checkpoint, context, slot, sup, client, down, faults>>

\* The process dies, or publish raises, before the job is published.
PublishJobFails ==
    /\ api = "created"
    /\ Fault("publish")
    /\ api' = "failed"
    /\ UNCHANGED <<record, checkpoint, queue, context, slot, sup, client, down>>

\* cancel_run reads the record and cancels the context of its own process.
CancelRead ==
    /\ ClientCancels
    /\ client.pc = "none"
    /\ client' = [pc |-> "write", copy |-> record]
    /\ context' = [context EXCEPT ![Api] = [status |-> "CANCELLED", token |-> TRUE]]
    /\ UNCHANGED <<record, checkpoint, queue, slot, sup, api, down, faults>>

\* cancel_run writes what it read, cancelled, and answers that it succeeded.
CancelWrite ==
    /\ client.pc = "write"
    /\ record' = [client.copy EXCEPT !.status = "CANCELLED", !.cancelled = TRUE]
    /\ client' = [pc |-> "done", copy |-> NoRecord]
    /\ UNCHANGED <<checkpoint, queue, context, slot, sup, api, down, faults>>

-------------------------------------------------------------------------------
(* A job slot: handle_job between the consumer's pull and its ack.             *)

\* The consumer pulls a message.  Without a lease manager no lease is asked for.
Receive(h) ==
    /\ slot[h].pc = "idle" /\ HostOf[h] \notin down
    /\ \E m \in Messages :
          /\ queue[m].state = "waiting"
          /\ queue' = [queue EXCEPT ![m].state = "out", ![m].deliveries = @ + 1]
          /\ slot' = [slot EXCEPT
                ![h].pc = IF h \in ApiSlots THEN "resolve" ELSE "acquire",
                ![h].msg = m, ![h].delivery = queue[m].deliveries + 1]
    /\ UNCHANGED <<record, checkpoint, context, sup, api, client, down, faults>>

\* acquire_lease succeeds and the heartbeat starts.
AcquireLease(h) ==
    /\ slot[h].pc = "acquire"
    /\ LeaseAvailable(record, WorkerOf[h])
    /\ record' = Granted(record, WorkerOf[h], NewLease, Duration)
    /\ slot' = [slot EXCEPT ![h].pc = "resolve", ![h].lease = NewLease,
                            ![h].beating = TRUE]
    /\ UNCHANGED <<checkpoint, queue, context, sup, api, client, down, faults>>

\* acquire_lease returns None: the envelope comes back QUEUED, which the consumer
\* neither acks nor nacks.
LeaseConflict(h) ==
    /\ slot[h].pc = "acquire"
    /\ ~LeaseAvailable(record, WorkerOf[h])
    /\ Returned({h})
    /\ slot' = [slot EXCEPT ![h] = IdleSlot]
    /\ UNCHANGED <<record, checkpoint, context, sup, api, client, down, faults>>

\* acquire_lease raises, outside the try: the consumer makes a failure that may be
\* retried of it.  A lease that was granted all the same is nobody's, and lapses.
AcquireRaises(h) ==
    /\ slot[h].pc = "acquire"
    /\ CallRaises
    /\ \/ UNCHANGED record
       \/ /\ LeaseAvailable(record, WorkerOf[h])
          /\ record' = Granted(record, WorkerOf[h], NewLease, Duration)
    /\ slot' = [slot EXCEPT ![h].pc = "settle", ![h].again = TRUE]
    /\ UNCHANGED <<checkpoint, queue, context, sup, api, client, down>>

\* Mutant: the context does not take the status of the record.
ResolvedAsNew(h) ==
    [status |-> "QUEUED",
     token |-> IF h \in ApiSlots THEN context[Api].token ELSE record.cancelled]

\* The context is looked up in the API process, built from the record elsewhere.
Resolved(h) ==
    IF h \in ApiSlots THEN context[Api]
    ELSE [status |-> record.status, token |-> record.cancelled]

\* A completed run is not run again, nor is a cancelled one.
ResolveContext(h) ==
    LET c == Resolved(h)
        cancelled == c.status = "CANCELLED" \/ c.token
    IN
    /\ slot[h].pc = "resolve"
    /\ \/ /\ c.status = "COMPLETED"
          /\ context' = [context EXCEPT ![Own(h)] = c]
          /\ slot' = [slot EXCEPT ![h].pc = "release"]
       \/ /\ c.status # "COMPLETED" /\ cancelled
          /\ context' = [context EXCEPT ![Own(h)] = [c EXCEPT !.status = "CANCELLED"]]
          /\ slot' = [slot EXCEPT ![h].pc = "read", ![h].then = "release"]
       \/ /\ c.status # "COMPLETED" /\ ~cancelled
          /\ context' = [context EXCEPT ![Own(h)] = c]
          /\ slot' = [slot EXCEPT ![h].pc = "load"]
    /\ UNCHANGED <<record, checkpoint, queue, sup, api, client, down, faults>>

\* get_run raises before there is a context: the record is left as it is.
ResolveRaises(h) ==
    /\ slot[h].pc = "resolve"
    /\ h \notin ApiSlots
    /\ CallRaises
    /\ slot' = [slot EXCEPT ![h].pc = "release", ![h].again = TRUE]
    /\ UNCHANGED <<record, checkpoint, queue, context, sup, api, client, down>>

\* Mutant: a failure is not written to the record.
EnterUnsynchronised(h, status, then, again) ==
    /\ context' = [context EXCEPT ![Own(h)].status = status]
    /\ slot' = [slot EXCEPT ![h].then = then, ![h].again = again,
                            ![h].copy = NoRecord,
                            ![h].pc = IF status # "FAILED" THEN "read"
                                      ELSE IF then = "finally" THEN "release" ELSE then]

\* The context takes a status, and the record is to be synchronised with it before
\* the job goes on at "then".
Enter(h, status, then, again) ==
    /\ context' = [context EXCEPT ![Own(h)].status = status]
    /\ slot' = [slot EXCEPT ![h].pc = "read", ![h].then = then, ![h].again = again,
                            ![h].copy = NoRecord]

\* A stored checkpoint is resumed from; without one the planner is called.
LoadCheckpoint(h) ==
    /\ slot[h].pc = "load"
    /\ IF checkpoint THEN Enter(h, "RESEARCHING", "execute", FALSE)
                     ELSE Enter(h, "PLANNING", "plan", FALSE)
    /\ UNCHANGED <<record, checkpoint, queue, sup, api, client, down, faults>>

\* An exception of the load is suppressed: the run is planned again.
LoadRaises(h) ==
    /\ slot[h].pc = "load"
    /\ CallRaises
    /\ Enter(h, "PLANNING", "plan", FALSE)
    /\ UNCHANGED <<record, checkpoint, queue, sup, api, client, down>>

\* The two halves of _sync_to_repo.  It writes the context's status and token and the
\* slot's worker id and lease id over whatever the record holds now.
SyncRead(h) ==
    /\ slot[h].pc = "read"
    /\ slot' = [slot EXCEPT ![h].pc = "write", ![h].copy = record]
    /\ UNCHANGED <<record, checkpoint, queue, context, sup, api, client, down, faults>>

Synchronised(h) ==
    LET leased == slot[h].lease # NoLease IN
    [slot[h].copy EXCEPT
        !.status = context[Own(h)].status,
        !.cancelled = context[Own(h)].token,
        !.worker = IF leased THEN WorkerOf[h] ELSE @,
        !.lease = IF leased THEN slot[h].lease ELSE @]

SyncWrite(h) ==
    /\ slot[h].pc = "write"
    /\ record' = Synchronised(h)
    /\ slot' = [slot EXCEPT
          ![h].pc = IF slot[h].then = "finally" THEN "release" ELSE slot[h].then,
          ![h].then = "release", ![h].copy = NoRecord]
    /\ UNCHANGED <<checkpoint, queue, context, sup, api, client, down, faults>>

\* The except block: the run has failed, and may be retried.
Raise(h) == Enter(h, "FAILED", "finally", TRUE)

\* get_run or update_run raises, the latter before or after it wrote.  In the except
\* block itself the exception leaves handle_job, by way of the finally block.
SyncRaises(h) ==
    /\ slot[h].pc \in {"read", "write"}
    /\ CallRaises
    /\ \/ UNCHANGED record
       \/ slot[h].pc = "write" /\ record' = Synchronised(h)
    /\ IF slot[h].then = "finally"
       THEN /\ slot' = [slot EXCEPT ![h].pc = "release", ![h].then = "release",
                                    ![h].copy = NoRecord]
            /\ UNCHANGED context
       ELSE Raise(h)
    /\ UNCHANGED <<checkpoint, queue, sup, api, client, down>>

\* Mutant: the token is not looked at.
NeverCancelled(h) == FALSE

\* The cancellation checks between the stages and in the executor.
Cancelled(h) == context[Own(h)].token

\* The planner fails, in a way that may be retried or not, or raises, or answers with
\* a plan, which is executed unless the context was cancelled meanwhile.
Plan(h) ==
    /\ slot[h].pc = "plan"
    /\ \/ \E again \in BOOLEAN : Enter(h, "FAILED", "release", again)
       \/ Raise(h)
       \/ Cancelled(h) /\ Enter(h, "CANCELLED", "release", FALSE)
       \/ ~Cancelled(h) /\ Enter(h, "RESEARCHING", "execute", FALSE)
    /\ UNCHANGED <<record, checkpoint, queue, sup, api, client, down, faults>>

\* The executor stores a checkpoint.
SaveCheckpoint(h) ==
    /\ slot[h].pc = "execute"
    /\ ~checkpoint
    /\ checkpoint' = TRUE
    /\ UNCHANGED <<record, queue, context, slot, sup, api, client, down, faults>>

\* The graph was executed, cancelled or failed, or an exception was raised on the way.
\* Only the first execution passes its result on to the context when it completes.
Execute(h) ==
    /\ slot[h].pc = "execute"
    /\ \/ Enter(h, "FAILED", "release", TRUE)
       \/ Raise(h)
       \/ Cancelled(h) /\ Enter(h, "CANCELLED", "release", FALSE)
       \/ /\ ~Cancelled(h)
          /\ context' = [context EXCEPT ![Own(h)].status =
                            IF slot[h].refined = 0 THEN "COMPLETED" ELSE @]
          /\ slot' = [slot EXCEPT ![h].pc = "report"]
    /\ UNCHANGED <<record, checkpoint, queue, sup, api, client, down, faults>>

\* A report that does not pass evaluation is refined by another round of execution.
Refine(h) ==
    /\ slot[h].pc = "report"
    /\ slot[h].refined < MaxRefinements
    /\ IF Cancelled(h)
       THEN Enter(h, "CANCELLED", "release", FALSE)
       ELSE /\ context' = [context EXCEPT ![Own(h)].status = "RESEARCHING"]
            /\ slot' = [slot EXCEPT ![h].pc = "read", ![h].then = "execute",
                                    ![h].refined = @ + 1]
    /\ UNCHANGED <<record, checkpoint, queue, sup, api, client, down, faults>>

\* The dossier is compiled and uploaded, whether or not the context is cancelled
\* meanwhile, or an exception is raised.
Report(h) ==
    /\ slot[h].pc = "report"
    /\ \/ Enter(h, "COMPLETED", "release", FALSE)
       \/ Raise(h)
    /\ UNCHANGED <<record, checkpoint, queue, sup, api, client, down, faults>>

\* The finally block: the heartbeat stops and the lease is released if it is still
\* the slot's own.
ReleaseLease(h) ==
    /\ slot[h].pc = "release"
    /\ record' = IF slot[h].lease # NoLease
                    /\ OwnsLease(record, WorkerOf[h], slot[h].lease)
                 THEN ClearLease(record) ELSE record
    /\ slot' = [slot EXCEPT ![h].pc = "settle", ![h].lease = NoLease,
                            ![h].beating = FALSE]
    /\ UNCHANGED <<checkpoint, queue, context, sup, api, client, down, faults>>

\* release_lease raises, which is suppressed: the lease is left to lapse.
ReleaseRaises(h) ==
    /\ slot[h].pc = "release" /\ slot[h].lease # NoLease
    /\ CallRaises
    /\ slot' = [slot EXCEPT ![h].pc = "settle", ![h].lease = NoLease,
                            ![h].beating = FALSE]
    /\ UNCHANGED <<record, checkpoint, queue, context, sup, api, client, down>>

\* The consumer acts on the result: a failure that may be retried is published again
\* with the next attempt before the message is acknowledged; any other result is
\* acknowledged (a failure after a copy went to the dead-letter topic).
Retried(h) == slot[h].again /\ slot[h].msg.job.attempt < slot[h].msg.job.max
Settle(h) ==
    LET e == slot[h].msg.job IN
    /\ slot[h].pc = "settle"
    /\ IF Retried(h) THEN Publish(Envelope(e.attempt + 1, e.max)) ELSE UNCHANGED queue
    /\ slot' = [slot EXCEPT ![h].pc = "ack"]
    /\ UNCHANGED <<record, checkpoint, context, sup, api, client, down, faults>>

\* A worker forgets the context it built; the API process keeps its own.
Forget(hs) == [x \in Contexts |-> IF x \in hs THEN NewContext ELSE context[x]]

\* The copy that a job without attempts left has on the dead-letter topic is reckoned
\* from the acknowledgement; that of a failure not to be retried is not kept, for the
\* run's record says FAILED.
Acknowledge(h) ==
    LET m == slot[h].msg IN
    /\ slot[h].pc = "ack"
    /\ queue' = [queue EXCEPT ![m] =
                   IF ~Live(m) THEN @
                   ELSE IF slot[h].again /\ ~Retried(h) THEN [@ EXCEPT !.state = "dead"]
                   ELSE NotThere]
    /\ slot' = [slot EXCEPT ![h] = IdleSlot]
    /\ context' = Forget({h})
    /\ UNCHANGED <<record, checkpoint, sup, api, client, down, faults>>

\* publish, publish_dead_letter or the acknowledgement raises: the worker loop goes on
\* to the next message, and this one is not acknowledged.
SettleRaises(h) ==
    /\ slot[h].pc \in {"settle", "ack"}
    /\ CallRaises
    /\ Returned({h})
    /\ slot' = [slot EXCEPT ![h] = IdleSlot]
    /\ context' = Forget({h})
    /\ UNCHANGED <<record, checkpoint, sup, api, client, down>>

\* A round of the slot's heartbeat: the lease is renewed, or found lost, in which
\* case the heartbeat ends and the slot, which no callback tells, works on.
Heartbeat(h) ==
    /\ slot[h].beating
    /\ IF OwnsLease(record, WorkerOf[h], slot[h].lease)
       THEN record' = Renewed(record, Duration) /\ slot' = slot
       ELSE record' = record /\ slot' = [slot EXCEPT ![h].beating = FALSE]
    /\ UNCHANGED <<checkpoint, queue, context, sup, api, client, down, faults>>

SlotStep(h) ==
    \/ Receive(h) \/ AcquireLease(h) \/ LeaseConflict(h)
    \/ ResolveContext(h) \/ LoadCheckpoint(h) \/ SyncRead(h) \/ SyncWrite(h)
    \/ Plan(h) \/ SaveCheckpoint(h) \/ Execute(h) \/ Refine(h) \/ Report(h)
    \/ ReleaseLease(h) \/ Settle(h) \/ Acknowledge(h)

SlotCallRaises(h) ==
    \/ AcquireRaises(h) \/ ResolveRaises(h) \/ LoadRaises(h) \/ SyncRaises(h)
    \/ ReleaseRaises(h) \/ SettleRaises(h)

-------------------------------------------------------------------------------
(* A supervisor: reap_stale_runs and recover_run.                              *)

\* The scan finds the run in an active stage with a lapsed lease, or with none.
Scan(s) ==
    /\ ScanListsRun
    /\ sup[s].pc = "idle" /\ HostOf[s] \notin down
    /\ record.status \in Active
    /\ record.ttl = 0
    /\ sup' = [sup EXCEPT ![s].pc = "claim"]
    /\ UNCHANGED <<record, checkpoint, queue, context, slot, api, client, down, faults>>

\* The supervisor acquires the lease, or skips the run.
Claim(s) ==
    /\ sup[s].pc = "claim"
    /\ IF LeaseAvailable(record, WorkerOf[s])
       THEN /\ record' = Granted(record, WorkerOf[s], NewLease, Duration)
            /\ sup' = [sup EXCEPT ![s].pc = "inspect", ![s].lease = NewLease]
       ELSE /\ record' = record
            /\ sup' = [sup EXCEPT ![s] = IdleSupervisor]
    /\ UNCHANGED <<checkpoint, queue, context, slot, api, client, down, faults>>

\* get_run under the claim.
Inspect(s) ==
    /\ sup[s].pc = "inspect"
    /\ sup' = [sup EXCEPT ![s].pc = "decide", ![s].copy = record]
    /\ UNCHANGED <<record, checkpoint, queue, context, slot, api, client, down, faults>>

\* The claim is released if it is still the supervisor's own.
Unclaimed(s) ==
    IF OwnsLease(record, WorkerOf[s], sup[s].lease) THEN ClearLease(record) ELSE record

\* The run has left the active stages meanwhile.
Skip(s) ==
    /\ sup[s].pc = "decide"
    /\ sup[s].copy.status \notin Active
    /\ record' = Unclaimed(s)
    /\ sup' = [sup EXCEPT ![s] = IdleSupervisor]
    /\ UNCHANGED <<checkpoint, queue, context, slot, api, client, down, faults>>

\* A cancelled run is marked so and not published again.
RecoverCancelled(s) ==
    /\ sup[s].pc = "decide"
    /\ sup[s].copy.status \in Active
    /\ sup[s].copy.cancelled
    /\ record' = ClearLease([sup[s].copy EXCEPT !.status = "CANCELLED"])
    /\ sup' = [sup EXCEPT ![s] = IdleSupervisor]
    /\ UNCHANGED <<checkpoint, queue, context, slot, api, client, down, faults>>

\* A run that has been recovered too often has failed for good.
RecoveryExhausted(s) ==
    /\ sup[s].pc = "decide"
    /\ sup[s].copy.status \in Active
    /\ ~sup[s].copy.cancelled
    /\ sup[s].copy.recovery + 1 > MaxRecovery
    /\ record' = ClearLease([sup[s].copy EXCEPT !.status = "FAILED"])
    /\ sup' = [sup EXCEPT ![s] = IdleSupervisor]
    /\ UNCHANGED <<checkpoint, queue, context, slot, api, client, down, faults>>

\* Mutants: one attempt too many; a stage that is not looked at.
RecoverableOnceMore(r) ==
    r.status \in Active /\ ~r.cancelled /\ r.recovery =< MaxRecovery
RecoverableInactive(r) == ~r.cancelled /\ r.recovery + 1 =< MaxRecovery

\* What recover_run goes on to recover.
Recoverable(r) ==
    r.status \in Active /\ ~r.cancelled /\ r.recovery + 1 =< MaxRecovery

\* The run is given the stage of its checkpoint, or QUEUED when there is none or it
\* cannot be loaded, with the lease cleared; its job is still to be published.
Recover(s) ==
    /\ sup[s].pc = "decide"
    /\ Recoverable(sup[s].copy)
    /\ \E loaded \in BOOLEAN :
          /\ IF loaded THEN UNCHANGED faults ELSE CallRaises
          /\ record' = ClearLease([sup[s].copy EXCEPT
                 !.status = IF checkpoint /\ loaded THEN "RESEARCHING" ELSE "QUEUED",
                 !.recovery = @ + 1])
    /\ sup' = [sup EXCEPT ![s].pc = "publish"]
    /\ UNCHANGED <<checkpoint, queue, context, slot, api, client, down>>

\* The recovery job carries the recovery attempt as its attempt.
Republish(s) ==
    LET e == Envelope(sup[s].copy.recovery + 1, MaxRecovery) IN
    /\ sup[s].pc = "publish"
    /\ Publish(e)
    /\ sup' = [sup EXCEPT ![s] = IdleSupervisor]
    /\ UNCHANGED <<record, checkpoint, context, slot, api, client, down, faults>>

\* publish raises, or update_run before it although it wrote: the claim, already
\* cleared, is released, and the supervisor goes on to the next run.
RepublishFails(s) ==
    /\ sup[s].pc = "publish"
    /\ Fault("publish")
    /\ record' = Unclaimed(s)
    /\ sup' = [sup EXCEPT ![s] = IdleSupervisor]
    /\ UNCHANGED <<checkpoint, queue, context, slot, api, client, down>>

\* acquire_lease raises, with the lease granted, to nobody, or not.
ClaimRaises(s) ==
    /\ sup[s].pc = "claim"
    /\ CallRaises
    /\ \/ UNCHANGED record
       \/ /\ LeaseAvailable(record, WorkerOf[s])
          /\ record' = Granted(record, WorkerOf[s], NewLease, Duration)
    /\ sup' = [sup EXCEPT ![s] = IdleSupervisor]
    /\ UNCHANGED <<checkpoint, queue, context, slot, api, client, down>>

\* get_run, update_run or release_lease raises under the claim, which is released, unless
\* that raises too, which is suppressed: then the claim is left to lapse.
RecoverRaises(s) ==
    /\ sup[s].pc \in {"inspect", "decide"}
    /\ CallRaises
    /\ record' \in {record, Unclaimed(s)}
    /\ sup' = [sup EXCEPT ![s] = IdleSupervisor]
    /\ UNCHANGED <<checkpoint, queue, context, slot, api, client, down>>

SupervisorStep(s) ==
    \/ Scan(s) \/ Claim(s) \/ Inspect(s) \/ Skip(s)
    \/ RecoverCancelled(s) \/ RecoveryExhausted(s) \/ Recover(s) \/ Republish(s)

-------------------------------------------------------------------------------
(* The environment.                                                            *)

\* The ack deadline of a message that is still being processed lapses.
Duplicate(h) ==
    /\ Outstanding(h)
    /\ Fault("lapse")
    /\ Returned({h})
    /\ UNCHANGED <<record, checkpoint, context, slot, sup, api, client, down>>

\* A process dies with its slots and its supervisor, and is replaced by one that has
\* another worker_id.  The messages it had not acknowledged are returned.  It dies
\* between an update and a publication only as a publish fault, and halfway through a
\* cancellation as if nobody had asked for it.
Crash(p) ==
    /\ p \notin down
    /\ Fault("crash")
    /\ \A s \in Supervisors : HostOf[s] = p => sup[s].pc # "publish"
    /\ (\E h \in ApiSlots : HostOf[h] = p) => api # "created" /\ client.pc # "write"
    /\ down' = down \cup {p}
    /\ Returned({h \in Slots : HostOf[h] = p})
    /\ slot' = [h \in Slots |-> IF HostOf[h] = p THEN IdleSlot ELSE slot[h]]
    /\ context' = Forget({Own(h) : h \in {g \in Slots : HostOf[g] = p}})
    /\ sup' = [s \in Supervisors |-> IF HostOf[s] = p THEN IdleSupervisor ELSE sup[s]]
    /\ UNCHANGED <<record, checkpoint, api, client>>

\* The holder of the recorded lease is alive and prevents its expiry: a slot whose
\* heartbeat runs, or a supervisor in the middle of the few calls of a recovery.
KeptAlive ==
    \/ \E h \in Slots : /\ slot[h].beating
                        /\ OwnsLease(record, WorkerOf[h], slot[h].lease)
    \/ \E s \in Supervisors : /\ sup[s].pc # "idle"
                              /\ OwnsLease(record, WorkerOf[s], sup[s].lease)

\* The holder of a lease is about to write the record that it read, with the expiry of
\* that time, which one more tick would bring to an end.
StaleUpdate ==
    \E h \in Slots : slot[h].beating /\ slot[h].pc = "write" /\ slot[h].copy.ttl = 1

AgedCopy(r) == IF r = NoRecord THEN r ELSE Aged(r)

\* Time passes, for the record and for what was read of it.
Tick ==
    /\ record.ttl > 0
    /\ HeartbeatsKeepUp => ~(record.ttl = 1 /\ KeptAlive) /\ ~StaleUpdate
    /\ record' = Aged(record)
    /\ slot' = [h \in Slots |-> [slot[h] EXCEPT !.copy = AgedCopy(@)]]
    /\ sup' = [s \in Supervisors |-> [sup[s] EXCEPT !.copy = AgedCopy(@)]]
    /\ client' = [client EXCEPT !.copy = AgedCopy(@)]
    /\ UNCHANGED <<checkpoint, queue, context, api, down, faults>>

\* A message of the run is a dead letter because the attempts that its envelope counts,
\* or the deliveries that the subscription allows, were used up.
UsedUp == \E m \in Messages : /\ queue[m].state = "dead"
                              /\ \/ m.job.attempt = m.job.max
                                 \/ queue[m].deliveries = MaxDeliveries

\* The run waits in QUEUED, which no supervisor looks at, for a job that will not come.
Stranded ==
    /\ record.status = "QUEUED"
    /\ \A m \in Messages : ~Live(m)
    /\ \A h \in Slots : slot[h].pc = "idle"
    /\ \A s \in Supervisors : sup[s].pc # "publish"
    /\ UsedUp \/ faults["publish"] > 0

\* Nothing is left to do for a run that has ended, was never published or is stranded.
Finished ==
    /\ record.status \in Terminal \/ api = "failed" \/ Stranded
    /\ \A m \in Messages : ~Live(m)
    /\ \A h \in Slots : slot[h] = IdleSlot
    /\ \A s \in Supervisors : sup[s] = IdleSupervisor
    /\ UNCHANGED vars

Next ==
    \/ PublishJob \/ PublishJobFails \/ CancelRead \/ CancelWrite
    \/ \E h \in Slots : SlotStep(h) \/ SlotCallRaises(h) \/ Heartbeat(h) \/ Duplicate(h)
    \/ \E s \in Supervisors : \/ SupervisorStep(s) \/ RepublishFails(s)
                              \/ ClaimRaises(s) \/ RecoverRaises(s)
    \/ \E p \in Processes : Crash(p)
    \/ Tick
    \/ Finished

Spec == Init /\ [][Next]_vars

\* Processes that have not crashed go on, as does the clock.  Nothing obliges a
\* process to crash, a client to cancel, a call to raise or Pub/Sub to deliver twice.
Fairness ==
    /\ WF_vars(PublishJob) /\ WF_vars(CancelWrite) /\ WF_vars(Tick)
    /\ \A h \in Slots : WF_vars(SlotStep(h))
    /\ \A s \in Supervisors : WF_vars(SupervisorStep(s))

FairSpec == Spec /\ Fairness

-------------------------------------------------------------------------------
RunRecords == [status : Statuses, cancelled : BOOLEAN, recovery : 0..MaxRecovery,
               worker : Workers \cup {NoWorker}, lease : Leases \cup {NoLease},
               ttl : 0..Duration]

ASSUME AbsentAssumption ==
    /\ NoWorker \notin Workers
    /\ NoRecord \notin RunRecords
    /\ NoMessage \notin Messages

SlotStates ==
    [pc : {"idle", "acquire", "resolve", "load", "read", "write", "plan", "execute",
           "report", "release", "settle", "ack"},
     msg : Messages \cup {NoMessage}, delivery : 0..MaxDeliveries,
     then : {"plan", "execute", "release", "finally"},
     again : BOOLEAN, lease : Leases \cup {NoLease}, beating : BOOLEAN,
     copy : RunRecords \cup {NoRecord}, refined : 0..MaxRefinements]

SupervisorStates ==
    [pc : {"idle", "claim", "inspect", "decide", "publish"},
     lease : Leases \cup {NoLease}, copy : RunRecords \cup {NoRecord}]

TypeOK ==
    /\ record \in RunRecords
    /\ checkpoint \in BOOLEAN
    /\ queue \in [Messages -> MessageStates]
    /\ context \in [Contexts -> [status : Statuses, token : BOOLEAN]]
    /\ slot \in [Slots -> SlotStates]
    /\ sup \in [Supervisors -> SupervisorStates]
    /\ api \in {"created", "published", "failed"}
    /\ client \in [pc : {"none", "write", "done"}, copy : RunRecords \cup {NoRecord}]
    /\ down \subseteq Processes
    /\ faults \in [FaultKinds -> Nat]

\* A run waiting in QUEUED, which no supervisor ever looks at, has a job on its way: a
\* message, or a publication that is about to happen.  It is stranded there in no
\* other way than that a message of it used up its attempts or its deliveries (calls
\* that raise and leases held by others use them up without a word in the record), or
\* that a publication failed after the record was written.
QueuedRunHasJob ==
    record.status = "QUEUED" =>
        \/ \E m \in Messages : Live(m)
        \/ \E s \in Supervisors : sup[s].pc = "publish"
        \/ api = "created"
        \/ UsedUp
        \/ faults["publish"] > 0

\* Slots that hold the run: between the acquisition of the lease and its release.
Working(h) == slot[h].pc \in {"resolve", "load", "read", "write", "plan",
                              "execute", "report", "release"}
Recovering(s) == sup[s].pc \in {"inspect", "decide"}

\* While heartbeats keep up and nobody cancels, no two slots, no two supervisors and
\* no slot and supervisor are at work on the run together, whatever crashes and
\* however often its jobs are delivered.
OneAtWork ==
    /\ \A h, g \in Slots : Working(h) /\ Working(g) => h = g
    /\ \A s, t \in Supervisors : Recovering(s) /\ Recovering(t) => s = t
    /\ \A h \in Slots, s \in Supervisors : ~(Working(h) /\ Recovering(s))

\* The run has ended, completed or cancelled, and nobody works on it who took it for
\* one that had not.
Settled ==
    /\ record.status \in {"COMPLETED", "CANCELLED"}
    /\ \A h \in Slots :
          /\ slot[h].pc \notin {"load", "plan", "execute", "report"}
          /\ slot[h].pc \in {"read", "write"}
                => /\ slot[h].then = "release"
                   /\ context[Own(h)].status = record.status
    /\ \A s \in Supervisors : sup[s].pc = "decide" => sup[s].copy.status \notin Active
    /\ client.pc # "write"

\* A run that has settled stays so, however often its jobs and its recovery are tried
\* again; only a client that cancels a completed run changes it, or a call that raises
\* while a slot writes once more that the run is cancelled.
SettledStep ==
    Settled /\ client'.pc # "write" /\ faults'["call"] = faults["call"]
        => Settled' /\ record'.status = record.status
SettledIsFinal == [][SettledStep]_vars

\* A run whose first job was published ends, in a terminal stage that it stays in, unless
\* it is stranded for good in one of the ways that Stranded names.
PublishedRunEnds ==
    <>(api = "published") => <>[](record.status \in Terminal) \/ <>[]Stranded

\* A run that a client cancelled, and was told so, is not completed afterwards
\* (docs/workflow.md, section 2: CANCELLED revokes what runs).
CancelledRunIsAborted == client.pc = "done" => record.status # "COMPLETED"

\* A cancellation that reaches the API process while the run is at none of its slots'
\* reports is honoured: the run is never completed.
InTime == /\ context[Api].token
          /\ context[Api].status # "COMPLETED" /\ record.status # "COMPLETED"
          /\ \A h \in ApiSlots : slot[h].pc # "report"
CancelledInTimeIsAborted == [](InTime => [](record.status # "COMPLETED"))

\* The recoveries that are counted towards "Maximum failure recovery attempts" answer
\* crashes: with heartbeats that keep up, nothing else costs a run one of them.
RecoveriesAreCrashes == record.recovery =< faults["crash"]

\* The count of recoveries is never set back by a caller that writes what it read
\* before.  This rests on the lease, not on the record's version: it fails as soon as
\* a holder works on after its lease has lapsed.
RecoveryCountGrows == [][record'.recovery >= record.recovery]_vars

\* Who is at work on the run: slots under the ids of their workers, and supervisors.
\* Where OneAtWork holds there is one at most.
AtWork == {WorkerOf[h] : h \in {g \in Slots : Working(g)}}
              \cup {WorkerOf[s] : s \in {t \in Supervisors : Recovering(t)}}
Owner == IF AtWork = {} THEN NoWorker ELSE CHOOSE w \in AtWork : TRUE

\* The run was completed, and its owner has nothing more to write about it.
Closed ==
    /\ record.status = "COMPLETED"
    /\ \A h \in Slots : slot[h].pc \notin {"load", "read", "write", "plan", "execute",
                                           "report"}

\* The deployment that the leases are made for implements the exclusive run: however
\* its jobs are delivered, whoever dies and whichever calls raise, the record's status
\* is only ever written by the one that is at work on the run, and not once an owner
\* left it completed.
Exclusive == INSTANCE ExclusiveRun WITH
    Owners <- Workers,
    Nobody <- NoWorker,
    Final <- {"COMPLETED"},
    owner <- Owner,
    status <- record.status,
    closed <- Closed

ExclusiveRunSpec == Exclusive!Spec

\* A slot that is handed the job of a run already completed does not set out on it
\* again: "Terminal Stage Short-Circuiting" (docs/phase6_2_implementation.md, 4) looks
\* at the context and at the record.
CompletedRunIsShortCircuited ==
    [][\A h \in Slots : slot[h].pc = "resolve" /\ record.status = "COMPLETED"
                           => slot'[h].pc # "load"]_vars
===============================================================================

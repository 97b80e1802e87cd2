---------------------------- MODULE InMemoryQueue -----------------------------
(***************************************************************************)
(* The transport of jobs within one process (jobs/in_memory.py): a queue   *)
(* of envelopes, the state of each job as the queue tracks it, the dead    *)
(* letters, and a consumer whose slots hand the envelopes to a handler.    *)
(* A slot is suspended only while it waits for the queue or the handler:   *)
(* what it does between is one step.                                       *)
(***************************************************************************)
EXTENDS Naturals, Sequences, FiniteSets

CONSTANTS LocalJobs, LocalSlots, MaxLocalAttempts,
          MaxStops   \* bound

VARIABLES queue,     \* _queue: job and attempt
          tracked,   \* _jobs: the status of each
          letters,   \* _dead_letter_queue
          hand,      \* the envelope each slot has handed to the handler
          consuming, \* _running
          stops,     \* how often the consumer was stopped
          dropped    \* jobs that were handed back QUEUED, or in hand at a stop

queueVars == <<queue, tracked, letters, hand, consuming, stops, dropped>>

\* What a handler may answer; REFUSED stands for FAILED and not retryable.
LocalAnswers == {"COMPLETED", "CANCELLED", "QUEUED", "FAILED", "REFUSED"}

NoEnvelope == <<>>
Holding == {s \in LocalSlots : hand[s] # NoEnvelope}
Track(job, status) == [j \in DOMAIN tracked \cup {job} |-> IF j = job THEN status ELSE tracked[j]]

QueueInit ==
    /\ queue = <<>> /\ tracked = <<>> /\ letters = <<>>
    /\ hand = [s \in LocalSlots |-> NoEnvelope]
    /\ consuming = FALSE /\ stops = 0 /\ dropped = {}

Put(job, attempt) ==
    /\ queue' = Append(queue, [job |-> job, attempt |-> attempt])
    /\ tracked' = Track(job, "QUEUED")

PublishLocally(job) ==
    /\ job \notin DOMAIN tracked
    /\ Put(job, 1)
    /\ UNCHANGED <<letters, hand, consuming, stops, dropped>>

StartConsumer ==
    /\ ~consuming /\ consuming' = TRUE
    /\ UNCHANGED <<queue, tracked, letters, hand, stops, dropped>>

\* The slots are cancelled: what the handlers were given comes back to nobody.
StopConsumer ==
    /\ consuming /\ stops < MaxStops
    /\ consuming' = FALSE /\ stops' = stops + 1
    /\ dropped' = dropped \cup {hand[s].job : s \in Holding}
    /\ hand' = [s \in LocalSlots |-> NoEnvelope]
    /\ UNCHANGED <<queue, tracked, letters>>

Get(s) ==
    /\ consuming /\ hand[s] = NoEnvelope /\ queue # <<>>
    /\ hand' = [hand EXCEPT ![s] = Head(queue)]
    /\ queue' = Tail(queue)
    /\ tracked' = Track(Head(queue).job, "RUNNING")
    /\ UNCHANGED <<letters, consuming, stops, dropped>>

\* Mutant: the attempt that has just failed is counted twice.
RetriableOnceLess(answer, attempt) == answer = "FAILED" /\ attempt + 1 < MaxLocalAttempts

\* Mutant: and once more.
RetriableOnceMore(answer, attempt) == answer = "FAILED" /\ attempt =< MaxLocalAttempts

Retriable(answer, attempt) == answer = "FAILED" /\ attempt < MaxLocalAttempts

\* The handler answers.  A QUEUED envelope is dropped, still tracked as RUNNING.
ProcessEnvelope(s, answer) ==
    /\ s \in Holding
    /\ hand' = [hand EXCEPT ![s] = NoEnvelope]
    /\ LET job == hand[s].job
           attempt == hand[s].attempt
       IN  \/ /\ answer \in {"COMPLETED", "CANCELLED"}
              /\ tracked' = Track(job, answer)
              /\ UNCHANGED <<queue, letters, dropped>>
           \/ /\ answer = "QUEUED"
              /\ dropped' = dropped \cup {job}
              /\ UNCHANGED <<queue, tracked, letters>>
           \/ /\ Retriable(answer, attempt)
              /\ Put(job, attempt + 1)
              /\ UNCHANGED <<letters, dropped>>
           \/ /\ answer \in {"FAILED", "REFUSED"} /\ ~Retriable(answer, attempt)
              /\ tracked' = Track(job, "DEAD_LETTERED")
              /\ letters' = Append(letters, [job |-> job, attempt |-> attempt, answer |-> answer])
              /\ UNCHANGED <<queue, dropped>>
    /\ UNCHANGED <<consuming, stops>>

QueueNext ==
    \/ \E j \in LocalJobs : PublishLocally(j)
    \/ StartConsumer
    \/ StopConsumer
    \/ \E s \in LocalSlots :
          \/ Get(s)
          \/ \E answer \in LocalAnswers : ProcessEnvelope(s, answer)

QueueSpec == QueueInit /\ [][QueueNext]_queueVars

\* An envelope has at least one attempt.
QueueConstants == MaxLocalAttempts \in Nat \ {0}

-------------------------------------------------------------------------------
\* Where a job is: in the queue, in a slot's hand, among the dead letters, or done.
Places(j) ==
    Cardinality({i \in DOMAIN queue : queue[i].job = j})
    + Cardinality({s \in Holding : hand[s].job = j})
    + Cardinality({i \in DOMAIN letters : letters[i].job = j})
    + IF tracked[j] \in {"COMPLETED", "CANCELLED"} THEN 1 ELSE 0

QueueTypeOK ==
    /\ queue \in Seq([job : LocalJobs, attempt : 1..MaxLocalAttempts])
    /\ \A s \in Holding : hand[s] \in [job : LocalJobs, attempt : 1..MaxLocalAttempts]
    /\ DOMAIN tracked \subseteq LocalJobs
    /\ dropped \subseteq DOMAIN tracked

\* A published job is in exactly one place, and tracked as what it is there, unless it
\* was handed back or in hand at a stop; and a job is dead-lettered only when its last
\* attempt failed, or one of them for good.
EveryJobHasItsPlace ==
    /\ \A j \in DOMAIN tracked \ dropped :
          /\ Places(j) = 1
          /\ tracked[j] = "QUEUED" <=> \E i \in DOMAIN queue : queue[i].job = j
          /\ tracked[j] = "RUNNING" <=> \E s \in Holding : hand[s].job = j
    /\ \A i \in DOMAIN letters :
          letters[i].answer = "REFUSED" \/ letters[i].attempt = MaxLocalAttempts

\* The stage of a job, and the attempts at it that failed: those before the one that is
\* queued, in hand or a dead letter, and that one too if the letter says that it failed.
LocalStage(j) ==
    CASE j \in dropped -> "lost"
      [] j \notin DOMAIN tracked -> "none"
      [] j \in DOMAIN tracked \ dropped ->
            CASE tracked[j] \in {"COMPLETED", "CANCELLED"} -> "answered"
              [] tracked[j] = "DEAD_LETTERED" -> "dead"
              [] OTHER -> "owed"

EnvelopesOf(j) == {queue[i] : i \in {k \in DOMAIN queue : queue[k].job = j}}
                      \cup {hand[s] : s \in {u \in Holding : hand[u].job = j}}
LettersOf(j) == {letters[i] : i \in {k \in DOMAIN letters : letters[k].job = j}}
FailedAttempts(j) ==
    (UNION {1..(e.attempt - 1) : e \in EnvelopesOf(j) \cup LettersOf(j)})
        \cup {l.attempt : l \in {k \in LettersOf(j) : k.answer = "FAILED"}}

\* The queue is a job queue that loses jobs only as it says: those that come back
\* QUEUED, and those in hand at a stop.  Jobs are published with their first attempt, for
\* no supervisor publishes into a queue in memory; and no deliveries are counted.
Local == INSTANCE JobQueue WITH
    Jobs <- LocalJobs,
    FirstAttempt <- [j \in LocalJobs |-> 1],
    LastAttempt <- [j \in LocalJobs |-> MaxLocalAttempts],
    MaxDeliveries <- 1,
    Lossy <- TRUE,
    deliveries <- [j \in LocalJobs |-> {}],
    stage <- [j \in LocalJobs |-> LocalStage(j)],
    failed <- [j \in LocalJobs |-> IF j \in dropped THEN {} ELSE FailedAttempts(j)],
    refused <- {j \in LocalJobs \ dropped : \E l \in LettersOf(j) : l.answer = "REFUSED"}

LocalQueueSpec == Local!Spec
===============================================================================

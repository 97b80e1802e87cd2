---------------------------- MODULE PubSubConsumer ----------------------------
(***************************************************************************)
(* The Pub/Sub transport of jobs (jobs/pubsub.py): a publisher, a pool of  *)
(* consumer slots, and for each message in hand a heartbeat that extends   *)
(* its acknowledgement deadline.  Handlers are called once per delivery;   *)
(* what they answer decides whether the message is acknowledged, published *)
(* again with the next attempt number, or moved to the dead-letter topic.  *)
(* The service itself dead-letters a message that was delivered as often   *)
(* as the subscription allows and never acknowledged.                      *)
(*                                                                         *)
(* Every call to the service may raise, done or not; a pool may be stopped *)
(* (or die) at every await.  The pool has a publisher and a dead-letter    *)
(* topic, as jobs/factory.py makes it.                                     *)
(***************************************************************************)
EXTENDS Naturals, Sequences

CONSTANTS Jobs,
          Slots,         \* worker_concurrency of them
          FirstAttempt,  \* of each job: 1 from a client, a supervisor's count of recoveries
          LastAttempt,   \* of each job: max_attempts of its envelope
          MaxDeliveries, \* max_delivery_attempts of the subscription
          MaxMishaps     \* bound on what goes wrong

VARIABLES messages,  \* all that were published: job and attempt
          delivery,  \* of each: "ready", "out", "acked" or "expired"
          delivered, \* of each: how often it was delivered
          slot,      \* what each slot is doing
          pulling,   \* _running
          accepted,  \* jobs whose publication returned
          answered,  \* jobs that a handler COMPLETED or found CANCELLED
          refused,   \* jobs that failed and are not retryable
          failed,    \* the attempts of each job that failed
          buried,    \* jobs on the dead-letter topic
          mishaps

outcomes == <<answered, refused, failed>>
consumerVars ==
    <<messages, delivery, delivered, slot, pulling, accepted, outcomes, buried, mishaps>>

MalformedJob == "malformed"
AttemptsAt(j) == FirstAttempt[j]..LastAttempt[j]

\* What a handler may answer; REFUSED stands for FAILED and not retryable.
HandlerAnswers == {"COMPLETED", "CANCELLED", "QUEUED", "FAILED", "REFUSED"}

IdleSlot == [at |-> "idle"]
Working(at, i) == [at |-> at, msg |-> i, current |-> TRUE]
InHand(s) == messages[slot[s].msg]

ConsumerInit ==
    /\ messages = <<>> /\ delivery = <<>> /\ delivered = <<>>
    /\ slot = [s \in Slots |-> IdleSlot] /\ pulling = FALSE
    /\ accepted = {} /\ answered = {} /\ refused = {} /\ buried = {}
    /\ failed = [j \in Jobs |-> {}]
    /\ mishaps = 0

Mishap == mishaps < MaxMishaps /\ mishaps' = mishaps + 1

Send(job, attempt) ==
    /\ messages' = Append(messages, [job |-> job, attempt |-> attempt])
    /\ delivery' = Append(delivery, "ready")
    /\ delivered' = Append(delivered, 0)

\* The service raises, having taken the message or not.
SendFails(job, attempt) ==
    Mishap /\ (Send(job, attempt) \/ UNCHANGED <<messages, delivery, delivered>>)

\* A client's job, or a supervisor's for a run that it recovers.  A publication that
\* raised is for the one that made it to repeat.
PublishJob(j) ==
    /\ j \notin accepted
    /\ \/ Send(j, FirstAttempt[j]) /\ accepted' = accepted \cup {j} /\ UNCHANGED mishaps
       \/ SendFails(j, FirstAttempt[j]) /\ UNCHANGED accepted
    /\ UNCHANGED <<slot, pulling, outcomes, buried>>

PublishMalformed ==
    /\ Mishap /\ Send(MalformedJob, 1)
    /\ UNCHANGED <<slot, pulling, accepted, outcomes, buried>>

-------------------------------------------------------------------------------
(* The pool.                                                                   *)

StartPool ==
    /\ ~pulling /\ pulling' = TRUE
    /\ UNCHANGED <<messages, delivery, delivered, slot, accepted, outcomes, buried, mishaps>>

\* The slots are cancelled, and with them the heartbeats of their messages.
StopPool ==
    /\ pulling /\ pulling' = FALSE
    /\ Mishap
    /\ slot' = [s \in Slots |-> IdleSlot]
    /\ UNCHANGED <<messages, delivery, delivered, accepted, outcomes, buried>>

\* What does not validate is acknowledged, or it would come back for ever.
Pulled(i) == IF messages[i].job = MalformedJob THEN "ack" ELSE "handle"

\* The answer to a pull may be lost: then the message is out, in nobody's hands.
Pull(s, i) ==
    /\ pulling /\ slot[s] = IdleSlot
    /\ delivery[i] = "ready"
    /\ delivery' = [delivery EXCEPT ![i] = "out"]
    /\ delivered' = [delivered EXCEPT ![i] = @ + 1]
    /\ \/ slot' = [slot EXCEPT ![s] = Working(Pulled(i), i)] /\ UNCHANGED mishaps
       \/ Mishap /\ UNCHANGED slot
    /\ UNCHANGED <<messages, pulling, accepted, outcomes, buried>>

\* The deadline of a message passes, if no slot extends it or an extension fails.  The
\* service delivers it again, or, delivered as often as is allowed, dead-letters it.
Lapse(i) ==
    /\ delivery[i] = "out"
    /\ LET extending == {s \in Slots : slot[s] # IdleSlot /\ slot[s].msg = i /\ slot[s].current}
       IN  /\ IF extending = {} THEN UNCHANGED mishaps ELSE Mishap
           /\ slot' = [s \in Slots |-> IF s \in extending THEN [slot[s] EXCEPT !.current = FALSE]
                                       ELSE slot[s]]
    /\ \/ /\ delivered[i] < MaxDeliveries
          /\ delivery' = [delivery EXCEPT ![i] = "ready"] /\ UNCHANGED buried
       \/ /\ delivered[i] >= MaxDeliveries
          /\ delivery' = [delivery EXCEPT ![i] = "expired"]
          /\ buried' = buried \cup ({messages[i].job} \ {MalformedJob})
    /\ UNCHANGED <<messages, delivered, pulling, accepted, outcomes>>

\* Mutant: whatever is not retried is acknowledged, the job another worker has too.
AckUnlessRetried(answer, message) ==
    CASE answer \in {"COMPLETED", "CANCELLED", "QUEUED"} -> "ack"
      [] answer = "FAILED" /\ message.attempt < LastAttempt[message.job] -> "republish"
      [] OTHER -> "bury"

\* What a slot does on an answer.  On QUEUED (the run is leased to another worker)
\* nothing: the deadline passes and the message comes back.
AfterAnswer(answer, message) ==
    CASE answer \in {"COMPLETED", "CANCELLED"} -> "ack"
      [] answer = "QUEUED" -> "idle"
      [] answer = "FAILED" /\ message.attempt < LastAttempt[message.job] -> "republish"
      [] OTHER -> "bury"

\* The handler answers, or raises, which counts as FAILED.
Handled(s, answer) ==
    /\ slot[s].at = "handle"
    /\ LET job == InHand(s).job
           attempt == InHand(s).attempt
       IN  /\ answered' = IF answer \in {"COMPLETED", "CANCELLED"} THEN answered \cup {job}
                          ELSE answered
           /\ refused' = IF answer = "REFUSED" THEN refused \cup {job} ELSE refused
           /\ failed' = IF answer = "FAILED" THEN [failed EXCEPT ![job] = @ \cup {attempt}]
                        ELSE failed
           /\ slot' = [slot EXCEPT ![s] = IF AfterAnswer(answer, InHand(s)) = "idle" THEN IdleSlot
                                          ELSE [@ EXCEPT !.at = AfterAnswer(answer, InHand(s))]]
    /\ UNCHANGED <<messages, delivery, delivered, pulling, accepted, buried, mishaps>>

\* An exception leaves the message unacknowledged.
Republish(s) ==
    /\ slot[s].at = "republish"
    /\ LET job == InHand(s).job
           attempt == InHand(s).attempt + 1
       IN  \/ Send(job, attempt) /\ slot' = [slot EXCEPT ![s].at = "ack"] /\ UNCHANGED mishaps
           \/ SendFails(job, attempt) /\ slot' = [slot EXCEPT ![s] = IdleSlot]
    /\ UNCHANGED <<pulling, accepted, outcomes, buried>>

Bury(s) ==
    /\ slot[s].at = "bury"
    /\ \/ /\ buried' = buried \cup {InHand(s).job}
          /\ slot' = [slot EXCEPT ![s].at = "ack"] /\ UNCHANGED mishaps
       \/ /\ Mishap
          /\ buried' \in {buried, buried \cup {InHand(s).job}}
          /\ slot' = [slot EXCEPT ![s] = IdleSlot]
    /\ UNCHANGED <<messages, delivery, delivered, pulling, accepted, outcomes>>

\* An acknowledgement that is late, or raises, may have no effect; and it has none on a
\* message that is dead-lettered.
Ack(s) ==
    /\ slot[s].at = "ack"
    /\ LET acked == [delivery EXCEPT ![slot[s].msg] = IF @ = "expired" THEN @ ELSE "acked"]
       IN  \/ delivery' = acked /\ UNCHANGED mishaps
           \/ ~slot[s].current /\ UNCHANGED <<delivery, mishaps>>
           \/ delivery' \in {delivery, acked} /\ Mishap
    /\ slot' = [slot EXCEPT ![s] = IdleSlot]
    /\ UNCHANGED <<messages, delivered, pulling, accepted, outcomes, buried>>

ConsumerNext ==
    \/ \E j \in Jobs : PublishJob(j)
    \/ PublishMalformed
    \/ StartPool
    \/ StopPool
    \/ \E i \in DOMAIN messages : Lapse(i) \/ \E s \in Slots : Pull(s, i)
    \/ \E s \in Slots :
          \/ \E answer \in HandlerAnswers : Handled(s, answer)
          \/ Republish(s)
          \/ Bury(s)
          \/ Ack(s)

ConsumerSpec == ConsumerInit /\ [][ConsumerNext]_consumerVars

\* A job has an attempt, and the one that is published is not past the last.
TransportConstants ==
    /\ FirstAttempt \in [Jobs -> Nat \ {0}] /\ LastAttempt \in [Jobs -> Nat]
    /\ \A j \in Jobs : FirstAttempt[j] =< LastAttempt[j]
    /\ MaxDeliveries \in Nat \ {0}
    /\ MaxMishaps \in Nat
    /\ MalformedJob \notin Jobs

-------------------------------------------------------------------------------
ConsumerTypeOK ==
    /\ messages \in Seq([job : Jobs \cup {MalformedJob}, attempt : Nat \ {0}])
    /\ \A i \in DOMAIN messages :
          messages[i].job \in Jobs => messages[i].attempt \in AttemptsAt(messages[i].job)
    /\ delivery \in [DOMAIN messages -> {"ready", "out", "acked", "expired"}]
    /\ delivered \in [DOMAIN messages -> 0..MaxDeliveries]
    /\ \A s \in Slots :
          \/ slot[s] = IdleSlot
          \/ /\ slot[s].at \in {"handle", "republish", "bury", "ack"}
             /\ slot[s].msg \in DOMAIN messages
    /\ pulling \in BOOLEAN
    /\ accepted \cup answered \cup refused \cup buried \subseteq Jobs
    /\ failed \in [Jobs -> SUBSET (Nat \ {0})]
    /\ \A j \in Jobs : failed[j] \subseteq AttemptsAt(j)
    /\ mishaps \in 0..MaxMishaps

MessagesOf(j) == {i \in DOMAIN messages : messages[i].job = j}
Waiting(j) == \E i \in MessagesOf(j) : delivery[i] \in {"ready", "out"}

\* Whatever call fails and wherever the pool is stopped, a job that was published is
\* answered for good, is dead-lettered, or has a message that is not done with; and a job
\* is only dead-lettered after each attempt from the one it was published with to its last
\* failed, or one of them for good, or a message of it was delivered MaxDeliveries times.
NoJobIsLost ==
    /\ \A j \in accepted : j \in answered \/ j \in buried \/ Waiting(j)
    /\ \A j \in buried :
          \/ j \in refused
          \/ failed[j] = AttemptsAt(j)
          \/ \E i \in MessagesOf(j) : delivered[i] = MaxDeliveries

\* What is known of a job: whether it is answered for good, dead-lettered, still to be
\* delivered, accepted and yet nowhere, or not there.
Stage(j) ==
    CASE j \in answered -> "answered"
      [] j \in buried \ answered -> "dead"
      [] j \notin answered \cup buried /\ Waiting(j) -> "owed"
      [] j \in accepted \ (answered \cup buried) /\ ~Waiting(j) -> "lost"
      [] OTHER -> "none"

\* The numbers of deliveries that a message of the job has reached.
DeliveriesOf(j) == UNION {1..delivered[i] : i \in MessagesOf(j)}

\* The transport is a job queue that loses nothing: however its calls fail, and whenever
\* messages come back, each job is followed from its publication to its answer or, after
\* its attempts in their order or the deliveries it is allowed, to the dead-letter topic.
AtLeastOnce == INSTANCE JobQueue WITH
    Lossy <- FALSE,
    stage <- [j \in Jobs |-> Stage(j)],
    failed <- [j \in Jobs |-> IF j \in answered THEN {} ELSE failed[j]],
    refused <- refused \ answered,
    deliveries <- [j \in Jobs |-> IF j \in answered THEN {} ELSE DeliveriesOf(j)]

AtLeastOnceSpec == AtLeastOnce!Spec
===============================================================================

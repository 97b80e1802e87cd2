------------------------------- MODULE JobQueue -------------------------------
(***************************************************************************)
(* What a transport of jobs promises, without messages, slots or leases: a *)
(* job that was published is owed an answer until it gets one or is        *)
(* dead-lettered; it is dead-lettered only when its attempts, which are    *)
(* made in order, have all failed, a handler refused it for good, or it    *)
(* was delivered as often as is allowed; and no job is lost, unless the    *)
(* queue is one that may lose jobs.                                        *)
(***************************************************************************)
EXTENDS Naturals

CONSTANTS Jobs,
          FirstAttempt, LastAttempt, \* of each job
          MaxDeliveries,
          Lossy                      \* whether jobs may be lost

VARIABLES stage,       \* of each job: "none", "owed", "answered", "dead" or "lost"
          failed,      \* the attempts of each job that failed, until it is answered
          refused,     \* jobs that a handler refused for good
          deliveries   \* the numbers of deliveries each job reached, until it is answered

Attempts(j) == FirstAttempt[j]..LastAttempt[j]

Init ==
    /\ stage = [j \in Jobs |-> "none"]
    /\ failed = [j \in Jobs |-> {}]
    /\ refused = {}
    /\ deliveries = [j \in Jobs |-> {}]

Goes(j, s) == stage' = [stage EXCEPT ![j] = s]

Publish(j) ==
    /\ stage[j] = "none" /\ Goes(j, "owed")
    /\ UNCHANGED <<failed, refused, deliveries>>

\* Transports deliver at least once: a job that is dead already may be tried again.
Deliver(j) ==
    /\ stage[j] \in {"owed", "dead"}
    /\ \E n \in 1..MaxDeliveries :
          /\ 1..n - 1 \subseteq deliveries[j]
          /\ deliveries' = [deliveries EXCEPT ![j] = @ \cup {n}]
    /\ UNCHANGED <<stage, failed, refused>>

\* An attempt fails, of those that the earlier ones' failures call for, or for good.
Failing(j) ==
    \/ /\ \E n \in Attempts(j) :
             /\ \A m \in FirstAttempt[j]..n - 1 : m \in failed[j]
             /\ failed' = [failed EXCEPT ![j] = @ \cup {n}]
       /\ UNCHANGED refused
    \/ refused' = refused \cup {j} /\ UNCHANGED failed

Fail(j) ==
    /\ stage[j] \in {"owed", "dead"} /\ Failing(j)
    /\ UNCHANGED <<stage, deliveries>>

Bury(j) ==
    /\ stage[j] = "owed" /\ Goes(j, "dead")
    /\ Failing(j) \/ UNCHANGED <<failed, refused>>
    /\ j \in refused' \/ failed'[j] = Attempts(j) \/ deliveries[j] = 1..MaxDeliveries
    /\ UNCHANGED deliveries

\* A handler completes the job or finds it cancelled, and what it failed at before does
\* not matter any more, nor how often it was delivered.
Close(j) ==
    /\ stage[j] \in {"owed", "dead"} /\ Goes(j, "answered")
    /\ failed' = [failed EXCEPT ![j] = {}]
    /\ refused' = refused \ {j}
    /\ deliveries' = [deliveries EXCEPT ![j] = {}]

Lose(S) ==
    /\ Lossy
    /\ \A j \in S : stage[j] = "owed"
    /\ stage' = [j \in Jobs |-> IF j \in S THEN "lost" ELSE stage[j]]
    /\ failed' = [j \in Jobs |-> IF j \in S THEN {} ELSE failed[j]]
    /\ refused' = refused \ S
    /\ deliveries' = [j \in Jobs |-> IF j \in S THEN {} ELSE deliveries[j]]

Next ==
    \/ \E j \in Jobs : Publish(j) \/ Deliver(j) \/ Fail(j) \/ Bury(j) \/ Close(j)
    \/ \E S \in SUBSET Jobs : Lose(S)

Spec == Init /\ [][Next]_<<stage, failed, refused, deliveries>>
===============================================================================

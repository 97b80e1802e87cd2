---------------------------- MODULE ExecutorProofs ----------------------------
(***************************************************************************)
(* Theorems about the executor, for every set of plans, every concurrency  *)
(* limit, every retry policy and any number of faults.                     *)
(*                                                                         *)
(* That a started task's prerequisites are completed is inductive only     *)
(* together with the records never leaving COMPLETED, which rests on the   *)
(* coroutines: one that will still write a record finds it SCHEDULED or    *)
(* IN_PROGRESS.  The checkpoint adds that what is stored, what is being    *)
(* saved and what the scheduler holds only ever grow, in that order.       *)
(***************************************************************************)
EXTENDS Executor, TLAPS

\* A coroutine that has not returned finds its record as it left it.
RoutinesMatchRecords ==
    \A t \in Tasks : /\ routine[t] \in {"queued", "backoff"} => records[t] = "SCHEDULED"
                     /\ routine[t] = "executing" => records[t] = "IN_PROGRESS"

\* A coroutine sleeps only if it has an attempt left.
AttemptsAreLeft ==
    \A t \in Tasks : routine[t] = "backoff" => attempt[t] < MaxAttempts

\* What is stored is contained in what is being saved, and that in the records.
CheckpointsGrow ==
    /\ stored # NoCheckpoint => CompletedIn(stored) \subseteq CompletedIn(records)
    /\ loop = "save" =>
          /\ snapshot # NoCheckpoint
          /\ DependenciesFirst(snapshot)
          /\ CompletedIn(snapshot) \subseteq CompletedIn(records)
          /\ stored # NoCheckpoint => CompletedIn(stored) \subseteq CompletedIn(snapshot)

\* A worker that is down has no coroutines.
DownIsEmpty == loop = "down" => \A t \in Tasks : routine[t] = "none"

\* There is no result while the loop runs.
ResultComesLast == loop \in {"top", "wait", "save"} => result = "none"

IInv ==
    /\ TypeOK
    /\ RoutinesMatchRecords
    /\ AttemptsAreLeft
    /\ StartedAfterDependencies
    /\ CheckpointsGrow
    /\ DownIsEmpty
    /\ ResultComesLast
    /\ NothingLeftRunning

-------------------------------------------------------------------------------
\* A plan of Plans has a dependency set and an attempt limit for each task.
LEMMA PlansType ==
    ASSUME NEW p \in Plans
    PROVE  /\ p.deps \in [Tasks -> SUBSET Tasks]
           /\ p.retries \in [Tasks -> Nat]
  BY PlansAssumption

\* The head of the attempt loop writes only task t, leaves types and attempts right,
\* and leaves the coroutine with its record.
LEMMA BeginAttemptType ==
    ASSUME TypeOK, NEW t \in Tasks, NEW n \in 1..MaxAttempts, BeginAttempt(t, n)
    PROVE  /\ records' \in [Tasks -> Statuses]
           /\ routine' \in [Tasks -> Suspended \cup Verdicts \cup {"none"}]
           /\ attempt' \in [Tasks -> 0..MaxAttempts]
           /\ routine'[t] \in Verdicts \cup {"executing"}
           /\ routine'[t] = "executing" => records'[t] = "IN_PROGRESS"
           /\ records'[t] \in {records[t], "CANCELLED", "IN_PROGRESS"}
           /\ \A u \in Tasks \ {t} : /\ records'[u] = records[u]
                                     /\ routine'[u] = routine[u]
                                     /\ attempt'[u] = attempt[u]
  BY LimitsAssumption, PlansType
  DEF TypeOK, BeginAttempt, Return, Mark, Statuses, Suspended, Verdicts

\* A failing attempt writes only task t.
LEMMA FailType ==
    ASSUME TypeOK, NEW t \in Tasks, NEW retryable \in BOOLEAN, Fail(t, retryable)
    PROVE  /\ records' \in [Tasks -> Statuses]
           /\ routine' \in [Tasks -> Suspended \cup Verdicts \cup {"none"}]
           /\ attempt' \in [Tasks -> 0..MaxAttempts]
           /\ \/ routine'[t] = "failed" /\ records'[t] = "FAILED"
              \/ /\ routine'[t] = "backoff" /\ records'[t] = "SCHEDULED"
                 /\ attempt'[t] < MaxAttempts
           /\ \A u \in Tasks \ {t} : /\ records'[u] = records[u]
                                     /\ routine'[u] = routine[u]
                                     /\ attempt'[u] = attempt[u]
           /\ budget' \in [Faults -> Nat]
  BY LimitsAssumption
  DEF TypeOK, Fail, ShouldRetry, Return, Mark, Spend, Faults, Statuses, Suspended, Verdicts

\* An attempt number that a coroutine begins with is within the policy's.
LEMMA AttemptNumbers ==
    ASSUME IInv, NEW t \in Tasks
    PROVE  /\ 1 \in 1..MaxAttempts
           /\ routine[t] = "backoff" => attempt[t] + 1 \in 1..MaxAttempts
  BY LimitsAssumption DEF IInv, TypeOK, AttemptsAreLeft

\* The result is a stage.
LEMMA FinalStageType ==
    ASSUME NEW recs
    PROVE  FinalStage(recs) \in {"COMPLETED", "FAILED", "CANCELLED"}
  BY DEF FinalStage

-------------------------------------------------------------------------------
\* Every step keeps the types.
LEMMA NextTypeOK == IInv /\ [Next]_vars => TypeOK'
<1> SUFFICES ASSUME IInv, [Next]_vars PROVE TypeOK'
  OBVIOUS
<1> USE DEF IInv
<1>1. CASE UNCHANGED vars
  BY <1>1 DEF TypeOK, vars
<1>2. CASE Finish \/ GiveUp
  BY <1>2, FinalStageType DEF TypeOK, Finish, GiveUp, Stop
<1>3. CASE Abort
  BY <1>3, FinalStageType, LimitsAssumption DEF TypeOK, Abort, Stop, Statuses
<1>4. CASE Schedule
  BY <1>4 DEF TypeOK, Schedule, Statuses, Suspended
<1>5. CASE CollectResults
  BY <1>5 DEF TypeOK, CollectResults, Returned
<1>6. CASE CollectRaised
  BY <1>6, FinalStageType DEF TypeOK, CollectRaised, Stop, Returned
<1>7. CASE SaveCheckpoint
  BY <1>7 DEF TypeOK, SaveCheckpoint
<1>8. CASE SaveFails
  BY <1>8, FinalStageType DEF TypeOK, SaveFails, Stop, Spend, Faults
<1>9. ASSUME NEW t \in Tasks, Start(t) PROVE TypeOK'
  <2>1. BeginAttempt(t, 1)
    BY <1>9 DEF Start
  <2>2. QED
    BY <1>9, <2>1, AttemptNumbers, BeginAttemptType DEF TypeOK, Start
<1>10. ASSUME NEW t \in Tasks, Wake(t) PROVE TypeOK'
  <2>1. routine[t] = "backoff" /\ BeginAttempt(t, attempt[t] + 1)
    BY <1>10 DEF Wake
  <2>2. QED
    BY <1>10, <2>1, AttemptNumbers, BeginAttemptType DEF TypeOK, Wake
<1>11. ASSUME NEW t \in Tasks, Complete(t) PROVE TypeOK'
  BY <1>11, LimitsAssumption DEF TypeOK, Complete, Mark, Return, Statuses, Verdicts
<1>12. ASSUME NEW t \in Tasks, NEW retryable \in BOOLEAN, Fail(t, retryable) PROVE TypeOK'
  <2>1. UNCHANGED <<plan, loop, outputs, snapshot, stored, token, result>>
    BY <1>12 DEF Fail
  <2>2. QED
    BY <1>12, <2>1, FailType DEF TypeOK
<1>13. CASE Cancel
  BY <1>13 DEF TypeOK, Cancel, Spend, Faults
<1>14. CASE Crash
  BY <1>14, LimitsAssumption DEF TypeOK, Crash, Spend, Faults
<1>15. CASE Resume
  BY <1>15 DEF TypeOK, Resume, Resumed, Fresh, Statuses
<1>16. QED
  BY <1>1, <1>2, <1>3, <1>4, <1>5, <1>6, <1>7, <1>8, <1>9, <1>10, <1>11, <1>12,
     <1>13, <1>14, <1>15
  DEF Next, Loop, Routine

-------------------------------------------------------------------------------
\* Every step keeps the coroutines with their records.
LEMMA NextRoutinesMatchRecords == IInv /\ [Next]_vars => RoutinesMatchRecords'
<1> SUFFICES ASSUME IInv, [Next]_vars PROVE RoutinesMatchRecords'
  OBVIOUS
<1> USE DEF IInv, RoutinesMatchRecords
<1>1. CASE UNCHANGED <<records, routine>>
  BY <1>1
<1>2. CASE Abort \/ Crash
  BY <1>2 DEF Abort, Crash
<1>3. CASE Schedule
  BY <1>3 DEF Schedule, Runnable
<1>4. CASE CollectResults
  BY <1>4 DEF CollectResults
<1>5. CASE CollectRaised
  BY <1>5 DEF CollectRaised
<1>6. ASSUME NEW t \in Tasks, Start(t) PROVE RoutinesMatchRecords'
  <2>1. BeginAttempt(t, 1)
    BY <1>6 DEF Start
  <2>2. QED
    BY <2>1, AttemptNumbers, BeginAttemptType DEF Verdicts
<1>7. ASSUME NEW t \in Tasks, Wake(t) PROVE RoutinesMatchRecords'
  <2>1. routine[t] = "backoff" /\ BeginAttempt(t, attempt[t] + 1)
    BY <1>7 DEF Wake
  <2>2. QED
    BY <2>1, AttemptNumbers, BeginAttemptType DEF Verdicts
<1>8. ASSUME NEW t \in Tasks, Complete(t) PROVE RoutinesMatchRecords'
  BY <1>8 DEF TypeOK, Complete, Mark, Return
<1>9. ASSUME NEW t \in Tasks, NEW retryable \in BOOLEAN, Fail(t, retryable)
      PROVE  RoutinesMatchRecords'
  BY <1>9, FailType
<1>10. CASE Resume
  BY <1>10 DEF Resume, DownIsEmpty
<1>11. QED
  BY <1>1, <1>2, <1>3, <1>4, <1>5, <1>6, <1>7, <1>8, <1>9, <1>10
  DEF Next, Loop, Routine, vars, Finish, GiveUp, SaveCheckpoint, SaveFails, Cancel

\* Every step keeps an attempt for the coroutines that sleep.
LEMMA NextAttemptsAreLeft == IInv /\ [Next]_vars => AttemptsAreLeft'
<1> SUFFICES ASSUME IInv, [Next]_vars PROVE AttemptsAreLeft'
  OBVIOUS
<1> USE DEF IInv, AttemptsAreLeft
<1>1. CASE UNCHANGED <<routine, attempt>>
  BY <1>1
<1>2. CASE Abort \/ Crash
  BY <1>2 DEF Abort, Crash
<1>3. CASE Schedule \/ CollectResults
  BY <1>3 DEF Schedule, CollectResults
<1>4. CASE CollectRaised
  BY <1>4 DEF CollectRaised
<1>5. ASSUME NEW t \in Tasks, Start(t) \/ Wake(t) PROVE AttemptsAreLeft'
  <2>1. PICK n \in 1..MaxAttempts : BeginAttempt(t, n)
    BY <1>5, AttemptNumbers DEF Start, Wake
  <2>2. QED
    BY <2>1, BeginAttemptType DEF Verdicts
<1>6. ASSUME NEW t \in Tasks, Complete(t) PROVE AttemptsAreLeft'
  BY <1>6 DEF TypeOK, Complete, Return
<1>7. ASSUME NEW t \in Tasks, NEW retryable \in BOOLEAN, Fail(t, retryable)
      PROVE  AttemptsAreLeft'
  BY <1>7, FailType
<1>8. QED
  BY <1>1, <1>2, <1>3, <1>4, <1>5, <1>6, <1>7
  DEF Next, Loop, Routine, vars, Finish, GiveUp, SaveCheckpoint, SaveFails, Cancel, Resume

\* Every step keeps a worker that is down empty, and results for the end of the loop.
LEMMA NextLoopEnds == IInv /\ [Next]_vars => (DownIsEmpty /\ ResultComesLast)'
<1> SUFFICES ASSUME IInv, [Next]_vars PROVE (DownIsEmpty /\ ResultComesLast)'
  OBVIOUS
<1> USE DEF IInv, DownIsEmpty, ResultComesLast
<1>1. CASE UNCHANGED vars
  BY <1>1 DEF vars
<1>2. CASE Finish \/ Abort \/ GiveUp \/ CollectRaised \/ SaveFails
  BY <1>2 DEF Finish, Abort, GiveUp, CollectRaised, SaveFails, Stop
<1>3. CASE Schedule \/ CollectResults \/ SaveCheckpoint
  BY <1>3 DEF Schedule, CollectResults, SaveCheckpoint
<1>4. ASSUME NEW t \in Tasks, Routine(t) PROVE (DownIsEmpty /\ ResultComesLast)'
  BY <1>4 DEF Routine, Start, Wake, Complete, Fail
<1>5. CASE Cancel \/ Crash \/ Resume
  BY <1>5 DEF Cancel, Crash, Resume
<1>6. QED
  BY <1>1, <1>2, <1>3, <1>4, <1>5 DEF Next, Loop

\* Every step keeps the coroutines of an ended loop returned.  The loop ends without
\* an exception only where no record is active, where nothing is running, or by
\* cancelling what runs.
LEMMA NextNothingLeftRunning == IInv /\ [Next]_vars => NothingLeftRunning'
<1> SUFFICES ASSUME IInv, [Next]_vars PROVE NothingLeftRunning'
  OBVIOUS
<1> USE DEF IInv, NothingLeftRunning
<1>1. CASE UNCHANGED vars
  BY <1>1 DEF vars
<1>2. CASE Finish
  BY <1>2 DEF Finish, Stop, AllCompleted, CompletedIn, RoutinesMatchRecords, Suspended
<1>3. CASE Abort
  BY <1>3 DEF Abort, Suspended
<1>4. CASE GiveUp
  BY <1>4 DEF GiveUp, Stop, Deadlocked, NothingLeft, Active, Running,
              RoutinesMatchRecords, Suspended
<1>5. CASE Schedule \/ CollectResults \/ CollectRaised \/ SaveCheckpoint \/ SaveFails
  BY <1>5 DEF Schedule, CollectResults, CollectRaised, SaveCheckpoint, SaveFails, Stop
<1>6. ASSUME NEW t \in Tasks, Routine(t) PROVE NothingLeftRunning'
  \* The coroutine that takes the step is suspended before it: the loop has not ended.
  BY <1>6 DEF Routine, Start, Wake, Complete, Fail, Suspended
<1>7. CASE Cancel \/ Crash \/ Resume
  BY <1>7 DEF Cancel, Crash, Resume
<1>8. QED
  BY <1>1, <1>2, <1>3, <1>4, <1>5, <1>6, <1>7 DEF Next, Loop

-------------------------------------------------------------------------------
\* No step but a resumption takes a completed task back, and a step moves a task out
\* of PENDING or CANCELLED only where its prerequisites are completed.
LEMMA NextKeepsCompleted ==
    IInv /\ [Next]_vars /\ ~Resume =>
        /\ CompletedIn(records) \subseteq CompletedIn(records')
        /\ \A t \in Tasks : /\ records[t] \in {"PENDING", "CANCELLED"}
                            /\ records'[t] \notin {"PENDING", "CANCELLED"}
                            => plan.deps[t] \subseteq CompletedIn(records)
<1> DEFINE Keeps ==
        /\ CompletedIn(records) \subseteq CompletedIn(records')
        /\ \A t \in Tasks : /\ records[t] \in {"PENDING", "CANCELLED"}
                            /\ records'[t] \notin {"PENDING", "CANCELLED"}
                            => plan.deps[t] \subseteq CompletedIn(records)
<1> SUFFICES ASSUME IInv, [Next]_vars, ~Resume PROVE Keeps
  OBVIOUS
<1> USE DEF IInv
<1>1. CASE UNCHANGED records
  BY <1>1
<1>2. CASE Abort
  BY <1>2 DEF Abort, CompletedIn
<1>3. CASE Schedule
  BY <1>3 DEF Schedule, Runnable, CompletedIn
<1>4. ASSUME NEW t \in Tasks, Start(t) \/ Wake(t) PROVE Keeps
  <2>1. PICK n \in 1..MaxAttempts : BeginAttempt(t, n)
    BY <1>4, AttemptNumbers DEF Start, Wake
  <2>2. records[t] = "SCHEDULED"
    BY <1>4 DEF Start, Wake, RoutinesMatchRecords
  <2>3. QED
    BY <2>1, <2>2, BeginAttemptType DEF CompletedIn
<1>5. ASSUME NEW t \in Tasks, Complete(t) PROVE Keeps
  BY <1>5 DEF TypeOK, Complete, Mark, CompletedIn, RoutinesMatchRecords
<1>6. ASSUME NEW t \in Tasks, NEW retryable \in BOOLEAN, Fail(t, retryable) PROVE Keeps
  <2>1. records[t] = "IN_PROGRESS"
    BY <1>6 DEF Fail, RoutinesMatchRecords
  <2>2. QED
    BY <1>6, <2>1, FailType DEF CompletedIn
<1>7. QED
  BY <1>1, <1>2, <1>3, <1>4, <1>5, <1>6
  DEF Next, Loop, Routine, vars, Finish, GiveUp, CollectResults, CollectRaised,
      SaveCheckpoint, SaveFails, Cancel, Crash

\* The plan is the same in every step.
LEMMA PlanStays == [Next]_vars => plan' = plan
  BY DEF Next, Loop, Routine, vars, Finish, Abort, GiveUp, Schedule, CollectResults,
         CollectRaised, SaveCheckpoint, SaveFails, Start, Wake, Complete, Fail, Cancel,
         Crash, Resume

\* Records in which nothing was started have no dependencies to show.
LEMMA FreshDependencies == DependenciesFirst(Fresh) /\ CompletedIn(Fresh) = {}
  BY DEF DependenciesFirst, Fresh, CompletedIn

\* Every step keeps the prerequisites of started tasks completed, in the records.
LEMMA NextDependenciesFirst == IInv /\ [Next]_vars => DependenciesFirst(records)'
<1> SUFFICES ASSUME IInv, [Next]_vars PROVE DependenciesFirst(records)'
  OBVIOUS
<1>1. plan' = plan
  BY PlanStays
<1>2. CASE Resume
  BY <1>1, <1>2, FreshDependencies
  DEF IInv, Resume, Resumed, StartedAfterDependencies, DependenciesFirst
<1>3. CASE ~Resume
  BY <1>1, <1>3, NextKeepsCompleted
  DEF IInv, StartedAfterDependencies, DependenciesFirst
<1>4. QED
  BY <1>2, <1>3

\* Every step keeps what is stored within what is being saved, and that within the
\* records.
LEMMA NextCheckpointsGrow ==
    IInv /\ [Next]_vars =>
        CheckpointsGrow' /\ (stored' # NoCheckpoint => DependenciesFirst(stored)')
<1> DEFINE Goal == CheckpointsGrow' /\ (stored' # NoCheckpoint => DependenciesFirst(stored)')
<1> SUFFICES ASSUME IInv, [Next]_vars PROVE Goal
  OBVIOUS
<1> USE DEF IInv, CheckpointsGrow, StartedAfterDependencies, DependenciesFirst
<1>1. plan' = plan
  BY PlanStays
<1>2. CASE CollectResults
  \* The snapshot is the records, which are of another type than NoCheckpoint.
  BY <1>1, <1>2, NoCheckpointAssumption DEF TypeOK, CollectResults
<1>3. CASE SaveCheckpoint
  BY <1>1, <1>3 DEF SaveCheckpoint
<1>4. CASE Resume
  BY <1>1, <1>4 DEF Resume, Resumed
<1>5. CASE /\ stored' = stored
           /\ loop' = "save" => loop = "save" /\ snapshot' = snapshot
           /\ ~Resume
  BY <1>1, <1>5, NextKeepsCompleted
<1>6. QED
  BY <1>2, <1>3, <1>4, <1>5
  DEF Next, Loop, Routine, vars, Finish, Abort, GiveUp, Schedule, CollectRaised,
      SaveFails, Stop, Start, Wake, Complete, Fail, Cancel, Crash

-------------------------------------------------------------------------------
\* The initial state satisfies the inductive invariant.
LEMMA InitIInv == Init => IInv
<1> SUFFICES ASSUME Init PROVE IInv
  OBVIOUS
<1>1. TypeOK
  <2>1. records \in [Tasks -> Statuses] /\ attempt \in [Tasks -> 0..MaxAttempts]
    BY LimitsAssumption DEF Init, Fresh, Statuses
  <2>2. token \in BOOLEAN
    BY Zenon DEF Init
  <2>3. QED
    BY <2>1, <2>2, LimitsAssumption DEF Init, TypeOK
<1>2. StartedAfterDependencies
  BY FreshDependencies DEF Init, StartedAfterDependencies
<1>3. QED
  BY <1>1, <1>2
  DEF Init, IInv, RoutinesMatchRecords, AttemptsAreLeft, CheckpointsGrow, DownIsEmpty,
      ResultComesLast, NothingLeftRunning

\* The inductive invariant is one.
LEMMA NextIInv == IInv /\ [Next]_vars => IInv'
  BY NextTypeOK, NextRoutinesMatchRecords, NextAttemptsAreLeft, NextLoopEnds,
     NextNothingLeftRunning, NextDependenciesFirst, NextCheckpointsGrow
  DEF IInv, StartedAfterDependencies

\* The inductive invariant holds in every reachable state.
LEMMA SpecIInv == Spec => []IInv
  BY InitIInv, NextIInv, PTL DEF Spec

-------------------------------------------------------------------------------
\* The variables have their types in every state.
THEOREM TypeCorrectness == Spec => []TypeOK
<1>1. IInv => TypeOK
  BY DEF IInv
<1>2. QED
  BY <1>1, SpecIInv, PTL

\* In the records and in the checkpoint, the prerequisites of every started task are
\* completed: through failures, retries, cancellation, crashes and resumptions.
THEOREM StartsAfterDependencies == Spec => []StartedAfterDependencies
<1>1. IInv => StartedAfterDependencies
  BY DEF IInv
<1>2. QED
  BY <1>1, SpecIInv, PTL

\* An execution that ends other than by an exception leaves no coroutine suspended.
THEOREM NothingKeepsRunning == Spec => []NothingLeftRunning
<1>1. IInv => NothingLeftRunning
  BY DEF IInv
<1>2. QED
  BY <1>1, SpecIInv, PTL

\* No coroutine ever marks its task against the transition table.
THEOREM MarksAreAllLegal == Spec => MarksAreLegal
<1>1. ASSUME IInv PROVE MarksStep
  BY <1>1 DEF IInv, RoutinesMatchRecords, MarksStep, AllowedTransitions
<1>2. QED
  BY <1>1, SpecIInv, PTL DEF Spec, MarksAreLegal

\* The tasks that t depends on are closed under dependencies.
LEMMA AncestorsAreClosed ==
    ASSUME NEW t \in Tasks, plan.deps \in [Tasks -> SUBSET Tasks]
    PROVE  /\ Ancestors(t) \subseteq Tasks
           /\ plan.deps[t] \subseteq Ancestors(t)
           /\ \A n \in Ancestors(t) : plan.deps[n] \subseteq Ancestors(t)
<1>1. ASSUME NEW n \in Ancestors(t), NEW d \in plan.deps[n]
      PROVE  d \in Ancestors(t)
  <2>1. n \in Tasks /\ d \in Tasks
    BY DEF Ancestors
  <2>2. ASSUME NEW S \in SUBSET Tasks, plan.deps[t] \subseteq S,
               \A s \in S : plan.deps[s] \subseteq S
        PROVE  d \in S
    BY <2>2 DEF Ancestors
  <2> QED
    BY <2>1, <2>2 DEF Ancestors
<1>2. plan.deps[t] \subseteq Ancestors(t)
  BY DEF Ancestors
<1>3. Ancestors(t) \subseteq Tasks
  BY DEF Ancestors
<1> QED
  BY <1>1, <1>2, <1>3

\* Where nothing can be scheduled, a pending task is downstream of one that did not
\* complete: of the pending tasks among it and its ancestors, one waits for none of
\* them, and would be runnable if all the others had completed.
LEMMA PendingIsDownstream ==
    ASSUME TypeOK, Runnable = {}, NEW t \in Tasks, records[t] = "PENDING"
    PROVE  \E a \in Ancestors(t) : records[a] \notin {"PENDING", "COMPLETED"}
<1> SUFFICES ASSUME \A a \in Ancestors(t) : records[a] \in {"PENDING", "COMPLETED"}
             PROVE  FALSE
  OBVIOUS
<1> DEFINE S == {n \in {t} \cup Ancestors(t) : records[n] = "PENDING"}
<1>1. plan.deps \in [Tasks -> SUBSET Tasks] /\ Acyclic(plan.deps)
  BY PlansAssumption DEF TypeOK
<1>2. /\ Ancestors(t) \subseteq Tasks
      /\ plan.deps[t] \subseteq Ancestors(t)
      /\ \A n \in Ancestors(t) : plan.deps[n] \subseteq Ancestors(t)
  BY <1>1, AncestorsAreClosed
<1>3. S \in SUBSET Tasks /\ S # {}
  BY <1>2
<1>4. PICK n \in S : plan.deps[n] \cap S = {}
  BY <1>1, <1>3 DEF Acyclic
<1>5. plan.deps[n] \subseteq Ancestors(t)
  BY <1>2, <1>4
<1>6. plan.deps[n] \subseteq CompletedIn(records)
  BY <1>2, <1>4, <1>5 DEF CompletedIn
<1>7. n \in Runnable
  BY <1>3, <1>4, <1>6 DEF Runnable
<1> QED
  BY <1>7

\* Every step keeps failures contained: the loop ends by itself only with everything
\* completed, cancelled, or with nothing runnable, and its records stay as they are.
LEMMA NextFailureIsContained ==
    IInv /\ FailureIsContained /\ [Next]_vars => FailureIsContained'
<1> SUFFICES ASSUME IInv, FailureIsContained, [Next]_vars PROVE FailureIsContained'
  OBVIOUS
<1>1. plan' = plan
  BY PlanStays
<1>2. CASE Finish
  BY <1>2 DEF Finish, AllCompleted, CompletedIn, FailureIsContained
<1>3. CASE Abort
  BY <1>3 DEF Abort, FailureIsContained
<1>4. CASE GiveUp
  <2>1. Runnable = {} /\ records' = records
    BY <1>4 DEF GiveUp, Deadlocked, NothingLeft
  <2> QED
    BY <1>1, <2>1, PendingIsDownstream DEF IInv, FailureIsContained, Ancestors
<1>5. CASE loop' = "ended" => loop = "ended" /\ records' = records
  BY <1>1, <1>5 DEF FailureIsContained, Ancestors
<1>6. ASSUME NEW t \in Tasks, Routine(t), loop = "ended"
      PROVE  FALSE
  BY <1>6 DEF IInv, NothingLeftRunning, Routine, Start, Wake, Complete, Fail, Suspended
<1>7. ASSUME NEW t \in Tasks, Routine(t)
      PROVE  loop' = loop
  BY <1>7 DEF Routine, Start, Wake, Complete, Fail
<1> QED
  BY <1>2, <1>3, <1>4, <1>5, <1>6, <1>7
  DEF Next, Loop, vars, Schedule, CollectResults, CollectRaised, SaveCheckpoint, SaveFails,
      Stop, Cancel, Crash, Resume

\* What an ended execution left untouched is downstream of a task that did not complete:
\* every branch that is independent of the failures was executed.
THEOREM FailuresAreContained == Spec => []FailureIsContained
<1>1. Init => FailureIsContained
  BY DEF Init, FailureIsContained
<1>2. QED
  BY <1>1, SpecIInv, NextFailureIsContained, PTL DEF Spec

\* The initial state is an initial state of the abstract execution.
LEMMA InitGraph == Init => Graph!Init
  BY PlansType, FreshDependencies DEF Init, Graph!Init

\* Only tasks whose prerequisites are completed complete, one at a time.
LEMMA CompleteIsGraphComplete ==
    ASSUME IInv, NEW t \in Tasks, Complete(t)
    PROVE  Graph!Complete(t)
<1>1. records[t] = "IN_PROGRESS"
  BY DEF IInv, Complete, RoutinesMatchRecords
<1>2. t \notin CompletedIn(records) /\ plan.deps[t] \subseteq CompletedIn(records)
  BY <1>1 DEF IInv, StartedAfterDependencies, DependenciesFirst, CompletedIn
<1>3. CompletedIn(records)' = CompletedIn(records) \cup {t}
  BY DEF IInv, TypeOK, Complete, Mark, CompletedIn
<1>4. QED
  BY <1>2, <1>3 DEF Complete, Graph!Complete

\* A checkpoint is a set of completed tasks that contains their prerequisites, and
\* the checkpoint before it.
LEMMA SaveIsGraphSave ==
    ASSUME IInv, SaveCheckpoint
    PROVE  \E S \in SUBSET CompletedIn(records) : Graph!Save(S)
<1>1. CompletedIn(snapshot) \in SUBSET CompletedIn(records)
  BY DEF IInv, SaveCheckpoint, CheckpointsGrow
<1>2. \A t \in CompletedIn(snapshot) : plan.deps[t] \subseteq CompletedIn(snapshot)
  BY DEF IInv, SaveCheckpoint, CheckpointsGrow, DependenciesFirst, CompletedIn
<1>3. snapshot # NoCheckpoint /\ stored' = snapshot
  BY DEF IInv, SaveCheckpoint, CheckpointsGrow
<1>4. stored # NoCheckpoint => CompletedIn(stored) \subseteq CompletedIn(snapshot)
  BY DEF IInv, SaveCheckpoint, CheckpointsGrow
<1>5. CompletedIn(stored') = CompletedIn(snapshot)
  BY <1>3 DEF CompletedIn
<1>6. Graph!Save(CompletedIn(snapshot))
  BY <1>1, <1>2, <1>3, <1>4, <1>5 DEF SaveCheckpoint, Graph!Save, Graph!Closed, CompletedIn
<1>7. QED
  BY <1>1, <1>6

\* An end of the loop concludes the run, and calls it complete only if it is.
LEMMA StopIsGraphConclude ==
    ASSUME IInv, NEW how, loop \in {"top", "wait", "save"}, Stop(how, records'),
           CompletedIn(records') = CompletedIn(records),
           UNCHANGED <<plan, stored>>
    PROVE  Graph!Conclude(result') /\ result' \in {"COMPLETED", "FAILED", "CANCELLED"}
<1>1. result = "none" /\ result' = FinalStage(records')
  BY DEF IInv, ResultComesLast, Stop
<1>2. result' = "COMPLETED" => CompletedIn(records) = Tasks
  BY <1>1 DEF FinalStage
<1>3. CompletedIn(records)' = CompletedIn(records)
  BY DEF CompletedIn
<1>4. (IF stored = NoCheckpoint THEN {} ELSE CompletedIn(stored))'
        = IF stored = NoCheckpoint THEN {} ELSE CompletedIn(stored)
  BY DEF CompletedIn
<1>5. QED
  BY <1>1, <1>2, <1>3, <1>4, FinalStageType DEF Graph!Conclude

\* Every step of the executor is a step of the abstract execution, or none.
LEMMA NextGraph == IInv /\ [Next]_vars => [Graph!Next]_(Graph!vars)
<1> SUFFICES ASSUME IInv, [Next]_vars PROVE [Graph!Next]_(Graph!vars)
  OBVIOUS
<1>1. CASE /\ UNCHANGED <<plan, stored, result>>
           /\ CompletedIn(records') = CompletedIn(records)
  BY <1>1 DEF Graph!vars, CompletedIn
<1>2. CASE Finish \/ GiveUp \/ CollectRaised \/ SaveFails
  <2>1. PICK how \in {"ended", "raised"} : Stop(how, records')
    BY <1>2 DEF Finish, GiveUp, CollectRaised, SaveFails
  <2>2. loop \in {"top", "wait", "save"} /\ UNCHANGED <<plan, stored, records>>
    BY <1>2 DEF Finish, GiveUp, CollectRaised, SaveFails
  <2>3. QED
    BY <2>1, <2>2, StopIsGraphConclude DEF Graph!Next
<1>3. CASE Abort
  <2>1. loop = "top" /\ Stop("ended", records') /\ UNCHANGED <<plan, stored>>
    BY <1>3 DEF Abort
  <2>2. CompletedIn(records') = CompletedIn(records)
    BY <1>3 DEF Abort, CompletedIn
  <2>3. QED
    BY <2>1, <2>2, StopIsGraphConclude DEF Graph!Next
<1>4. CASE SaveCheckpoint
  BY <1>4, SaveIsGraphSave DEF Graph!Next
<1>5. ASSUME NEW t \in Tasks, Complete(t) PROVE Graph!Next
  BY <1>5, CompleteIsGraphComplete DEF Graph!Next
<1>6. CASE Resume
  <2>1. CompletedIn(records)' = IF stored = NoCheckpoint THEN {} ELSE CompletedIn(stored)
    BY <1>6, FreshDependencies DEF Resume, Resumed, CompletedIn
  <2>2. UNCHANGED <<plan, stored>> /\ result' = "none"
    BY <1>6 DEF Resume
  <2>3. Graph!Restart
    BY <2>1, <2>2 DEF Graph!Restart, CompletedIn
  <2>4. QED
    BY <2>3 DEF Graph!Next
<1>7. CASE Schedule
  BY <1>1, <1>7 DEF Schedule, Runnable, CompletedIn
<1>8. ASSUME NEW t \in Tasks, Start(t) \/ Wake(t) PROVE [Graph!Next]_(Graph!vars)
  <2>1. PICK n \in 1..MaxAttempts : BeginAttempt(t, n)
    BY <1>8, AttemptNumbers DEF Start, Wake, IInv
  <2>2. records[t] = "SCHEDULED"
    BY <1>8 DEF Start, Wake, IInv, RoutinesMatchRecords
  <2>3. CompletedIn(records') = CompletedIn(records)
    BY <2>1, <2>2, BeginAttemptType DEF CompletedIn, IInv
  <2>4. QED
    BY <1>1, <1>8, <2>3 DEF Start, Wake
<1>9. ASSUME NEW t \in Tasks, NEW retryable \in BOOLEAN, Fail(t, retryable)
      PROVE  [Graph!Next]_(Graph!vars)
  <2>1. records[t] = "IN_PROGRESS"
    BY <1>9 DEF Fail, IInv, RoutinesMatchRecords
  <2>2. CompletedIn(records') = CompletedIn(records)
    BY <1>9, <2>1, FailType DEF CompletedIn, IInv
  <2>3. QED
    BY <1>1, <1>9, <2>2 DEF Fail
<1>10. CASE UNCHANGED vars \/ CollectResults \/ Cancel \/ Crash
  BY <1>1, <1>10 DEF vars, CollectResults, Cancel, Crash
<1>11. QED
  BY <1>2, <1>3, <1>4, <1>5, <1>6, <1>7, <1>8, <1>9, <1>10 DEF Next, Loop, Routine

\* The executor implements the abstract execution of a task graph.
THEOREM ImplementsGraphExecution == Spec => GraphExecutionSpec
  BY InitGraph, NextGraph, SpecIInv, PTL DEF Spec, GraphExecutionSpec, Graph!Spec
===============================================================================

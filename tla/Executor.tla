------------------------------- MODULE Executor -------------------------------
(***************************************************************************)
(* The execution of one research plan (orchestration/executor.py) with its *)
(* DAGScheduler (scheduler.py), RetryPolicy (retry.py), checkpoints and    *)
(* CancellationToken: the scheduler's loop and one coroutine per scheduled *)
(* task interleave on one event loop.                                      *)
(*                                                                         *)
(* An action runs from one point where its coroutine is suspended to the   *)
(* next: the semaphore, worker.execute, the backoff sleep, asyncio.wait    *)
(* and save_checkpoint.  Emitting an event and calling an observability    *)
(* hook do not suspend.  The coroutines that wait for the semaphore are    *)
(* woken in any order here, in the order of their waiting by asyncio.      *)
(***************************************************************************)
EXTENDS Integers, FiniteSets

CONSTANTS Tasks,          \* subtask ids
          Plans,          \* plans: node_dependencies and node.max_retries of each task
          MaxConcurrency, \* permits of the semaphore
          MaxAttempts,    \* RetryPolicy.max_attempts
          NoCheckpoint,   \* no checkpoint is stored
          Budget          \* bounds: crashes, failing saves, failing tasks, cancellations

Faults == {"crash", "save", "task", "cancel"}

\* DAGValidator accepts no plan with a dependency cycle: in any set of tasks some
\* task depends on none of them.
Acyclic(deps) ==
    \A S \in SUBSET Tasks : S # {} => \E t \in S : deps[t] \cap S = {}

ASSUME PlansAssumption ==
    \A p \in Plans : /\ p.deps \in [Tasks -> SUBSET Tasks]
                     /\ p.retries \in [Tasks -> Nat]
                     /\ Acyclic(p.deps)
ASSUME LimitsAssumption ==
    /\ MaxConcurrency \in Nat \ {0}
    /\ MaxAttempts \in Nat \ {0}
    /\ Budget \in [Faults -> Nat]

Statuses == {"PENDING", "SCHEDULED", "IN_PROGRESS", "COMPLETED", "FAILED", "CANCELLED"}
Suspended == {"queued", "executing", "backoff"}
Verdicts == {"completed", "failed", "cancelled", "raised"}

ASSUME NoCheckpointAssumption == NoCheckpoint \notin [Tasks -> Statuses]

VARIABLES plan,      \* the plan that is executed
          records,   \* the scheduler's task records: their status
          routine,   \* the coroutine of each task of running_tasks, or "none"
          attempt,   \* its attempt number
          loop,      \* where the scheduler's loop is
          outputs,   \* task_outputs: tasks whose result the loop has collected
          snapshot,  \* the records being saved
          stored,    \* the latest checkpoint
          token,     \* the cancellation token
          result,    \* status of the ExecutionResult, "none" before
          budget     \* faults that may still happen

vars == <<plan, records, routine, attempt, loop, outputs, snapshot, stored,
          token, result, budget>>

Fresh == [t \in Tasks |-> "PENDING"]

Init ==
    /\ plan \in Plans
    /\ records = Fresh
    /\ routine = [t \in Tasks |-> "none"]
    /\ attempt = [t \in Tasks |-> 0]
    /\ loop = "top"
    /\ outputs = {}
    /\ snapshot = NoCheckpoint
    /\ stored = NoCheckpoint
    /\ token = FALSE
    /\ result = "none"
    /\ budget = Budget

Spend(f) ==
    /\ budget[f] > 0
    /\ budget' = [budget EXCEPT ![f] = @ - 1]

-------------------------------------------------------------------------------
(* The scheduler.                                                          *)

\* validate_task_transition raises for any other (SKIPPED is written by nobody).
AllowedTransitions ==
    {<<"PENDING", "SCHEDULED">>, <<"PENDING", "CANCELLED">>,
     <<"SCHEDULED", "IN_PROGRESS">>, <<"SCHEDULED", "FAILED">>, <<"SCHEDULED", "CANCELLED">>,
     <<"IN_PROGRESS", "COMPLETED">>, <<"IN_PROGRESS", "FAILED">>, <<"IN_PROGRESS", "CANCELLED">>,
     <<"FAILED", "SCHEDULED">>}

CompletedIn(recs) == {t \in Tasks : recs[t] = "COMPLETED"}
AllCompleted == CompletedIn(records) = Tasks
IsTerminal == \A t \in Tasks : records[t] \in {"COMPLETED", "FAILED", "CANCELLED"}
Active == {t \in Tasks : records[t] \in {"SCHEDULED", "IN_PROGRESS"}}

\* Mutant: one completed prerequisite is enough.
RunnableEarly ==
    {t \in Tasks : /\ records[t] = "PENDING"
                   /\ plan.deps[t] # {} => plan.deps[t] \cap CompletedIn(records) # {}}

\* Mutant: nothing is scheduled once a task has failed.
RunnableUntilFailure ==
    {t \in Tasks : /\ records[t] = "PENDING"
                   /\ plan.deps[t] \subseteq CompletedIn(records)
                   /\ \A u \in Tasks : records[u] # "FAILED"}

\* get_runnable_tasks.
Runnable ==
    {t \in Tasks : /\ records[t] = "PENDING"
                   /\ plan.deps[t] \subseteq CompletedIn(records)}

\* Mutant: a task that waits for its retry is not active.
DeadlockedInBackoff ==
    /\ ~IsTerminal
    /\ Runnable = {}
    /\ \A t \in Tasks : records[t] # "IN_PROGRESS"

\* check_and_raise_deadlock.
Deadlocked ==
    /\ ~IsTerminal
    /\ Runnable = {}
    /\ Active = {}

\* running_tasks, and those of it whose coroutine has returned or raised.
Running == {t \in Tasks : routine[t] # "none"}
Returned == {t \in Tasks : routine[t] \in Verdicts}

\* Free permits of the semaphore, which a coroutine holds from its first attempt
\* until it returns.
Permits == MaxConcurrency - Cardinality({t \in Tasks : routine[t] \in {"executing", "backoff"}})

-------------------------------------------------------------------------------
(* The scheduler's loop.                                                   *)

\* How the run ends, with records recs.
FinalStage(recs) ==
    IF token THEN "CANCELLED"
    ELSE IF CompletedIn(recs) = Tasks THEN "COMPLETED" ELSE "FAILED"

Stop(how, recs) ==
    /\ loop' = how
    /\ result' = FinalStage(recs)

Finish ==
    /\ loop = "top" /\ AllCompleted
    /\ Stop("ended", records)
    /\ UNCHANGED <<plan, records, routine, attempt, outputs, snapshot, stored, token, budget>>

\* Mutant: the records are cancelled, and the coroutines run on.
AbortRecordsOnly ==
    /\ loop = "top" /\ ~AllCompleted
    /\ token
    /\ records' = [t \in Tasks |-> IF records[t] = "COMPLETED" THEN "COMPLETED" ELSE "CANCELLED"]
    /\ Stop("ended", records')
    /\ UNCHANGED <<plan, routine, attempt, outputs, snapshot, stored, token, budget>>

\* The token is set: what is not completed is cancelled, and so are its coroutines.
Abort ==
    /\ loop = "top" /\ ~AllCompleted
    /\ token
    /\ records' = [t \in Tasks |-> IF records[t] = "COMPLETED" THEN "COMPLETED" ELSE "CANCELLED"]
    /\ routine' = [t \in Tasks |-> "none"]
    /\ attempt' = [t \in Tasks |-> 0]
    /\ Stop("ended", records')
    /\ UNCHANGED <<plan, outputs, snapshot, stored, token, budget>>

\* Mutant: with nothing running, the loop ends only if every task is terminal.
NothingLeftTerminal == IsTerminal /\ Running = {}

\* Nothing is running and nothing can be scheduled.
NothingLeft == Runnable = {} /\ Running = {}

GiveUp ==
    /\ loop = "top" /\ ~AllCompleted
    /\ ~token
    /\ Deadlocked \/ NothingLeft
    /\ Stop("ended", records)
    /\ UNCHANGED <<plan, records, routine, attempt, outputs, snapshot, stored, token, budget>>

\* A coroutine for each runnable task, and asyncio.wait.
Schedule ==
    /\ loop = "top" /\ ~AllCompleted
    /\ ~token
    /\ ~Deadlocked
    /\ Runnable \cup Running # {}
    /\ records' = [t \in Tasks |-> IF t \in Runnable THEN "SCHEDULED" ELSE records[t]]
    /\ routine' = [t \in Tasks |-> IF t \in Runnable THEN "queued" ELSE routine[t]]
    /\ loop' = "wait"
    /\ UNCHANGED <<plan, attempt, outputs, snapshot, stored, token, result, budget>>

\* The results of the coroutines that have returned by now, and the snapshot that
\* _save_progress_checkpoint takes of the records.
CollectResults ==
    /\ loop = "wait"
    /\ Returned # {}
    /\ \A t \in Returned : routine[t] # "raised"
    /\ outputs' = outputs \cup {t \in Returned : routine[t] = "completed"}
    /\ routine' = [t \in Tasks |-> IF t \in Returned THEN "none" ELSE routine[t]]
    /\ snapshot' = records
    /\ loop' = "save"
    /\ UNCHANGED <<plan, records, attempt, stored, token, result, budget>>

\* A coroutine has raised: awaiting it ends the loop.  Of the others that have
\* returned, those that asyncio.wait's set lists before it are collected.
CollectRaised ==
    /\ loop = "wait"
    /\ \E t \in Returned : routine[t] = "raised"
    /\ \E S \in SUBSET {t \in Returned : routine[t] # "raised"} :
          /\ outputs' = outputs \cup {t \in S : routine[t] = "completed"}
          /\ routine' = [t \in Tasks |-> IF t \in S \/ routine[t] = "raised"
                                         THEN "none" ELSE routine[t]]
    /\ Stop("raised", records)
    /\ UNCHANGED <<plan, records, attempt, snapshot, stored, token, budget>>

SaveCheckpoint ==
    /\ loop = "save"
    /\ stored' = snapshot
    /\ snapshot' = NoCheckpoint
    /\ loop' = "top"
    /\ UNCHANGED <<plan, records, routine, attempt, outputs, token, result, budget>>

\* save_checkpoint fails: the loop ends, the coroutines run on.
SaveFails ==
    /\ loop = "save"
    /\ Spend("save")
    /\ snapshot' = NoCheckpoint
    /\ Stop("raised", records)
    /\ UNCHANGED <<plan, records, routine, attempt, outputs, stored, token>>

Loop ==
    \/ Finish \/ Abort \/ GiveUp \/ Schedule
    \/ CollectResults \/ CollectRaised \/ SaveCheckpoint \/ SaveFails

-------------------------------------------------------------------------------
(* The coroutine of one task, _execute_subtask_lifecycle.                  *)

\* It returns or raises, and its permit is free.
Return(t, how) ==
    /\ routine' = [routine EXCEPT ![t] = how]
    /\ attempt' = [attempt EXCEPT ![t] = 0]

Mark(t, status) == records' = [records EXCEPT ![t] = status]

\* The head of the attempt loop, for attempt n.  With no attempt allowed at all there
\* is no envelope to return; with none left the record stays SCHEDULED.
BeginAttempt(t, n) ==
    \/ /\ n > plan.retries[t]
       /\ Return(t, IF n = 1 THEN "raised" ELSE "failed")
       /\ UNCHANGED records
    \/ /\ n =< plan.retries[t]
       /\ token
       /\ Mark(t, "CANCELLED")
       /\ Return(t, "cancelled")
    \/ /\ n =< plan.retries[t]
       /\ ~token
       /\ Mark(t, "IN_PROGRESS")
       /\ routine' = [routine EXCEPT ![t] = "executing"]
       /\ attempt' = [attempt EXCEPT ![t] = n]

Start(t) ==
    /\ routine[t] = "queued"
    /\ Permits > 0
    /\ BeginAttempt(t, 1)
    /\ UNCHANGED <<plan, loop, outputs, snapshot, stored, token, result, budget>>

\* The backoff is over.
Wake(t) ==
    /\ routine[t] = "backoff"
    /\ BeginAttempt(t, attempt[t] + 1)
    /\ UNCHANGED <<plan, loop, outputs, snapshot, stored, token, result, budget>>

\* worker.execute answers COMPLETED.
Complete(t) ==
    /\ routine[t] = "executing"
    /\ Mark(t, "COMPLETED")
    /\ Return(t, "completed")
    /\ UNCHANGED <<plan, loop, outputs, snapshot, stored, token, result, budget>>

\* Mutant: one retry more than the policy allows.
ShouldRetryOnceMore(n, retryable) == n =< MaxAttempts /\ retryable

\* RetryPolicy.should_retry.
ShouldRetry(n, retryable) == n < MaxAttempts /\ retryable

\* worker.execute answers FAILED, raises, or times out: the last two are retryable.
Fail(t, retryable) ==
    /\ routine[t] = "executing"
    /\ Spend("task")
    /\ \/ /\ ShouldRetry(attempt[t], retryable)
          /\ Mark(t, "SCHEDULED")
          /\ routine' = [routine EXCEPT ![t] = "backoff"]
          /\ UNCHANGED attempt
       \/ /\ ~ShouldRetry(attempt[t], retryable)
          /\ Mark(t, "FAILED")
          /\ Return(t, "failed")
    /\ UNCHANGED <<plan, loop, outputs, snapshot, stored, token, result>>

Routine(t) ==
    \/ Start(t) \/ Wake(t) \/ Complete(t)
    \/ \E retryable \in BOOLEAN : Fail(t, retryable)

-------------------------------------------------------------------------------
(* The environment.                                                        *)

Cancel ==
    /\ loop \in {"top", "wait", "save"}
    /\ Spend("cancel")
    /\ token' = TRUE
    /\ UNCHANGED <<plan, records, routine, attempt, loop, outputs, snapshot, stored, result>>

\* The worker's process dies, during the execution or after it.
Crash ==
    /\ loop # "down"
    /\ Spend("crash")
    /\ loop' = "down"
    /\ routine' = [t \in Tasks |-> "none"]
    /\ attempt' = [t \in Tasks |-> 0]
    /\ snapshot' = NoCheckpoint
    /\ UNCHANGED <<plan, records, outputs, stored, token, result>>

\* Mutant: the plan is executed from its beginning.
ResumedFromScratch == Fresh

\* The records of the DAGScheduler that another worker starts with: the checkpoint's,
\* or those of a new plan.
Resumed == IF stored = NoCheckpoint THEN Fresh ELSE stored

\* resume_from_checkpoint, or execute_plan where no checkpoint was stored.
Resume ==
    /\ loop = "down"
    /\ records' = Resumed
    /\ loop' = "top"
    /\ outputs' = {}
    /\ token' = FALSE
    /\ result' = "none"
    /\ UNCHANGED <<plan, routine, attempt, snapshot, stored, budget>>

Next ==
    \/ Loop
    \/ \E t \in Tasks : Routine(t)
    \/ Cancel \/ Crash \/ Resume

Spec == Init /\ [][Next]_vars

\* The event loop runs what is ready; worker.execute returns, fails or times out
\* (node.timeout_seconds), the backoff ends, and the checkpoint repository answers.
FairSpec ==
    /\ Spec
    /\ WF_vars(Loop)
    /\ WF_vars(\E t \in Tasks : Routine(t))

-------------------------------------------------------------------------------
TypeOK ==
    /\ plan \in Plans
    /\ records \in [Tasks -> Statuses]
    /\ routine \in [Tasks -> Suspended \cup Verdicts \cup {"none"}]
    /\ attempt \in [Tasks -> 0..MaxAttempts]
    /\ loop \in {"top", "wait", "save", "ended", "raised", "down"}
    /\ outputs \subseteq Tasks
    /\ snapshot \in [Tasks -> Statuses] \cup {NoCheckpoint}
    /\ stored \in [Tasks -> Statuses] \cup {NoCheckpoint}
    /\ token \in BOOLEAN
    /\ result \in {"none", "COMPLETED", "FAILED", "CANCELLED"}
    /\ budget \in [Faults -> Nat]

\* In records recs, every task that was started has its prerequisites completed.
DependenciesFirst(recs) ==
    \A t \in Tasks : recs[t] \notin {"PENDING", "CANCELLED"}
                        => plan.deps[t] \subseteq CompletedIn(recs)

\* A task is started only after all its prerequisites completed, and no retry, crash
\* or resumption takes that back: it is true of the records and of the checkpoint
\* another worker goes on from.
StartedAfterDependencies ==
    /\ DependenciesFirst(records)
    /\ stored # NoCheckpoint => DependenciesFirst(stored)

\* However the loop ends, other than by an exception, it leaves no coroutine behind
\* that could still run.
NothingLeftRunning ==
    loop = "ended" => \A t \in Tasks : routine[t] \notin Suspended

\* No mark_ of a coroutine ever raises InvalidStateTransitionError, which nobody would
\* catch: however cancellation, failures of the loop, retries and resumption interleave
\* with an attempt, its record is where the coroutine left it when it started, completed
\* or failed, be it to be scheduled again.
MarksStep ==
    \A t \in Tasks :
        /\ routine[t] \in {"queued", "backoff"} /\ routine'[t] = "executing"
              => <<records[t], "IN_PROGRESS">> \in AllowedTransitions
        /\ routine[t] = "executing" /\ routine'[t] = "completed"
              => <<records[t], "COMPLETED">> \in AllowedTransitions
        /\ routine[t] = "executing" /\ routine'[t] \in {"failed", "backoff"}
              => <<records[t], "FAILED">> \in AllowedTransitions
MarksAreLegal == [][MarksStep]_vars

\* The tasks t depends on, through other tasks or directly: the least set that is
\* closed under dependencies.
Ancestors(t) ==
    {a \in Tasks : \A S \in SUBSET Tasks :
        plan.deps[t] \subseteq S /\ (\A s \in S : plan.deps[s] \subseteq S) => a \in S}

\* A failure is contained: the tasks an execution leaves untouched are downstream of
\* a task that did not complete, and every independent branch was executed.
FailureIsContained ==
    loop = "ended" =>
        \A t \in Tasks : records[t] = "PENDING" =>
            \E a \in Ancestors(t) : records[a] \notin {"PENDING", "COMPLETED"}

\* An execution ends, unless its process does: however tasks fail, retries run out
\* and cancellation arrives, the loop does not wait for what will not come.
ExecutionEnds == (loop = "top") ~> (loop \in {"ended", "raised", "down"})

\* The loop, its coroutines and the checkpoints implement the abstract execution.
Graph == INSTANCE GraphExecution
    WITH deps <- plan.deps,
         done <- CompletedIn(records),
         saved <- IF stored = NoCheckpoint THEN {} ELSE CompletedIn(stored),
         verdict <- result
GraphExecutionSpec == Graph!Spec

\* What the comment on the input of a task says: it is merged "with upstream outputs
\* from completed dependencies", so the attempt that starts a task finds the outputs of
\* all the tasks it depends on.
InputsStep ==
    \A t \in Tasks : routine[t] = "queued" /\ routine'[t] = "executing"
                        => Ancestors(t) \subseteq outputs
EveryTaskHasItsInputs == [][InputsStep]_vars

\* What the description of checkpoint resumption says: an execution goes on from the
\* completed tasks.  With no fault but the crash, the plan is completed then.
ResumedRunCompletes ==
    (loop = "top" /\ budget["crash"] # Budget["crash"])
        ~> \/ result = "COMPLETED"
           \/ \E f \in Faults \ {"crash"} : budget[f] # Budget[f]
===============================================================================

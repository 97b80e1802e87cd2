---------------------------- MODULE GraphExecution ----------------------------
(***************************************************************************)
(* What the execution of a research plan promises, without coroutines,     *)
(* retries or a scheduler: tasks complete after their dependencies, a      *)
(* crash loses no more than what was not saved, what is saved can be gone  *)
(* on from and is never lost, and a run is called complete only when every *)
(* task of its plan is.                                                    *)
(***************************************************************************)
CONSTANT Tasks

VARIABLES deps,     \* the tasks each task depends on
          done,     \* the completed tasks
          saved,    \* those that a crash does not undo
          verdict   \* what the execution ended with, or "none"

vars == <<deps, done, saved, verdict>>

\* A set of tasks that could have been completed with nothing else completed.
Closed(S) == \A t \in S : deps[t] \subseteq S

Init ==
    /\ deps \in [Tasks -> SUBSET Tasks]
    /\ done = {}
    /\ saved = {}
    /\ verdict = "none"

Complete(t) ==
    /\ t \notin done
    /\ deps[t] \subseteq done
    /\ done' = done \cup {t}
    /\ UNCHANGED <<deps, saved, verdict>>

Save(S) ==
    /\ saved \subseteq S /\ S \subseteq done
    /\ Closed(S)
    /\ saved' = S
    /\ UNCHANGED <<deps, done, verdict>>

Conclude(v) ==
    /\ verdict = "none"
    /\ v = "COMPLETED" => done = Tasks
    /\ verdict' = v
    /\ UNCHANGED <<deps, done, saved>>

\* Another worker goes on from what was saved.
Restart ==
    /\ done' = saved
    /\ verdict' = "none"
    /\ UNCHANGED <<deps, saved>>

Next ==
    \/ \E t \in Tasks : Complete(t)
    \/ \E S \in SUBSET done : Save(S)
    \/ \E v \in {"COMPLETED", "FAILED", "CANCELLED"} : Conclude(v)
    \/ Restart

Spec == Init /\ [][Next]_vars
===============================================================================

------------------------------ MODULE MCExecutor ------------------------------
(* Plans of four tasks: a join with a task before and one after it, a branch  *)
(* of two beside two others, and a plan with a task that may not be attempted *)
(* at all.  retries ranges below and above MaxAttempts.                       *)
EXTENDS Executor, TLC

CONSTANTS a, b, c, d

MCTasks == {a, b, c, d}

Join == [deps |-> (a :> {}) @@ (b :> {a}) @@ (c :> {a}) @@ (d :> {b, c}),
         retries |-> (a :> 1) @@ (b :> 3) @@ (c :> 1) @@ (d :> 3)]
Branch == [deps |-> (a :> {}) @@ (b :> {}) @@ (c :> {b}) @@ (d :> {c}),
           retries |-> (a :> 3) @@ (b :> 2) @@ (c :> 1) @@ (d :> 2)]
NoAttempt == [deps |-> (a :> {}) @@ (b :> {}) @@ (c :> {b}) @@ (d :> {}),
              retries |-> (a :> 2) @@ (b :> 2) @@ (c :> 0) @@ (d :> 1)]

MCPlans == {Join, Branch, NoAttempt}
MCPlan == {Branch}

MCBudget == [crash |-> 1, save |-> 1, task |-> 2, cancel |-> 1]
MCNoFaults == [crash |-> 0, save |-> 0, task |-> 0, cancel |-> 0]
MCOneCrash == [crash |-> 1, save |-> 0, task |-> 0, cancel |-> 0]
===============================================================================

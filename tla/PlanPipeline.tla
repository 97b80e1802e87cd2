----------------------------- MODULE PlanPipeline -----------------------------
(***************************************************************************)
(* How a research plan comes to be executed: the planner turns an LLM's    *)
(* decomposition into a plan (intelligence/planner.py) and validates it    *)
(* (tasks/dag.py), the worker adds what is missing (jobs/worker.py) and    *)
(* the executor validates the result; an evaluation that is not passed     *)
(* leads to refinement plans, which the executor validates too.            *)
(*                                                                         *)
(* The validator is Kahn's algorithm, one action per node it takes from    *)
(* its queue.  The code takes them in the order of their discovery, sorted *)
(* by id; nothing reads the order itself, and here they are taken in any.  *)
(***************************************************************************)
EXTENDS ResearchPlan

CONSTANTS Decompositions,  \* what the LLM may answer: sequences of subtasks
          MaxSubtasks,     \* ResearchGoal.max_subtasks
          MaxNodes,        \* MAX_NODES_LIMIT
          MaxDepth,        \* MAX_DEPTH_LIMIT
          MaxFanOut,       \* MAX_FAN_OUT_LIMIT
          MaxRefinements,  \* max_refinement_loops
          MaxRubrics       \* bound: rubrics below their threshold

\* A subtask of a decomposition.  It may need ids that no subtask has.
Subtasks == [id : SubtaskIds, type : TaskTypes, blank : BOOLEAN, needs : SUBSET Ids]

ASSUME DecompositionsAssumption == Decompositions \subseteq Seq(Subtasks)
\* The limits leave room for a refinement plan.
ASSUME LimitsAssumption ==
    /\ MaxSubtasks \in Nat /\ MaxRefinements \in Nat /\ MaxRubrics \in Nat
    /\ MaxNodes \in Nat /\ MaxNodes >= 7
    /\ MaxDepth \in Nat /\ MaxDepth >= RefinementDepth
    /\ MaxFanOut \in Nat /\ MaxFanOut >= 2

VARIABLES phase,      \* what happens next to the plan
          author,     \* who made it: "planner", "worker" or "refiner"
          plan,
          degree,     \* in_degrees
          ready,      \* the nodes in the queue
          visited,    \* those taken from it
          depth,      \* depth_map, 0 for a node that is not in it
          error,      \* why it was rejected
          iteration   \* refinements so far

vars == <<phase, author, plan, degree, ready, visited, depth, error, iteration>>
kahn == <<degree, ready, visited, depth>>

NoPlan == [type |-> << >>, edges |-> {}]
Parents(n) == Prerequisites(plan, n)

Init ==
    /\ phase = "decompose"
    /\ author = "planner"
    /\ plan = NoPlan
    /\ degree = << >> /\ ready = {} /\ visited = {} /\ depth = << >>
    /\ error = "none"
    /\ iteration = 0

\* validate_plan has returned: its variables are gone.
Validated == degree' = << >> /\ ready' = {} /\ visited' = {} /\ depth' = << >>

Reject(code) ==
    /\ phase' = "rejected"
    /\ error' = code

-------------------------------------------------------------------------------
(* The planner.                                                                *)

Duplicated(d) == \E i, j \in DOMAIN d : i # j /\ d[i].id = d[j].id
IdsOf(d) == {d[i].id : i \in DOMAIN d}

\* PlannerError: no subtasks or too many, an id twice, a blank objective.
Malformed(d) ==
    \/ Len(d) \notin 1..MaxSubtasks
    \/ Duplicated(d)
    \/ \E i \in DOMAIN d : d[i].blank

\* A subtask that needs itself, or one that there is not.
Dangling(d) ==
    \E i \in DOMAIN d : d[i].id \in d[i].needs \/ ~(d[i].needs \subseteq IdsOf(d))

PlanOf(d) ==
    [type |-> [n \in IdsOf(d) |-> d[CHOOSE i \in DOMAIN d : d[i].id = n].type],
     edges |-> UNION {d[i].needs \X {d[i].id} : i \in DOMAIN d}]

Decompose(d) ==
    /\ phase = "decompose"
    /\ \/ Malformed(d) /\ Reject("PLANNING_FAILED") /\ UNCHANGED plan
       \/ ~Malformed(d) /\ Dangling(d) /\ Reject("BAD_DEPENDENCY") /\ UNCHANGED plan
       \/ /\ ~Malformed(d) /\ ~Dangling(d)
          /\ plan' = PlanOf(d)
          /\ phase' = "check"
          /\ UNCHANGED error
    /\ UNCHANGED <<author, kahn, iteration>>

-------------------------------------------------------------------------------
(* The validator.                                                              *)

\* The structural checks.  That a node has its own id and an objective holds of every
\* plan that gets here.
Flaws(p) ==
    {code \in {"EMPTY_GRAPH", "MAX_NODES_EXCEEDED", "BAD_DEPENDENCY", "MAX_FAN_OUT_EXCEEDED"} :
        \/ code = "EMPTY_GRAPH" /\ Nodes(p) = {}
        \/ code = "MAX_NODES_EXCEEDED" /\ Cardinality(Nodes(p)) > MaxNodes
        \/ code = "BAD_DEPENDENCY"
             /\ (SelfDependent(p) \/ ~(p.edges \subseteq Nodes(p) \X Nodes(p)))
        \/ code = "MAX_FAN_OUT_EXCEEDED"
             /\ \E n \in Nodes(p) : Cardinality(Dependents(p, n)) > MaxFanOut}

\* Adjacency and in-degrees are built, and the queue is filled with the roots.
Check ==
    /\ phase = "check"
    /\ \/ /\ \E code \in Flaws(plan) : Reject(code)
          /\ UNCHANGED kahn
       \/ /\ Flaws(plan) = {}
          /\ degree' = [n \in Nodes(plan) |-> Cardinality(Parents(n))]
          /\ ready' = {n \in Nodes(plan) : Parents(n) = {}}
          /\ visited' = {}
          /\ depth' = [n \in Nodes(plan) |-> IF Parents(n) = {} THEN 1 ELSE 0]
          /\ phase' = "sort"
          /\ UNCHANGED error
    /\ UNCHANGED <<author, plan, iteration>>

\* Mutant: the in-degree is only lowered along with a new depth.
DegreeWithDepth(n, c) ==
    IF n \in Parents(c) /\ depth[n] + 1 > depth[c] THEN degree[c] - 1 ELSE degree[c]

\* The in-degree of c after n is taken from the queue.
DegreeWithout(n, c) == IF n \in Parents(c) THEN degree[c] - 1 ELSE degree[c]

\* Mutant: the depth is that of the prerequisite visited last.
DepthAfterLast(n, c) == IF n \in Parents(c) THEN depth[n] + 1 ELSE depth[c]

\* Its depth then.
DepthAfter(n, c) ==
    IF n \in Parents(c) /\ depth[n] + 1 > depth[c] THEN depth[n] + 1 ELSE depth[c]

Visit(n) ==
    /\ phase = "sort"
    /\ n \in ready
    /\ visited' = visited \cup {n}
    /\ depth' = [c \in Nodes(plan) |-> DepthAfter(n, c)]
    /\ degree' = [c \in Nodes(plan) |-> DegreeWithout(n, c)]
    /\ ready' = (ready \ {n}) \cup {c \in Dependents(plan, n) : degree'[c] = 0}
    /\ UNCHANGED <<phase, author, plan, error, iteration>>

\* The order does not contain every node.
LeftOver == visited # Nodes(plan)

TooDeep == \E n \in Nodes(plan) : depth[n] > MaxDepth

\* The queue is empty.  A planner's plan goes on to the worker, others to the
\* scheduler.
Conclude ==
    /\ phase = "sort"
    /\ ready = {}
    /\ \/ LeftOver /\ Reject("CYCLE_DETECTED")
       \/ ~LeftOver /\ TooDeep /\ Reject("MAX_DEPTH_EXCEEDED")
       \/ /\ ~LeftOver /\ ~TooDeep
          /\ phase' = IF author = "planner" THEN "complete" ELSE "execute"
          /\ UNCHANGED error
    /\ UNCHANGED <<author, plan, kahn, iteration>>

-------------------------------------------------------------------------------
(* The worker.                                                                 *)

\* The mesh is completed; DependencyEdge refuses the edge of a task to itself.
Complete ==
    /\ phase = "complete"
    /\ plan' = Completed(plan)
    /\ author' = "worker"
    /\ IF SelfDependent(plan') THEN Reject("SELF_EDGE")
       ELSE phase' = "check" /\ UNCHANGED error
    /\ Validated
    /\ UNCHANGED iteration

\* An executed plan's evaluation asks for a refinement.
Refine(report) ==
    /\ phase = "execute"
    /\ ~report.passed \/ report.low
    /\ iteration < MaxRefinements
    /\ plan' = Refinement(RefinementSearches(Deficiencies(report)))
    /\ author' = "refiner"
    /\ phase' = "check"
    /\ iteration' = iteration + 1
    /\ Validated
    /\ UNCHANGED error

Next ==
    \/ phase = "decompose" /\ \E d \in Decompositions : Decompose(d)
    \/ Check
    \/ \E n \in ready : Visit(n)
    \/ Conclude
    \/ Complete
    \/ \E report \in Reports(MaxRubrics) : Refine(report)

Spec == Init /\ [][Next]_vars

-------------------------------------------------------------------------------
Codes == {"none", "PLANNING_FAILED", "EMPTY_GRAPH", "MAX_NODES_EXCEEDED", "BAD_DEPENDENCY",
          "MAX_FAN_OUT_EXCEEDED", "CYCLE_DETECTED", "MAX_DEPTH_EXCEEDED", "SELF_EDGE"}

Sorted == phase \in {"sort", "complete", "execute"}

TypeOK ==
    /\ phase \in {"decompose", "check", "sort", "complete", "execute", "rejected"}
    /\ author \in {"planner", "worker", "refiner"}
    /\ IsPlan(plan)
    /\ visited \subseteq Ids /\ ready \subseteq Ids
    /\ Sorted => /\ degree \in [Nodes(plan) -> Nat]
                 /\ depth \in [Nodes(plan) -> Nat]
    /\ error \in Codes
    /\ iteration \in 0..MaxRefinements

Accepted == phase \in {"complete", "execute"}

\* A plan that passed validation can be executed to its end: no set of tasks waits for
\* itself.  Executor assumes this of every plan it is given.
AcceptedIsAcyclic == Accepted => Acyclic(plan)

\* A plan is turned down for a cycle only if it has one, whatever the worker added.
CycleIsReal == error = "CYCLE_DETECTED" => ~Acyclic(plan)

\* The verdict on cycles is right either way.
VerdictIsRight == AcceptedIsAcyclic /\ CycleIsReal

\* The depths the limit is applied to are lengths of longest paths: a task is one
\* deeper than the deepest of its prerequisites.
DepthIsCriticalPath ==
    Accepted =>
        \A n \in Nodes(plan) :
            /\ Parents(n) = {} => depth[n] = 1
            /\ \A m \in Parents(n) : depth[m] < depth[n]
            /\ Parents(n) # {} => \E m \in Parents(n) : depth[n] = depth[m] + 1

\* Whatever ids and types a planner chose, a completed plan that is executed has a
\* synthesis, a verification, an evaluation and a report: none that the worker added
\* has replaced the only one of another kind.
ExecutedPlanIsComplete ==
    phase = "execute" /\ author = "worker" =>
        \A type \in {"SYNTHESIS", "VERIFICATION", "EVALUATION", "REPORTING"} :
            OfType(plan, {type}) # {}

\* A refinement plan is never rejected, and as deep as its metadata says.
RefinementIsExecutable ==
    author = "refiner" =>
        /\ phase # "rejected"
        /\ phase = "execute" =>
              /\ \E n \in Nodes(plan) : depth[n] = RefinementDepth
              /\ \A n \in Nodes(plan) : depth[n] =< RefinementDepth
===============================================================================

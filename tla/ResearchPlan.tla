----------------------------- MODULE ResearchPlan -----------------------------
(***************************************************************************)
(* Research plans as graphs: the type of each subtask and the dependency   *)
(* edges between them (state/models.py), the tasks that the worker adds to *)
(* a planner's plan (jobs/worker.py, _ensure_complete_research_mesh) and   *)
(* the plans made from an evaluation (orchestration/refinement.py).        *)
(*                                                                         *)
(* A plan is [type, edges]: type is a function from the ids of its nodes,  *)
(* <<m, n>> is the edge from m, which must complete first, to n.  Edges    *)
(* are a set because their readers ignore duplicates.                      *)
(***************************************************************************)
EXTENDS Integers, Sequences, FiniteSets

CONSTANT SubtaskIds     \* the ids that a planner gives to its subtasks

\* Ids of the tasks the code adds.  Nothing keeps a planner from using one of them.
AutoIds == {"task_an_auto", "task_ver_auto", "task_eval_auto", "task_rep_auto"}
RefineIds == {"res_1", "res_2", "res_3", "res_4", "res_fallback", "an", "ver", "eval"}
Ids == SubtaskIds \cup AutoIds \cup RefineIds

ASSUME SubtaskIdsAssumption == IsFiniteSet(SubtaskIds)

Searches == {"WEB_SEARCH", "ACADEMIC_SEARCH", "DOC_ANALYSIS"}
TaskTypes == Searches \cup {"SYNTHESIS", "VERIFICATION", "CONFLICT_DETECTION",
                            "EVALUATION", "REPORTING", "DECOMPOSITION"}

Nodes(p) == DOMAIN p.type
Prerequisites(p, n) == {m \in Nodes(p) : <<m, n>> \in p.edges}
Dependents(p, m) == {n \in Nodes(p) : <<m, n>> \in p.edges}
OfType(p, types) == {n \in Nodes(p) : p.type[n] \in types}

IsPlan(p) ==
    /\ p = [type |-> p.type, edges |-> p.edges]
    /\ Nodes(p) \subseteq Ids
    /\ p.type \in [Nodes(p) -> TaskTypes]
    /\ p.edges \subseteq Nodes(p) \X Nodes(p)

SelfDependent(p) == \E n \in Nodes(p) : <<n, n>> \in p.edges

\* No set of tasks is such that each waits for another of them.
Acyclic(p) ==
    \A S \in SUBSET Nodes(p) :
        S # {} => \E n \in S : Prerequisites(p, n) \cap S = {}

-------------------------------------------------------------------------------
(* The worker's completion of a plan.                                          *)

\* A plan with no task of this type gets one, which depends on the given tasks.  A
\* node that has its id already is replaced.
WithTask(p, id, type, sources) ==
    IF OfType(p, {type}) # {} THEN p
    ELSE [type |-> [n \in Nodes(p) \cup {id} |-> IF n = id THEN type ELSE p.type[n]],
          edges |-> p.edges \cup (sources \X {id})]

WithSynthesis(p) == WithTask(p, "task_an_auto", "SYNTHESIS", OfType(p, Searches))

\* research: the search tasks of the plan as it came.
WithVerification(p, research) ==
    WithTask(p, "task_ver_auto", "VERIFICATION", research \cup OfType(p, {"SYNTHESIS"}))

\* an: the synthesis tasks as they were before a verification was added.
WithEvaluation(p, an) ==
    WithTask(p, "task_eval_auto", "EVALUATION", an \cup OfType(p, {"VERIFICATION"}))

WithReport(p, an, ver) ==
    WithTask(p, "task_rep_auto", "REPORTING", an \cup ver \cup OfType(p, {"EVALUATION"}))

\* Mutant: an evaluation is taken for a report.
CompletedWithoutReport(p) ==
    LET p1 == WithSynthesis(p)
        p2 == WithVerification(p1, OfType(p, Searches))
    IN WithEvaluation(p2, OfType(p1, {"SYNTHESIS"}))

\* _ensure_complete_research_mesh.
Completed(p) ==
    LET p1 == WithSynthesis(p)
        an == OfType(p1, {"SYNTHESIS"})
        p2 == WithVerification(p1, OfType(p, Searches))
        p3 == WithEvaluation(p2, an)
    IN WithReport(p3, an, OfType(p2, {"VERIFICATION"}))

-------------------------------------------------------------------------------
(* Refinement plans.                                                           *)

\* What of an EvaluationReport decides on refinement: which of its scores miss their
\* thresholds, how many of its rubrics do, whether the overall score does, and whether
\* it passed.
Reports(rubrics) ==
    [incomplete : BOOLEAN, unsupported : BOOLEAN, uncited : BOOLEAN,
     contradicted : BOOLEAN, weakRubrics : 0..rubrics, low : BOOLEAN, passed : BOOLEAN]

Where(condition, type) == IF condition THEN <<type>> ELSE <<>>

\* extract_deficiencies: the suggested task type of each deficiency, in order.
Deficiencies(report) ==
    LET found == Where(report.incomplete, "WEB_SEARCH")
                   \o Where(report.unsupported, "ACADEMIC_SEARCH")
                   \o Where(report.uncited, "ACADEMIC_SEARCH")
                   \o Where(report.contradicted, "DOC_ANALYSIS")
                   \o [i \in 1..report.weakRubrics |-> "WEB_SEARCH"]
    IN IF found = <<>> THEN Where(report.low, "WEB_SEARCH") ELSE found

\* The search tasks of a refinement, four at most and one at least.
SearchIds == <<"res_1", "res_2", "res_3", "res_4">>
RefinementSearches(ds) ==
    IF ds = <<>> THEN {<<"res_fallback", "WEB_SEARCH">>}
    ELSE {<<SearchIds[i], ds[i]>> : i \in DOMAIN ds \cap (1..4)}

After == [an |-> "SYNTHESIS", ver |-> "VERIFICATION", eval |-> "EVALUATION"]
RefinementTypes(searches) ==
    LET res == {s[1] : s \in searches}
    IN [n \in res \cup DOMAIN After |->
           IF n \in res THEN (CHOOSE s \in searches : s[1] = n)[2] ELSE After[n]]

\* Mutant: synthesis and verification run side by side.
SideBySide(searches) ==
    [type |-> RefinementTypes(searches),
     edges |-> ({s[1] : s \in searches} \X {"an", "ver"})
                 \cup {<<"an", "eval">>, <<"ver", "eval">>}]

\* create_refinement_plan: searches, then synthesis, verification and evaluation.
Refinement(searches) ==
    [type |-> RefinementTypes(searches),
     edges |-> ({s[1] : s \in searches} \X {"an", "ver"})
                 \cup {<<"an", "ver">>, <<"an", "eval">>, <<"ver", "eval">>}]

\* metadata.total_estimated_depth of a refinement plan.
RefinementDepth == 4
===============================================================================

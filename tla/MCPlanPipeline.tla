---------------------------- MODULE MCPlanPipeline ----------------------------
(* Decompositions with up to two subtasks that are all there can be, over the   *)
(* types that differ for the pipeline, ids that clash with the worker's and an  *)
(* id that no subtask has; with three and four, whose ids are distinct; a task  *)
(* with too many dependents, and too many tasks.                                *)
EXTENDS PlanPipeline

MCSubtaskIds == {"t1", "t2", "t3", "t4", "t5", "t6", "task_an_auto", "task_ver_auto"}

Kinds == {"WEB_SEARCH", "SYNTHESIS", "VERIFICATION", "EVALUATION", "REPORTING"}
Task(id, type, needs) == [id |-> id, type |-> type, blank |-> FALSE, needs |-> needs]

SmallTasks == [id : {"t1", "task_an_auto", "task_ver_auto"}, type : Kinds, blank : {FALSE},
               needs : SUBSET {"t1", "task_an_auto"}]
                 \cup {[Task("t1", "WEB_SEARCH", {}) EXCEPT !.blank = TRUE]}
Small == {<<>>} \cup {<<x>> : x \in SmallTasks} \cup {<<x, y>> : x, y \in SmallTasks}

ThreeKinds == {"ACADEMIC_SEARCH", "SYNTHESIS", "VERIFICATION"}
Three == {<<Task("t1", k[1], n[1]), Task("t2", k[2], n[2]), Task("t3", k[3], n[3])>> :
            k \in [1..3 -> ThreeKinds], n \in [1..3 -> SUBSET {"t1", "t2", "t3"}]}

Four == {<<Task("t1", "DOC_ANALYSIS", n[1]), Task("t2", "WEB_SEARCH", n[2]),
           Task("t3", "CONFLICT_DETECTION", n[3]), Task("t4", "WEB_SEARCH", n[4])>> :
            n \in [1..4 -> {{}, {"t1"}, {"t1", "t2"}, {"t3"}}]}

Fan == <<Task("t1", "WEB_SEARCH", {}), Task("t2", "SYNTHESIS", {"t1"}),
         Task("t3", "VERIFICATION", {"t1"}), Task("t4", "EVALUATION", {"t1"}),
         Task("t5", "REPORTING", {"t1"}), Task("t6", "REPORTING", {"t1"})>>
TooMany == Append(Fan, Task("task_an_auto", "SYNTHESIS", {}))

MCDecompositions == Small \cup Three \cup Four \cup {Fan, TooMany}
===============================================================================

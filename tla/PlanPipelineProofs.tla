-------------------------- MODULE PlanPipelineProofs --------------------------
(***************************************************************************)
(* Theorems about plans on their way to the executor, for every set of     *)
(* decompositions and all limits, and about the dossiers made by them.     *)
(*                                                                         *)
(* The heart is the loop invariant of Kahn's algorithm: the in-degree      *)
(* counts the prerequisites not visited, the queue holds the nodes with    *)
(* none, the visited nodes contain their prerequisites and can be ordered, *)
(* and a depth is right with respect to the visited prerequisites.         *)
(*                                                                         *)
(* The second part is about what the tasks of such plans put out, for any  *)
(* plans, statements and goals.  That a dossier is grounded follows from   *)
(* DossierInv: what a task puts out rests on what its ancestors put out,   *)
(* and an ancestor's ancestors are the task's own, so nothing has to be    *)
(* looked for outside of what the dossier is compiled of.                  *)
(***************************************************************************)
EXTENDS PlanPipeline, ResearchDossier, FiniteSetTheorems, TLAPS

\* The visited nodes are closed under prerequisites and no subset waits for itself.
VisitedInOrder ==
    /\ \A n \in visited : Parents(n) \subseteq visited
    /\ \A S \in SUBSET visited : S # {} => \E n \in S : Parents(n) \cap S = {}

\* Degrees and the queue.
DegreesCount ==
    /\ \A n \in Nodes(plan) : degree[n] = Cardinality(Parents(n) \ visited)
    /\ ready = {n \in Nodes(plan) \ visited : degree[n] = 0}

\* A depth is that of a longest path through visited prerequisites.
DepthsGrow ==
    \A n \in Nodes(plan) :
        /\ Parents(n) = {} => depth[n] = 1
        /\ \A m \in Parents(n) \cap visited : depth[m] < depth[n]
        /\ Parents(n) # {} /\ Parents(n) \cap visited = {} => depth[n] = 0
        /\ Parents(n) \cap visited # {} =>
              \E m \in Parents(n) \cap visited : depth[n] = depth[m] + 1

LoopInv ==
    phase = "sort" =>
        /\ ~SelfDependent(plan)
        /\ visited \subseteq Nodes(plan)
        /\ VisitedInOrder
        /\ DegreesCount
        /\ DepthsGrow

WorkersKinds == {"SYNTHESIS", "VERIFICATION", "EVALUATION", "REPORTING"}
HasEveryKind(p) == \A type \in WorkersKinds : OfType(p, {type}) # {}

\* The worker's plan has every kind from its completion on.
WorkerPlanIsComplete == author = "worker" /\ phase # "rejected" => HasEveryKind(plan)

ErrorEnds == error # "none" => phase = "rejected"

PlannerBegins == phase = "decompose" => author = "planner"

IInv ==
    /\ TypeOK
    /\ LoopInv
    /\ AcceptedIsAcyclic
    /\ DepthIsCriticalPath
    /\ WorkerPlanIsComplete
    /\ ErrorEnds
    /\ PlannerBegins
    /\ CycleIsReal

-------------------------------------------------------------------------------
\* The ids are finite, and so are a plan's nodes and the prerequisites of one.
LEMMA FiniteIds == IsFiniteSet(Ids)
<1>1. IsFiniteSet(AutoIds)
  <2>1. AutoIds = {"task_an_auto"} \cup {"task_ver_auto"} \cup {"task_eval_auto"}
                    \cup {"task_rep_auto"}
    BY DEF AutoIds
  <2>2. QED
    BY <2>1, FS_Singleton, FS_Union
<1>2. IsFiniteSet(RefineIds)
  <2>1. RefineIds = {"res_1"} \cup {"res_2"} \cup {"res_3"} \cup {"res_4"}
                      \cup {"res_fallback"} \cup {"an"} \cup {"ver"} \cup {"eval"}
    BY DEF RefineIds
  <2>2. QED
    BY <2>1, FS_Singleton, FS_Union
<1>3. QED
  BY <1>1, <1>2, SubtaskIdsAssumption, FS_Union DEF Ids

LEMMA FiniteParents ==
    ASSUME IsPlan(plan), NEW n
    PROVE  IsFiniteSet(Parents(n)) /\ IsFiniteSet(Parents(n) \ visited)
<1>1. Parents(n) \in SUBSET Ids
  BY DEF IsPlan, Parents, Prerequisites
<1>2. Parents(n) \ visited \in SUBSET Ids
  BY <1>1
<1>3. QED
  BY <1>1, <1>2, FiniteIds, FS_Subset

\* A node in the queue has its prerequisites visited, and its dependents are neither
\* visited nor in the queue.
LEMMA ReadyNode ==
    ASSUME TypeOK, LoopInv, phase = "sort", NEW n \in ready
    PROVE  /\ n \in Nodes(plan) \ visited
           /\ Parents(n) \subseteq visited
           /\ n \notin Parents(n)
           /\ \A c \in Nodes(plan) :
                 n \in Parents(c) => /\ c \notin visited /\ c # n
                                     /\ degree[c] \in Nat \ {0}
<1> USE DEF LoopInv
<1>1. n \in Nodes(plan) \ visited /\ Cardinality(Parents(n) \ visited) = 0
  BY DEF DegreesCount
<1>2. Parents(n) \ visited = {}
  BY <1>1, FiniteParents, FS_EmptySet DEF TypeOK
<1>3. n \notin Parents(n)
  BY <1>1 DEF SelfDependent, Parents, Prerequisites
<1>4. ASSUME NEW c \in Nodes(plan), n \in Parents(c)
      PROVE  c \notin visited /\ c # n /\ degree[c] \in Nat \ {0}
  <2>1. c \notin visited
    BY <1>1, <1>4 DEF VisitedInOrder
  <2>2. Parents(c) \ visited # {}
    BY <1>1, <1>4
  <2>3. Cardinality(Parents(c) \ visited) # 0
    BY <2>2, FiniteParents, FS_EmptySet DEF TypeOK
  <2>4. degree[c] \in Nat
    BY DEF TypeOK, Sorted
  <2>5. QED
    BY <1>3, <1>4, <2>1, <2>3, <2>4 DEF DegreesCount
<1>5. QED
  BY <1>1, <1>2, <1>3, <1>4

-------------------------------------------------------------------------------
\* Starting the sort establishes the loop invariant.
LEMMA CheckLoopInv ==
    ASSUME TypeOK, Check, phase' = "sort"
    PROVE  LoopInv'
<1>1. Flaws(plan) = {}
  BY DEF Check, Reject
<1>2. ~SelfDependent(plan)
  BY <1>1 DEF Flaws
<1>3. /\ plan' = plan /\ visited' = {}
      /\ degree' = [n \in Nodes(plan) |-> Cardinality(Parents(n))]
      /\ ready' = {n \in Nodes(plan) : Parents(n) = {}}
      /\ depth' = [n \in Nodes(plan) |-> IF Parents(n) = {} THEN 1 ELSE 0]
  BY <1>1 DEF Check
<1>4. \A n : Parents(n)' = Parents(n)
  BY <1>3 DEF Parents
<1>5. VisitedInOrder'
  BY <1>3 DEF VisitedInOrder
<1>6. \A n \in Nodes(plan) : Cardinality(Parents(n)) = 0 <=> Parents(n) = {}
  BY FiniteParents, FS_EmptySet DEF TypeOK
<1>7. DegreesCount'
  <2>1. \A n : Parents(n) \ {} = Parents(n)
    OBVIOUS
  <2>2. QED
    BY <1>3, <1>4, <1>6, <2>1 DEF DegreesCount
<1>8. DepthsGrow'
  BY <1>3, <1>4 DEF DepthsGrow
<1>9. QED
  BY <1>2, <1>3, <1>5, <1>7, <1>8 DEF LoopInv

\* Visiting a node keeps each part of it.
LEMMA VisitKeepsOrder ==
    ASSUME TypeOK, LoopInv, NEW n \in ready, Visit(n)
    PROVE  VisitedInOrder'
<1>1. phase = "sort" /\ plan' = plan /\ visited' = visited \cup {n}
  BY DEF Visit
<1>2. \A m : Parents(m)' = Parents(m)
  BY <1>1 DEF Parents
<1>3. /\ n \notin visited /\ Parents(n) \subseteq visited /\ n \notin Parents(n)
  BY <1>1, ReadyNode
<1>4. \A m \in visited : Parents(m) \subseteq visited
  BY <1>1 DEF LoopInv, VisitedInOrder
<1>5. ASSUME NEW S \in SUBSET (visited \cup {n}), S # {}
      PROVE  \E m \in S : Parents(m) \cap S = {}
  <2>1. CASE S \ {n} = {}
    <3>1. S = {n}
      BY <1>5, <2>1
    <3>2. QED
      BY <1>3, <3>1
  <2>2. CASE S \ {n} # {}
    <3>1. S \ {n} \in SUBSET visited
      OBVIOUS
    <3>2. PICK m \in S \ {n} : Parents(m) \cap (S \ {n}) = {}
      BY <1>1, <2>2, <3>1 DEF LoopInv, VisitedInOrder
    <3>3. n \notin Parents(m)
      BY <1>3, <1>4, <3>1, <3>2
    <3>4. QED
      BY <3>2, <3>3
  <2>3. QED
    BY <2>1, <2>2
<1>6. QED
  BY <1>1, <1>2, <1>3, <1>4, <1>5 DEF VisitedInOrder

LEMMA VisitKeepsDegrees ==
    ASSUME TypeOK, LoopInv, NEW n \in ready, Visit(n)
    PROVE  /\ DegreesCount'
           /\ degree' \in [Nodes(plan) -> Nat]
<1>1. /\ phase = "sort" /\ plan' = plan /\ visited' = visited \cup {n}
      /\ degree' = [c \in Nodes(plan) |-> DegreeWithout(n, c)]
      /\ ready' = (ready \ {n}) \cup {c \in Dependents(plan, n) : degree'[c] = 0}
  BY DEF Visit
<1>2. \A m : Parents(m)' = Parents(m)
  BY <1>1 DEF Parents
<1>3. degree \in [Nodes(plan) -> Nat]
  BY <1>1 DEF TypeOK, Sorted
<1>4. degree' \in [Nodes(plan) -> Nat]
  <2>1. ASSUME NEW c \in Nodes(plan)
        PROVE  DegreeWithout(n, c) \in Nat
    <3>1. CASE n \in Parents(c)
      BY <1>1, <3>1, ReadyNode DEF DegreeWithout
    <3>2. CASE n \notin Parents(c)
      BY <1>3, <3>2 DEF DegreeWithout
    <3>3. QED
      BY <3>1, <3>2
  <2>2. QED
    BY <1>1, <2>1
<1>5. ASSUME NEW c \in Nodes(plan)
      PROVE  degree'[c] = Cardinality(Parents(c) \ (visited \cup {n}))
  <2>1. degree[c] = Cardinality(Parents(c) \ visited)
    BY <1>1 DEF LoopInv, DegreesCount
  <2>2. Parents(c) \ (visited \cup {n}) = (Parents(c) \ visited) \ {n}
    OBVIOUS
  <2>3. Cardinality((Parents(c) \ visited) \ {n})
          = IF n \in Parents(c) \ visited THEN Cardinality(Parents(c) \ visited) - 1
                                          ELSE Cardinality(Parents(c) \ visited)
    BY FiniteParents, FS_RemoveElement DEF TypeOK
  <2>4. n \notin visited
    BY <1>1, ReadyNode
  <2>5. QED
    BY <1>1, <2>1, <2>2, <2>3, <2>4 DEF DegreeWithout
<1>6. ready' = {c \in Nodes(plan) \ (visited \cup {n}) : degree'[c] = 0}
  <2>1. Dependents(plan, n) = {c \in Nodes(plan) : n \in Parents(c)}
    BY <1>1, ReadyNode DEF Dependents, Parents, Prerequisites
  <2>2. \A c \in Nodes(plan) : n \notin Parents(c) => degree'[c] = degree[c]
    BY <1>1 DEF DegreeWithout
  <2>3. \A c \in Nodes(plan) :
            n \in Parents(c) => c \notin visited /\ c # n /\ degree[c] # 0
    BY <1>1, ReadyNode
  <2>4. ready = {c \in Nodes(plan) \ visited : degree[c] = 0}
    BY <1>1 DEF LoopInv, DegreesCount
  <2>5. QED
    BY <1>1, <2>1, <2>2, <2>3, <2>4
<1>7. QED
  BY <1>1, <1>2, <1>4, <1>5, <1>6 DEF DegreesCount

LEMMA VisitKeepsDepths ==
    ASSUME TypeOK, LoopInv, NEW n \in ready, Visit(n)
    PROVE  /\ DepthsGrow'
           /\ depth' \in [Nodes(plan) -> Nat]
<1>1. /\ phase = "sort" /\ plan' = plan /\ visited' = visited \cup {n}
      /\ depth' = [c \in Nodes(plan) |-> DepthAfter(n, c)]
  BY DEF Visit
<1>2. \A m : Parents(m)' = Parents(m)
  BY <1>1 DEF Parents
<1>3. depth \in [Nodes(plan) -> Nat] /\ n \in Nodes(plan)
  BY <1>1, ReadyNode DEF TypeOK, Sorted
<1>4. depth' \in [Nodes(plan) -> Nat]
  BY <1>1, <1>3 DEF DepthAfter
<1>5. \A m \in visited \cup {n} : m \in Nodes(plan) /\ depth'[m] = depth[m]
  <2>1. \A m \in visited \cup {n} : m \in Nodes(plan) /\ n \notin Parents(m)
    BY <1>1, ReadyNode DEF LoopInv, VisitedInOrder
  <2>2. QED
    BY <1>1, <2>1 DEF DepthAfter
<1>6. ASSUME NEW c \in Nodes(plan)
      PROVE  /\ Parents(c) = {} => depth'[c] = 1
             /\ \A m \in Parents(c) \cap (visited \cup {n}) : depth'[m] < depth'[c]
             /\ Parents(c) # {} /\ Parents(c) \cap (visited \cup {n}) = {}
                    => depth'[c] = 0
             /\ Parents(c) \cap (visited \cup {n}) # {} =>
                    \E m \in Parents(c) \cap (visited \cup {n}) : depth'[c] = depth'[m] + 1
  <2>1. /\ Parents(c) = {} => depth[c] = 1
        /\ \A m \in Parents(c) \cap visited : depth[m] < depth[c]
        /\ Parents(c) # {} /\ Parents(c) \cap visited = {} => depth[c] = 0
        /\ Parents(c) \cap visited # {} =>
              \E m \in Parents(c) \cap visited : depth[c] = depth[m] + 1
    BY <1>1 DEF LoopInv, DepthsGrow
  <2>2. depth'[c] = DepthAfter(n, c)
    BY <1>1
  <2>3. CASE n \notin Parents(c)
    BY <1>5, <2>1, <2>2, <2>3 DEF DepthAfter
  <2>4. CASE n \in Parents(c) /\ depth[n] + 1 > depth[c]
    <3>1. depth'[c] = depth[n] + 1 /\ depth'[n] = depth[n]
      BY <1>5, <2>2, <2>4 DEF DepthAfter
    <3>2. \A m \in Parents(c) \cap visited : depth'[m] < depth'[c]
      BY <1>3, <1>5, <2>1, <2>4, <3>1
    <3>3. QED
      BY <1>3, <2>4, <3>1, <3>2
  <2>5. CASE n \in Parents(c) /\ ~(depth[n] + 1 > depth[c])
    <3>1. depth'[c] = depth[c] /\ depth'[n] = depth[n]
      BY <1>5, <2>2, <2>5 DEF DepthAfter
    <3>2. depth[n] < depth[c]
      BY <1>3, <2>5
    <3>3. Parents(c) \cap visited # {}
      BY <1>3, <2>1, <2>5, <3>2
    <3>4. PICK m \in Parents(c) \cap visited : depth[c] = depth[m] + 1
      BY <2>1, <3>3
    <3>5. QED
      BY <1>5, <2>1, <2>5, <3>1, <3>2, <3>4
  <2>6. QED
    BY <2>3, <2>4, <2>5
<1>7. QED
  BY <1>1, <1>2, <1>4, <1>6 DEF DepthsGrow

-------------------------------------------------------------------------------
\* Adding a task to a plan gives a plan, with what it had.
LEMMA WithTaskIsPlan ==
    ASSUME NEW p, IsPlan(p), NEW id \in Ids, NEW type \in TaskTypes,
           NEW sources \in SUBSET Nodes(p)
    PROVE  /\ IsPlan(WithTask(p, id, type, sources))
           /\ Nodes(p) \subseteq Nodes(WithTask(p, id, type, sources))
           /\ p.edges \subseteq WithTask(p, id, type, sources).edges
<1>1. CASE OfType(p, {type}) # {}
  BY <1>1 DEF WithTask
<1>2. CASE OfType(p, {type}) = {}
  <2> DEFINE q == WithTask(p, id, type, sources)
  <2>1. q = [type |-> [n \in Nodes(p) \cup {id} |-> IF n = id THEN type ELSE p.type[n]],
             edges |-> p.edges \cup (sources \X {id})]
    BY <1>2 DEF WithTask
  <2>2. Nodes(q) = Nodes(p) \cup {id}
    BY <2>1 DEF Nodes
  <2>3. q.type \in [Nodes(q) -> TaskTypes]
    BY <2>1, <2>2 DEF IsPlan
  <2>4. q.edges \subseteq Nodes(q) \X Nodes(q)
    <3>1. q.edges = p.edges \cup (sources \X {id})
      BY <2>1
    <3>2. p.edges \subseteq Nodes(p) \X Nodes(p)
      BY DEF IsPlan
    <3>3. sources \subseteq Nodes(q) /\ id \in Nodes(q) /\ Nodes(p) \subseteq Nodes(q)
      BY <2>2
    <3> HIDE DEF q
    <3>4. p.edges \subseteq Nodes(q) \X Nodes(q)
      BY <3>2, <3>3
    <3>5. sources \X {id} \subseteq Nodes(q) \X Nodes(q)
      BY <3>3
    <3>6. QED
      BY <3>1, <3>4, <3>5
  <2>5. q = [type |-> q.type, edges |-> q.edges]
    BY <2>1
  <2>6. Nodes(q) \subseteq Ids
    BY <2>2 DEF IsPlan
  <2>7. p.edges \subseteq q.edges
    BY <2>1
  <2>8. IsPlan(q) /\ Nodes(p) \subseteq Nodes(q)
    <3> HIDE DEF q
    <3>1. QED
      BY <2>2, <2>3, <2>4, <2>5, <2>6 DEF IsPlan
  <2>9. QED
    BY <2>7, <2>8
<1>3. QED
  BY <1>1, <1>2

\* It has a task of the type asked for, and no new ones of other types.
LEMMA WithTaskHasType ==
    ASSUME NEW p, NEW id, NEW type, NEW sources
    PROVE  /\ OfType(WithTask(p, id, type, sources), {type}) # {}
           /\ \A k : k # type =>
                 OfType(WithTask(p, id, type, sources), {k}) \subseteq OfType(p, {k})
<1>1. CASE OfType(p, {type}) # {}
  BY <1>1 DEF WithTask
<1>2. CASE OfType(p, {type}) = {}
  <2> DEFINE q == WithTask(p, id, type, sources)
  <2>1. q = [type |-> [n \in Nodes(p) \cup {id} |-> IF n = id THEN type ELSE p.type[n]],
             edges |-> p.edges \cup (sources \X {id})]
    BY <1>2 DEF WithTask
  <2>2. Nodes(q) = Nodes(p) \cup {id}
    BY <2>1 DEF Nodes
  <2>3. \A n \in Nodes(q) : q.type[n] = IF n = id THEN type ELSE p.type[n]
    BY <2>1, <2>2
  <2>4. id \in OfType(q, {type})
    BY <2>2, <2>3 DEF OfType
  <2>5. \A k : k # type => OfType(q, {k}) \subseteq OfType(p, {k})
    BY <2>2, <2>3 DEF OfType
  <2>6. QED
    BY <2>4, <2>5
<1>3. QED
  BY <1>1, <1>2

\* The last task of a type is only replaced by one that would depend on itself.
LEMMA WithTaskKeepsType ==
    ASSUME NEW p, NEW id, NEW type, NEW sources, NEW k,
           k # type, OfType(p, {k}) # {}, OfType(p, {k}) \subseteq sources,
           ~SelfDependent(WithTask(p, id, type, sources))
    PROVE  OfType(WithTask(p, id, type, sources), {k}) # {}
<1>1. CASE OfType(p, {type}) # {}
  BY <1>1 DEF WithTask
<1>2. CASE OfType(p, {type}) = {}
  <2> DEFINE q == WithTask(p, id, type, sources)
  <2>1. q = [type |-> [n \in Nodes(p) \cup {id} |-> IF n = id THEN type ELSE p.type[n]],
             edges |-> p.edges \cup (sources \X {id})]
    BY <1>2 DEF WithTask
  <2>2. Nodes(q) = Nodes(p) \cup {id}
    BY <2>1 DEF Nodes
  <2>3. PICK n \in OfType(p, {k}) : TRUE
    OBVIOUS
  <2>4. n # id
    <3>1. SUFFICES ASSUME n = id PROVE FALSE
      OBVIOUS
    <3>2. q.edges = p.edges \cup (sources \X {id})
      BY <2>1
    <3>3. id \in sources /\ id \in Nodes(q)
      BY <2>2, <2>3, <3>1
    <3>4. ~SelfDependent(q)
      OBVIOUS
    <3> HIDE DEF q
    <3>5. <<id, id>> \in q.edges
      BY <3>2, <3>3
    <3>6. QED
      BY <3>3, <3>4, <3>5 DEF SelfDependent
  <2>5. n \in Nodes(q) /\ q.type[n] = p.type[n]
    BY <2>1, <2>2, <2>3, <2>4 DEF OfType
  <2>6. n \in OfType(q, {k})
    BY <2>3, <2>5 DEF OfType
  <2>7. QED
    BY <2>6
<1>3. QED
  BY <1>1, <1>2

\* A completed plan is a plan, and has every kind unless a task depends on itself.
LEMMA CompletedIsComplete ==
    ASSUME NEW p, IsPlan(p)
    PROVE  /\ IsPlan(Completed(p))
           /\ ~SelfDependent(Completed(p)) => HasEveryKind(Completed(p))
<1> DEFINE p1 == WithSynthesis(p)
           an == OfType(p1, {"SYNTHESIS"})
           p2 == WithVerification(p1, OfType(p, Searches))
           ver == OfType(p2, {"VERIFICATION"})
           p3 == WithEvaluation(p2, an)
           p4 == WithReport(p3, an, ver)
<1>1. Completed(p) = p4
  BY DEF Completed
<1>2. \A q, types : OfType(q, types) \subseteq Nodes(q)
  BY DEF OfType
<1>3. IsPlan(p1) /\ Nodes(p) \subseteq Nodes(p1)
  BY <1>2, WithTaskIsPlan DEF WithSynthesis, Ids, AutoIds, TaskTypes
<1>4. IsPlan(p2) /\ Nodes(p1) \subseteq Nodes(p2) /\ p1.edges \subseteq p2.edges
  <2>1. OfType(p, Searches) \cup OfType(p1, {"SYNTHESIS"}) \in SUBSET Nodes(p1)
    BY <1>2, <1>3
  <2>2. "task_ver_auto" \in Ids /\ "VERIFICATION" \in TaskTypes
    BY DEF Ids, AutoIds, TaskTypes
  <2>3. QED
    BY <1>3, <2>1, <2>2, WithTaskIsPlan DEF WithVerification
<1>5. IsPlan(p3) /\ Nodes(p2) \subseteq Nodes(p3) /\ p2.edges \subseteq p3.edges
  <2>1. an \cup OfType(p2, {"VERIFICATION"}) \in SUBSET Nodes(p2)
    BY <1>2, <1>4
  <2>2. "task_eval_auto" \in Ids /\ "EVALUATION" \in TaskTypes
    BY DEF Ids, AutoIds, TaskTypes
  <2>3. QED
    BY <1>4, <2>1, <2>2, WithTaskIsPlan DEF WithEvaluation
<1>6. IsPlan(p4) /\ Nodes(p3) \subseteq Nodes(p4) /\ p3.edges \subseteq p4.edges
  <2>1. an \cup ver \cup OfType(p3, {"EVALUATION"}) \in SUBSET Nodes(p3)
    BY <1>2, <1>4, <1>5
  <2>2. "task_rep_auto" \in Ids /\ "REPORTING" \in TaskTypes
    BY DEF Ids, AutoIds, TaskTypes
  <2>3. QED
    BY <1>5, <2>1, <2>2, WithTaskIsPlan DEF WithReport
<1>7. ASSUME ~SelfDependent(p4)
      PROVE  HasEveryKind(p4)
  <2>1. ~SelfDependent(p3)
    BY <1>6, <1>7 DEF SelfDependent
  <2>2. ~SelfDependent(p2)
    BY <1>5, <2>1 DEF SelfDependent
  <2>3. an # {}
    BY WithTaskHasType DEF WithSynthesis
  <2>4. ver # {} /\ OfType(p2, {"SYNTHESIS"}) \subseteq an
    BY WithTaskHasType DEF WithVerification
  <2>5. OfType(p2, {"SYNTHESIS"}) # {}
    BY <2>2, <2>3, WithTaskKeepsType DEF WithVerification
  <2>6. /\ OfType(p3, {"EVALUATION"}) # {}
        /\ OfType(p3, {"SYNTHESIS"}) \subseteq an
        /\ OfType(p3, {"VERIFICATION"}) \subseteq ver
    BY <2>4, WithTaskHasType DEF WithEvaluation
  <2>7. OfType(p3, {"SYNTHESIS"}) # {} /\ OfType(p3, {"VERIFICATION"}) # {}
    BY <2>1, <2>4, <2>5, WithTaskKeepsType DEF WithEvaluation
  <2>8. OfType(p4, {"REPORTING"}) # {}
    BY WithTaskHasType DEF WithReport
  <2>9. /\ OfType(p4, {"SYNTHESIS"}) # {} /\ OfType(p4, {"VERIFICATION"}) # {}
        /\ OfType(p4, {"EVALUATION"}) # {}
    BY <1>7, <2>6, <2>7, WithTaskKeepsType DEF WithReport
  <2>10. QED
    BY <2>8, <2>9 DEF HasEveryKind, WorkersKinds
<1>8. QED
  BY <1>1, <1>6, <1>7

LEMMA RubricsAreCounted ==
    ASSUME NEW report \in Reports(MaxRubrics)
    PROVE  report.weakRubrics \in Nat
BY LimitsAssumption DEF Reports

\* Each deficiency of a report asks for a kind of search.
LEMMA DeficienciesAreSearches ==
    ASSUME NEW report, report.weakRubrics \in Nat
    PROVE  Deficiencies(report) \in Seq(Searches)
<1>1. \A c, t : t \in Searches => Where(c, t) \in Seq(Searches)
  BY DEF Where
<1>2. [i \in 1..report.weakRubrics |-> "WEB_SEARCH"] \in Seq(Searches)
  BY DEF Searches
<1>3. /\ Where(report.incomplete, "WEB_SEARCH") \in Seq(Searches)
      /\ Where(report.unsupported, "ACADEMIC_SEARCH") \in Seq(Searches)
      /\ Where(report.uncited, "ACADEMIC_SEARCH") \in Seq(Searches)
      /\ Where(report.contradicted, "DOC_ANALYSIS") \in Seq(Searches)
      /\ Where(report.low, "WEB_SEARCH") \in Seq(Searches)
  BY <1>1 DEF Searches
<1>4. QED
  BY <1>2, <1>3 DEF Deficiencies

\* A refinement plan is one, whatever the report says.
LEMMA RefinementIsPlan ==
    ASSUME NEW report, report.weakRubrics \in Nat
    PROVE  IsPlan(Refinement(RefinementSearches(Deficiencies(report))))
<1> DEFINE ds == Deficiencies(report)
           searches == RefinementSearches(ds)
           res == {s[1] : s \in searches}
           p == Refinement(searches)
<1>1. ds \in Seq(Searches)
  BY DeficienciesAreSearches
<1>2. searches \subseteq RefineIds \X Searches
  <2>1. ds = <<>> => searches \subseteq RefineIds \X Searches
    BY DEF RefinementSearches, RefineIds, Searches
  <2>2. \A i \in 1..4 : SearchIds[i] \in RefineIds
    BY DEF SearchIds, RefineIds
  <2>3. \A i \in DOMAIN ds : ds[i] \in Searches
    BY <1>1
  <2>4. QED
    BY <2>1, <2>2, <2>3 DEF RefinementSearches
<1> HIDE DEF searches
<1>3. DOMAIN After = {"an", "ver", "eval"} /\ \A n \in DOMAIN After : After[n] \in TaskTypes
  BY DEF After, TaskTypes
<1>4. p = [type |-> RefinementTypes(searches),
           edges |-> (res \X {"an", "ver"})
                       \cup {<<"an", "ver">>, <<"an", "eval">>, <<"ver", "eval">>}]
  BY DEF Refinement
<1>5. Nodes(p) = res \cup {"an", "ver", "eval"}
  BY <1>3, <1>4 DEF Nodes, RefinementTypes
<1>6. p.type \in [Nodes(p) -> TaskTypes]
  <2>1. ASSUME NEW n \in res
        PROVE  (CHOOSE s \in searches : s[1] = n)[2] \in TaskTypes
    <3>1. \E s \in searches : s[1] = n
      OBVIOUS
    <3>2. (CHOOSE s \in searches : s[1] = n) \in searches
      BY <3>1
    <3>3. QED
      BY <1>2, <3>2 DEF TaskTypes
  <2>2. RefinementTypes(searches) \in [res \cup DOMAIN After -> TaskTypes]
    BY <1>3, <2>1 DEF RefinementTypes
  <2>3. QED
    BY <1>3, <1>4, <1>5, <2>2
<1>7. p.edges \subseteq Nodes(p) \X Nodes(p) /\ p = [type |-> p.type, edges |-> p.edges]
  BY <1>4, <1>5
<1>8. Nodes(p) \subseteq Ids
  BY <1>2, <1>5 DEF Ids, RefineIds
<1>9. QED
  BY <1>6, <1>7, <1>8 DEF IsPlan, searches

\* So is what the planner makes of a decomposition it does not turn down.
LEMMA DecompositionIsPlan ==
    ASSUME NEW d \in Decompositions, ~Dangling(d)
    PROVE  IsPlan(PlanOf(d))
<1>1. d \in Seq(Subtasks)
  BY DecompositionsAssumption
<1>2. \A i \in DOMAIN d : /\ d[i].id \in SubtaskIds /\ d[i].type \in TaskTypes
                         /\ d[i].needs \subseteq IdsOf(d)
  <2>1. \A i \in DOMAIN d : d[i] \in Subtasks
    BY <1>1
  <2>2. \A x \in Subtasks : x.id \in SubtaskIds /\ x.type \in TaskTypes
    BY DEF Subtasks
  <2>3. \A i \in DOMAIN d : d[i].needs \subseteq IdsOf(d)
    BY DEF Dangling
  <2>4. QED
    BY <2>1, <2>2, <2>3
<1>3. IdsOf(d) \subseteq Ids
  BY <1>2 DEF IdsOf, Ids
<1>4. Nodes(PlanOf(d)) = IdsOf(d)
  BY DEF PlanOf, Nodes
<1>5. PlanOf(d).type \in [IdsOf(d) -> TaskTypes]
  <2>1. ASSUME NEW n \in IdsOf(d)
        PROVE  d[CHOOSE i \in DOMAIN d : d[i].id = n].type \in TaskTypes
    <3>1. \E i \in DOMAIN d : d[i].id = n
      BY DEF IdsOf
    <3>2. (CHOOSE i \in DOMAIN d : d[i].id = n) \in DOMAIN d
      BY <3>1
    <3>3. QED
      BY <1>2, <3>2
  <2>2. QED
    BY <2>1 DEF PlanOf
<1>6. PlanOf(d).edges \subseteq IdsOf(d) \X IdsOf(d)
  <2>1. \A i \in DOMAIN d : d[i].needs \X {d[i].id} \subseteq IdsOf(d) \X IdsOf(d)
    BY <1>2 DEF IdsOf
  <2>2. PlanOf(d).edges = UNION {d[i].needs \X {d[i].id} : i \in DOMAIN d}
    BY DEF PlanOf
  <2>3. QED
    BY <2>1, <2>2
<1>7. PlanOf(d) = [type |-> PlanOf(d).type, edges |-> PlanOf(d).edges]
  BY DEF PlanOf
<1>8. QED
  BY <1>3, <1>4, <1>5, <1>6, <1>7 DEF IsPlan

-------------------------------------------------------------------------------
\* The invariant holds at first, and each action keeps it.
LEMMA InitIInv == Init => IInv
<1>1. SUFFICES ASSUME Init PROVE IInv
  OBVIOUS
<1>2. IsPlan(NoPlan)
  BY DEF NoPlan, IsPlan, Nodes
<1>3. 0 \in 0..MaxRefinements
  BY LimitsAssumption
<1>4. QED
  BY <1>1, <1>2, <1>3 DEF Init, IInv, TypeOK, Sorted, Codes, LoopInv, AcceptedIsAcyclic,
     DepthIsCriticalPath, Accepted, WorkerPlanIsComplete, ErrorEnds, PlannerBegins, CycleIsReal

LEMMA DecomposeKeepsIInv ==
    ASSUME IInv, NEW d \in Decompositions, Decompose(d)
    PROVE  IInv'
<1>1. phase' \in {"check", "rejected"} /\ author' = author /\ UNCHANGED <<kahn, iteration>>
  BY DEF Decompose, Reject
<1>2. IsPlan(plan)'
  BY DecompositionIsPlan DEF Decompose, IInv, TypeOK
<1>3. error' \in Codes /\ error' # "CYCLE_DETECTED" /\ ErrorEnds'
  <2>1. error = "none"
    BY DEF Decompose, IInv, TypeOK, ErrorEnds
  <2>2. QED
    BY <2>1 DEF Decompose, Reject, Codes, ErrorEnds
<1>4. TypeOK'
  BY <1>1, <1>2, <1>3 DEF IInv, TypeOK, Sorted, kahn
<1>5. WorkerPlanIsComplete'
  BY <1>1 DEF Decompose, IInv, PlannerBegins, WorkerPlanIsComplete
<1>6. QED
  BY <1>1, <1>3, <1>4, <1>5 DEF IInv, LoopInv, AcceptedIsAcyclic,
     DepthIsCriticalPath, Accepted, PlannerBegins, CycleIsReal

LEMMA CheckKeepsIInv ==
    ASSUME IInv, Check
    PROVE  IInv'
<1>1. phase' \in {"sort", "rejected"} /\ UNCHANGED <<author, plan, iteration>>
  BY DEF Check, Reject
<1>2. error = "none"
  BY DEF Check, IInv, ErrorEnds
<1>3. error' \in Codes /\ error' # "CYCLE_DETECTED" /\ ErrorEnds'
  BY <1>2 DEF Check, Reject, Flaws, Codes, ErrorEnds
<1>4. /\ visited' \subseteq Ids /\ ready' \subseteq Ids
      /\ Sorted' => /\ degree' \in [Nodes(plan) -> Nat]
                   /\ depth' \in [Nodes(plan) -> Nat]
  <2>1. CASE UNCHANGED kahn /\ phase' = "rejected"
    BY <2>1 DEF IInv, TypeOK, Sorted, kahn
  <2>2. CASE /\ degree' = [n \in Nodes(plan) |-> Cardinality(Parents(n))]
             /\ ready' = {n \in Nodes(plan) : Parents(n) = {}}
             /\ visited' = {}
             /\ depth' = [n \in Nodes(plan) |-> IF Parents(n) = {} THEN 1 ELSE 0]
    <3>1. \A n : Cardinality(Parents(n)) \in Nat
      BY FiniteParents, FS_CardinalityType DEF IInv, TypeOK
    <3>2. Nodes(plan) \subseteq Ids
      BY DEF IInv, TypeOK, IsPlan
    <3>3. QED
      BY <2>2, <3>1, <3>2
  <2>3. QED
    BY <2>1, <2>2 DEF Check, Reject
<1>5. TypeOK'
  BY <1>1, <1>3, <1>4 DEF IInv, TypeOK
<1>6. LoopInv'
  BY <1>1, CheckLoopInv DEF IInv, LoopInv
<1>7. WorkerPlanIsComplete'
  BY <1>1 DEF IInv, WorkerPlanIsComplete, Check
<1>8. QED
  BY <1>1, <1>3, <1>5, <1>6, <1>7
     DEF IInv, AcceptedIsAcyclic, DepthIsCriticalPath, Accepted, PlannerBegins, CycleIsReal

LEMMA VisitKeepsIInv ==
    ASSUME IInv, NEW n \in ready, Visit(n)
    PROVE  IInv'
<1>1. /\ phase = "sort" /\ visited' = visited \cup {n}
      /\ UNCHANGED <<phase, author, plan, error, iteration>>
  BY DEF Visit
<1>2. n \in Nodes(plan)
  BY <1>1, ReadyNode DEF IInv
<1>3. Nodes(plan) \subseteq Ids
  BY DEF IInv, TypeOK, IsPlan
<1>4. DegreesCount' /\ degree' \in [Nodes(plan) -> Nat]
  BY VisitKeepsDegrees DEF IInv
<1>5. DepthsGrow' /\ depth' \in [Nodes(plan) -> Nat]
  BY VisitKeepsDepths DEF IInv
<1>6. VisitedInOrder'
  BY VisitKeepsOrder DEF IInv
<1>7. LoopInv'
  <2>1. ~SelfDependent(plan) /\ visited \subseteq Nodes(plan)
    BY <1>1 DEF IInv, LoopInv
  <2>2. QED
    BY <1>1, <1>2, <1>4, <1>5, <1>6, <2>1 DEF LoopInv
<1>8. TypeOK'
  <2>1. ready' \subseteq Nodes(plan)
    BY <1>1, <1>4 DEF DegreesCount
  <2>2. visited' \subseteq Ids
    BY <1>1, <1>2, <1>3 DEF IInv, TypeOK
  <2>3. QED
    BY <1>1, <1>3, <1>4, <1>5, <2>1, <2>2 DEF IInv, TypeOK
<1>9. QED
  BY <1>1, <1>7, <1>8 DEF IInv, AcceptedIsAcyclic, DepthIsCriticalPath, Accepted,
     WorkerPlanIsComplete, ErrorEnds, PlannerBegins, CycleIsReal

\* When the queue is empty, the nodes not visited wait for one another.
LEMMA ConcludeKeepsIInv ==
    ASSUME IInv, Conclude
    PROVE  IInv'
<1>1. /\ phase = "sort" /\ ready = {} /\ error = "none"
      /\ phase' \in {"complete", "execute", "rejected"}
      /\ UNCHANGED <<author, plan, kahn, iteration>>
  BY DEF Conclude, Reject, IInv, ErrorEnds
<1>2. error' \in Codes /\ ErrorEnds'
  BY <1>1 DEF Conclude, Reject, Codes, ErrorEnds
<1>3. TypeOK'
  BY <1>1, <1>2 DEF IInv, TypeOK, Sorted, kahn
<1>4. \A n : Parents(n)' = Parents(n)
  BY <1>1 DEF Parents
<1>5. /\ visited \subseteq Nodes(plan) /\ VisitedInOrder /\ DegreesCount /\ DepthsGrow
  BY <1>1 DEF IInv, LoopInv
<1>6. \A n : Parents(n) \subseteq Nodes(plan)
  BY DEF Parents, Prerequisites
<1>7. AcceptedIsAcyclic' /\ DepthIsCriticalPath'
  <2>1. CASE visited = Nodes(plan)
    <3>1. Acyclic(plan)
      BY <1>5, <2>1 DEF VisitedInOrder, Acyclic, Parents
    <3>2. \A n \in Nodes(plan) : Parents(n) \cap visited = Parents(n)
      BY <1>6, <2>1
    <3>3. DepthIsCriticalPath'
      BY <1>1, <1>4, <1>5, <3>2 DEF DepthsGrow, DepthIsCriticalPath, kahn
    <3>4. QED
      BY <1>1, <3>1, <3>3 DEF AcceptedIsAcyclic
  <2>2. CASE visited # Nodes(plan)
    BY <2>2 DEF Conclude, LeftOver, Reject, AcceptedIsAcyclic, DepthIsCriticalPath, Accepted
  <2>3. QED
    BY <2>1, <2>2
<1>8. CycleIsReal'
  <2>1. SUFFICES ASSUME LeftOver PROVE ~Acyclic(plan)
    BY <1>1 DEF Conclude, Reject, CycleIsReal
  <2> DEFINE S == Nodes(plan) \ visited
  <2>2. S \in SUBSET Nodes(plan) /\ S # {}
    BY <1>5, <2>1 DEF LeftOver
  <2>3. ASSUME NEW n \in S
        PROVE  Parents(n) \cap S # {}
    <3>1. Cardinality(Parents(n) \ visited) # 0
      BY <1>1, <1>5, <2>3 DEF DegreesCount
    <3>2. Parents(n) \ visited # {}
      BY <3>1, FS_EmptySet
    <3>3. QED
      BY <1>6, <3>2
  <2>4. QED
    BY <2>2, <2>3 DEF Acyclic, Parents
<1>9. QED
  BY <1>1, <1>2, <1>3, <1>7, <1>8 DEF IInv, LoopInv, PlannerBegins, WorkerPlanIsComplete

LEMMA CompleteKeepsIInv ==
    ASSUME IInv, Complete
    PROVE  IInv'
<1>1. /\ error = "none" /\ phase' \in {"check", "rejected"}
      /\ plan' = Completed(plan) /\ author' = "worker" /\ iteration' = iteration
      /\ ready' = {} /\ visited' = {}
  BY DEF Complete, Reject, Validated, IInv, ErrorEnds
<1>2. error' \in Codes /\ error' # "CYCLE_DETECTED" /\ ErrorEnds'
  BY <1>1 DEF Complete, Reject, Codes, ErrorEnds
<1>3. /\ IsPlan(plan')
      /\ ~SelfDependent(plan') => HasEveryKind(plan')
  BY <1>1, CompletedIsComplete DEF IInv, TypeOK
<1>4. TypeOK'
  BY <1>1, <1>2, <1>3 DEF IInv, TypeOK, Sorted
<1>5. WorkerPlanIsComplete'
  BY <1>3 DEF Complete, Reject, WorkerPlanIsComplete
<1>6. QED
  BY <1>1, <1>2, <1>4, <1>5 DEF IInv, LoopInv, AcceptedIsAcyclic,
     DepthIsCriticalPath, Accepted, PlannerBegins, CycleIsReal

LEMMA RefineKeepsIInv ==
    ASSUME IInv, NEW report \in Reports(MaxRubrics), Refine(report)
    PROVE  IInv'
<1>1. /\ phase' = "check" /\ author' = "refiner" /\ UNCHANGED error
      /\ iteration' = iteration + 1 /\ iteration < MaxRefinements
      /\ ready' = {} /\ visited' = {}
      /\ error = "none"
  BY DEF Refine, Validated, IInv, ErrorEnds
<1>2. IsPlan(plan')
  BY RubricsAreCounted, RefinementIsPlan DEF Refine
<1>3. iteration' \in 0..MaxRefinements
  BY <1>1, LimitsAssumption DEF IInv, TypeOK
<1>4. TypeOK'
  BY <1>1, <1>2, <1>3 DEF IInv, TypeOK, Sorted
<1>5. QED
  BY <1>1, <1>4 DEF IInv, LoopInv, AcceptedIsAcyclic, DepthIsCriticalPath, Accepted,
     WorkerPlanIsComplete, ErrorEnds, PlannerBegins, CycleIsReal

LEMMA StutterKeepsIInv ==
    ASSUME IInv, UNCHANGED vars
    PROVE  IInv'
<1>1. /\ phase' = phase /\ author' = author /\ plan' = plan /\ degree' = degree
      /\ ready' = ready /\ visited' = visited /\ depth' = depth /\ error' = error
      /\ iteration' = iteration
  BY DEF vars
<1>2. \A n : Parents(n)' = Parents(n)
  BY <1>1 DEF Parents
<1>3. LoopInv'
  BY <1>1, <1>2 DEF IInv, LoopInv, VisitedInOrder, DegreesCount, DepthsGrow
<1>4. TypeOK'
  BY <1>1 DEF IInv, TypeOK, Sorted
<1>5. DepthIsCriticalPath' /\ AcceptedIsAcyclic' /\ CycleIsReal'
  BY <1>1, <1>2 DEF IInv, DepthIsCriticalPath, AcceptedIsAcyclic, Accepted, CycleIsReal
<1>6. QED
  BY <1>1, <1>3, <1>4, <1>5 DEF IInv, WorkerPlanIsComplete, ErrorEnds, PlannerBegins

THEOREM IInvIsInvariant == Spec => []IInv
<1>1. IInv /\ [Next]_vars => IInv'
  <2>1. SUFFICES ASSUME IInv, [Next]_vars PROVE IInv'
    OBVIOUS
  <2>2. QED
    BY <2>1, DecomposeKeepsIInv, CheckKeepsIInv, VisitKeepsIInv, ConcludeKeepsIInv,
       CompleteKeepsIInv, RefineKeepsIInv, StutterKeepsIInv DEF Next
<1>2. QED
  BY <1>1, InitIInv, PTL DEF Spec

-------------------------------------------------------------------------------
\* Every plan on the way is one, and so are the tables of the validator.
THEOREM TypeCorrectness == Spec => []TypeOK
<1>1. IInv => TypeOK
  BY DEF IInv
<1>2. QED
  BY <1>1, IInvIsInvariant, PTL

\* tasks/dag.py accepts no plan with a cycle, whatever the planner or the worker made.
THEOREM AcceptedPlansAreAcyclic == Spec => []AcceptedIsAcyclic
<1>1. IInv => AcceptedIsAcyclic
  BY DEF IInv
<1>2. QED
  BY <1>1, IInvIsInvariant, PTL

\* And it turns none down for a cycle that has none.
THEOREM CyclesAreReal == Spec => []CycleIsReal
<1>1. IInv => CycleIsReal
  BY DEF IInv
<1>2. QED
  BY <1>1, IInvIsInvariant, PTL

\* What Kahn's algorithm in tasks/dag.py says of cycles is so, either way.
THEOREM VerdictsAreRight == Spec => []VerdictIsRight
BY AcceptedPlansAreAcyclic, CyclesAreReal, PTL DEF VerdictIsRight

\* The depths that MAX_DEPTH_LIMIT is applied to are those of longest paths.
THEOREM DepthsAreCriticalPaths == Spec => []DepthIsCriticalPath
<1>1. IInv => DepthIsCriticalPath
  BY DEF IInv
<1>2. QED
  BY <1>1, IInvIsInvariant, PTL

\* A completed plan that gets to the scheduler has a task of every kind.
THEOREM ExecutedPlansAreComplete == Spec => []ExecutedPlanIsComplete
<1>1. IInv => ExecutedPlanIsComplete
  BY DEF IInv, WorkerPlanIsComplete, ExecutedPlanIsComplete, HasEveryKind, WorkersKinds
<1>2. QED
  BY <1>1, IInvIsInvariant, PTL

-------------------------------------------------------------------------------
(* Refinement plans pass the validator.  Each has the shape that                *)
(* create_refinement_plan gives it: searches, at most four, that synthesis and  *)
(* verification wait for, and an evaluation that waits for these.               *)
Followers == {"an", "ver", "eval"}
SearchesOf(p) == Nodes(p) \ Followers

IsRefinement(p) ==
    /\ Followers \subseteq Nodes(p)
    /\ SearchesOf(p) # {} /\ IsFiniteSet(SearchesOf(p)) /\ Cardinality(SearchesOf(p)) =< 4
    /\ p.edges = (SearchesOf(p) \X {"an", "ver"})
                    \cup {<<"an", "ver">>, <<"an", "eval">>, <<"ver", "eval">>}

\* What the refiner made is of that shape and is never turned down; only a planner's
\* plan gets to the worker.
RefinerInv ==
    /\ author = "refiner" => phase # "rejected" /\ IsRefinement(plan)
    /\ phase = "complete" => author = "planner"

LEMMA TwoAtMost ==
    ASSUME NEW a, NEW b, NEW S, S \subseteq {a, b}
    PROVE  IsFiniteSet(S) /\ Cardinality(S) =< 2
<1>1. IsFiniteSet({a}) /\ Cardinality({a}) = 1
  BY FS_Singleton
<1>2. {a, b} = {a} \cup {b}
  OBVIOUS
<1>3. /\ IsFiniteSet({a, b})
      /\ Cardinality({a, b}) = IF b \in {a} THEN Cardinality({a}) ELSE Cardinality({a}) + 1
  BY <1>1, <1>2, FS_AddElement
<1>4. Cardinality({a, b}) =< 2 /\ Cardinality({a, b}) \in Nat
  BY <1>1, <1>3
<1>5. IsFiniteSet(S) /\ Cardinality(S) =< Cardinality({a, b}) /\ Cardinality(S) \in Nat
  BY <1>3, FS_Subset, FS_CardinalityType
<1>6. QED
  BY <1>4, <1>5

\* There are four ids for searches.
LEMMA FourSearchIds ==
    ASSUME NEW S \in SUBSET {"res_1", "res_2", "res_3", "res_4"}
    PROVE  IsFiniteSet(S) /\ Cardinality(S) =< 4
<1> DEFINE A == {"res_1", "res_2"}
           B == {"res_3", "res_4"}
<1>1. /\ IsFiniteSet(A \cap S) /\ Cardinality(A \cap S) =< 2
      /\ IsFiniteSet(B \cap S) /\ Cardinality(B \cap S) =< 2
  BY TwoAtMost
<1>2. S = (A \cap S) \cup (B \cap S) /\ (A \cap S) \cap (B \cap S) = {}
  OBVIOUS
<1> HIDE DEF A, B
<1>3. /\ IsFiniteSet(S)
      /\ Cardinality(S) = Cardinality(A \cap S) + Cardinality(B \cap S)
                            - Cardinality((A \cap S) \cap (B \cap S))
  BY <1>1, <1>2, FS_Union
<1>4. Cardinality((A \cap S) \cap (B \cap S)) = 0
  BY <1>2, FS_EmptySet
<1>5. Cardinality(A \cap S) \in Nat /\ Cardinality(B \cap S) \in Nat
  BY <1>1, FS_CardinalityType
<1>6. QED
  BY <1>1, <1>3, <1>4, <1>5

LEMMA RefinementHasShape ==
    ASSUME NEW report \in Reports(MaxRubrics)
    PROVE  IsRefinement(Refinement(RefinementSearches(Deficiencies(report))))
<1> DEFINE ds == Deficiencies(report)
           searches == RefinementSearches(ds)
           res == {s[1] : s \in searches}
           p == Refinement(searches)
<1>1. ds = <<>> \/ 1 \in DOMAIN ds
  <2>1. ds \in Seq(Searches)
    BY RubricsAreCounted, DeficienciesAreSearches
  <2>2. QED
    BY <2>1
<1>2. /\ res # {} /\ IsFiniteSet(res) /\ Cardinality(res) =< 4
      /\ res \cap Followers = {}
  <2>1. CASE ds = <<>>
    <3>1. res = {"res_fallback"}
      BY <2>1 DEF RefinementSearches
    <3> HIDE DEF res
    <3>2. IsFiniteSet(res) /\ Cardinality(res) = 1
      BY <3>1, FS_Singleton
    <3>3. QED
      BY <3>1, <3>2 DEF Followers
  <2>2. CASE ds # <<>>
    <3>1. searches = {<<SearchIds[i], ds[i]>> : i \in DOMAIN ds \cap (1..4)}
      BY <2>2 DEF RefinementSearches
    <3>2. /\ \A s \in searches : \E i \in 1..4 : s[1] = SearchIds[i]
          /\ <<SearchIds[1], ds[1]>> \in searches
      BY <1>1, <2>2, <3>1
    <3>3. \A i \in 1..4 : SearchIds[i] \in {"res_1", "res_2", "res_3", "res_4"}
      BY DEF SearchIds
    <3>4. res \in SUBSET {"res_1", "res_2", "res_3", "res_4"} /\ res # {}
      BY <3>2, <3>3
    <3> HIDE DEF res
    <3>5. QED
      BY <3>4, FourSearchIds DEF Followers
  <2>3. QED
    BY <2>1, <2>2
<1> HIDE DEF searches
<1>3. p = [type |-> RefinementTypes(searches),
           edges |-> (res \X {"an", "ver"})
                       \cup {<<"an", "ver">>, <<"an", "eval">>, <<"ver", "eval">>}]
  BY DEF Refinement
<1>4. DOMAIN After = Followers
  BY DEF After, Followers
<1>5. Nodes(p) = res \cup Followers
  BY <1>3, <1>4 DEF Nodes, RefinementTypes
<1>6. SearchesOf(p) = res
  BY <1>2, <1>5 DEF SearchesOf
<1>7. p.edges = (res \X {"an", "ver"})
                  \cup {<<"an", "ver">>, <<"an", "eval">>, <<"ver", "eval">>}
  BY <1>3
<1>8. IsRefinement(p)
  <2> HIDE DEF p, res
  <2>1. QED
    BY <1>2, <1>5, <1>6, <1>7 DEF IsRefinement
<1>9. QED
  BY <1>8 DEF searches

\* What waits for what in it.
LEMMA RefinementEdges ==
    ASSUME NEW p, IsRefinement(p)
    PROVE  /\ Nodes(p) = SearchesOf(p) \cup Followers
           /\ \A n \in SearchesOf(p) :
                 Prerequisites(p, n) = {} /\ Dependents(p, n) \subseteq {"an", "ver"}
           /\ Prerequisites(p, "an") = SearchesOf(p)
           /\ Dependents(p, "an") \subseteq {"ver", "eval"}
           /\ Prerequisites(p, "ver") = SearchesOf(p) \cup {"an"}
           /\ Dependents(p, "ver") \subseteq {"eval", "eval"}
           /\ Prerequisites(p, "eval") = {"an", "ver"}
           /\ Dependents(p, "eval") \subseteq {"eval", "eval"} \ {"eval"}
<1>1. Nodes(p) = SearchesOf(p) \cup Followers /\ SearchesOf(p) \cap Followers = {}
  BY DEF IsRefinement, SearchesOf
<1>2. \A m, n : <<m, n>> \in p.edges <=>
        \/ m \in SearchesOf(p) /\ n \in {"an", "ver"}
        \/ m = "an" /\ n = "ver"
        \/ m = "an" /\ n = "eval"
        \/ m = "ver" /\ n = "eval"
  BY DEF IsRefinement
<1>3. QED
  BY <1>1, <1>2 DEF Followers, Prerequisites, Dependents

LEMMA RefinementHasNoFlaws ==
    ASSUME NEW p, IsRefinement(p)
    PROVE  Flaws(p) = {}
<1>1. Nodes(p) # {}
  BY DEF IsRefinement, Followers
<1>2. Cardinality(Nodes(p)) =< 7
  <2>1. /\ IsFiniteSet({"an", "ver"}) /\ Cardinality({"an", "ver"}) =< 2
        /\ Cardinality({"an", "ver"}) \in Nat
    BY TwoAtMost, FS_CardinalityType
  <2>2. /\ IsFiniteSet(SearchesOf(p) \cup {"an", "ver"})
        /\ Cardinality(SearchesOf(p) \cup {"an", "ver"})
             = Cardinality(SearchesOf(p)) + Cardinality({"an", "ver"})
                 - Cardinality(SearchesOf(p) \cap {"an", "ver"})
    BY <2>1, FS_Union DEF IsRefinement
  <2>3. Cardinality(SearchesOf(p)) \in Nat /\ Cardinality(SearchesOf(p)) =< 4
    BY FS_CardinalityType DEF IsRefinement
  <2>4. SearchesOf(p) \cap {"an", "ver"} = {}
    BY DEF SearchesOf, Followers
  <2>5. Cardinality(SearchesOf(p) \cup {"an", "ver"}) =< 6
    <3>1. Cardinality(SearchesOf(p) \cap {"an", "ver"}) = 0
      BY <2>4, FS_EmptySet
    <3>2. QED
      BY <2>1, <2>2, <2>3, <3>1
  <2>6. Nodes(p) = (SearchesOf(p) \cup {"an", "ver"}) \cup {"eval"}
    BY RefinementEdges DEF Followers
  <2>7. Cardinality(Nodes(p)) \in {Cardinality(SearchesOf(p) \cup {"an", "ver"}),
                                   Cardinality(SearchesOf(p) \cup {"an", "ver"}) + 1}
    BY <2>2, <2>6, FS_AddElement
  <2>8. Cardinality(SearchesOf(p) \cup {"an", "ver"}) \in Nat
    BY <2>2, FS_CardinalityType
  <2>9. QED
    BY <2>5, <2>7, <2>8
<1>3. Cardinality(Nodes(p)) \in Nat
  <2>1. IsFiniteSet({"an", "ver"} \cup {"eval"})
    BY TwoAtMost, FS_Singleton, FS_Union
  <2>2. Nodes(p) = SearchesOf(p) \cup ({"an", "ver"} \cup {"eval"})
    BY RefinementEdges DEF Followers
  <2>3. IsFiniteSet(Nodes(p))
    <3>1. IsFiniteSet(SearchesOf(p))
      BY DEF IsRefinement
    <3>2. QED
      BY <2>1, <2>2, <3>1, FS_Union
  <2>4. QED
    BY <2>3, FS_CardinalityType
<1>4. ~(Cardinality(Nodes(p)) > MaxNodes)
  BY <1>2, <1>3, LimitsAssumption
<1>5. ~SelfDependent(p) /\ p.edges \subseteq Nodes(p) \X Nodes(p)
  <2>1. \A m, n : <<m, n>> \in p.edges => m \in Nodes(p) /\ n \in Nodes(p) /\ m # n
    BY DEF IsRefinement, SearchesOf, Followers
  <2>2. p.edges \subseteq Nodes(p) \X Nodes(p)
    BY DEF IsRefinement, SearchesOf, Followers
  <2>3. QED
    BY <2>1, <2>2 DEF SelfDependent
<1>6. ASSUME NEW n \in Nodes(p)
      PROVE  ~(Cardinality(Dependents(p, n)) > MaxFanOut)
  <2>1. \E a, b : Dependents(p, n) \subseteq {a, b}
    <3>1. n \in SearchesOf(p) \/ n = "an" \/ n = "ver" \/ n = "eval"
      BY <1>6, RefinementEdges DEF Followers
    <3>2. CASE n = "eval"
      <4>1. Dependents(p, n) \subseteq {"eval", "eval"}
        BY <3>2, RefinementEdges
      <4>2. QED
        BY <4>1
    <3>3. QED
      BY <3>1, <3>2, RefinementEdges
  <2>2. IsFiniteSet(Dependents(p, n)) /\ Cardinality(Dependents(p, n)) =< 2
    BY <2>1, TwoAtMost
  <2>3. Cardinality(Dependents(p, n)) \in Nat
    BY <2>2, FS_CardinalityType
  <2>4. QED
    BY <2>2, <2>3, LimitsAssumption
<1>7. QED
  BY <1>1, <1>4, <1>5, <1>6 DEF Flaws

LEMMA RefinementIsAcyclic ==
    ASSUME NEW p, IsRefinement(p)
    PROVE  Acyclic(p)
<1>1. SUFFICES ASSUME NEW S \in SUBSET Nodes(p), S # {}
               PROVE  \E n \in S : Prerequisites(p, n) \cap S = {}
  BY DEF Acyclic
<1>2. CASE \E n \in S : n \in SearchesOf(p)
  <2>1. PICK n \in S : n \in SearchesOf(p)
    BY <1>2
  <2>2. Prerequisites(p, n) = {}
    BY <2>1, RefinementEdges
  <2>3. QED
    BY <2>1, <2>2
<1>3. CASE S \cap SearchesOf(p) = {} /\ "an" \in S
  <2>1. Prerequisites(p, "an") = SearchesOf(p)
    BY RefinementEdges
  <2>2. QED
    BY <1>3, <2>1
<1>4. CASE S \cap SearchesOf(p) = {} /\ "an" \notin S /\ "ver" \in S
  <2>1. Prerequisites(p, "ver") = SearchesOf(p) \cup {"an"}
    BY RefinementEdges
  <2>2. QED
    BY <1>4, <2>1
<1>5. CASE S \cap SearchesOf(p) = {} /\ "an" \notin S /\ "ver" \notin S
  <2>1. Prerequisites(p, "eval") = {"an", "ver"}
    BY RefinementEdges
  <2>2. S = {"eval"}
    BY <1>1, <1>5, RefinementEdges DEF Followers
  <2>3. QED
    BY <2>1, <2>2
<1>6. QED
  BY <1>2, <1>3, <1>4, <1>5

\* Critical-path depths of it are 1 for a search, then 2, 3 and 4.
LEMMA RefinementIsFourDeep ==
    ASSUME IsRefinement(plan), depth \in [Nodes(plan) -> Nat],
           \A n \in Nodes(plan) :
              /\ Parents(n) = {} => depth[n] = 1
              /\ \A m \in Parents(n) : depth[m] < depth[n]
              /\ Parents(n) # {} => \E m \in Parents(n) : depth[n] = depth[m] + 1
    PROVE  /\ depth["eval"] = RefinementDepth
           /\ \A n \in Nodes(plan) : depth[n] =< RefinementDepth
<1>1. Nodes(plan) = SearchesOf(plan) \cup Followers
  BY RefinementEdges
<1>2. \A n \in SearchesOf(plan) : depth[n] = 1
  BY <1>1, RefinementEdges DEF Parents
<1>3. depth["an"] = 2
  <2>1. Parents("an") = SearchesOf(plan) /\ "an" \in Nodes(plan)
    BY <1>1, RefinementEdges DEF Parents, Followers
  <2>2. Parents("an") # {}
    BY <2>1 DEF IsRefinement
  <2>3. QED
    BY <1>2, <2>1, <2>2
<1>4. depth["ver"] = 3
  <2>1. Parents("ver") = SearchesOf(plan) \cup {"an"} /\ "ver" \in Nodes(plan)
    BY <1>1, RefinementEdges DEF Parents, Followers
  <2>2. PICK m \in Parents("ver") : depth["ver"] = depth[m] + 1
    BY <2>1
  <2>3. depth["an"] < depth["ver"]
    BY <2>1
  <2>4. QED
    BY <1>2, <1>3, <2>1, <2>2, <2>3
<1>5. depth["eval"] = 4
  <2>1. Parents("eval") = {"an", "ver"} /\ "eval" \in Nodes(plan)
    BY <1>1, RefinementEdges DEF Parents, Followers
  <2>2. PICK m \in Parents("eval") : depth["eval"] = depth[m] + 1
    BY <2>1
  <2>3. depth["ver"] < depth["eval"]
    BY <2>1
  <2>4. QED
    BY <1>3, <1>4, <2>1, <2>2, <2>3
<1>6. QED
  BY <1>1, <1>2, <1>3, <1>4, <1>5 DEF Followers, RefinementDepth

LEMMA ConcludeKeepsRefinerInv ==
    ASSUME IInv, IInv', RefinerInv, Conclude
    PROVE  RefinerInv'
<1>1. /\ phase = "sort" /\ UNCHANGED <<author, plan, kahn, iteration>>
      /\ phase' = "complete" => author = "planner"
  BY DEF Conclude, Reject
<1>2. SUFFICES ASSUME author = "refiner" PROVE phase' # "rejected"
  BY <1>1 DEF RefinerInv
<1>3. IsRefinement(plan) /\ Acyclic(plan)
  BY <1>2, RefinementIsAcyclic DEF RefinerInv
<1>4. ~LeftOver
  <2>1. LeftOver => error' = "CYCLE_DETECTED"
    BY DEF Conclude, Reject
  <2>2. Acyclic(plan')
    BY <1>1, <1>3
  <2>3. QED
    BY <2>1, <2>2 DEF IInv, CycleIsReal
<1>5. ~TooDeep
  <2>1. depth \in [Nodes(plan) -> Nat]
    BY <1>1 DEF IInv, TypeOK, Sorted
  <2>2. visited = Nodes(plan)
    BY <1>4 DEF LeftOver
  <2>3. \A n \in Nodes(plan) : Parents(n) \cap visited = Parents(n)
    BY <2>2 DEF Parents, Prerequisites
  <2>4. DepthsGrow
    BY <1>1 DEF IInv, LoopInv
  <2>5. \A n \in Nodes(plan) :
            /\ Parents(n) = {} => depth[n] = 1
            /\ \A m \in Parents(n) : depth[m] < depth[n]
            /\ Parents(n) # {} => \E m \in Parents(n) : depth[n] = depth[m] + 1
    BY <2>3, <2>4 DEF DepthsGrow
  <2>6. \A n \in Nodes(plan) : depth[n] =< RefinementDepth
    BY <1>3, <2>1, <2>5, RefinementIsFourDeep
  <2>7. QED
    BY <2>1, <2>6, LimitsAssumption DEF TooDeep, RefinementDepth
<1>6. QED
  BY <1>4, <1>5 DEF Conclude

LEMMA RefinerInvHolds == Spec => []RefinerInv
<1>1. Init => RefinerInv
  BY DEF Init, RefinerInv
<1>2. IInv /\ IInv' /\ RefinerInv /\ [Next]_vars => RefinerInv'
  <2> SUFFICES ASSUME IInv, IInv', RefinerInv, [Next]_vars
               PROVE  RefinerInv'
    OBVIOUS
  <2>1. ASSUME NEW d \in Decompositions, Decompose(d)
        PROVE  RefinerInv'
    BY <2>1 DEF Decompose, Reject, IInv, PlannerBegins, RefinerInv
  <2>2. CASE Check
    <3>1. author = "refiner" => Flaws(plan) = {}
      BY RefinementHasNoFlaws DEF RefinerInv
    <3>2. QED
      BY <2>2, <3>1 DEF Check, Reject, RefinerInv
  <2>3. ASSUME NEW n \in ready, Visit(n)
        PROVE  RefinerInv'
    BY <2>3 DEF Visit, RefinerInv
  <2>4. CASE Conclude
    BY <2>4, ConcludeKeepsRefinerInv
  <2>5. CASE Complete
    BY <2>5 DEF Complete, Reject, RefinerInv
  <2>6. ASSUME NEW report \in Reports(MaxRubrics), Refine(report)
        PROVE  RefinerInv'
    BY <2>6, RefinementHasShape DEF Refine, RefinerInv
  <2>7. CASE UNCHANGED vars
    BY <2>7 DEF vars, RefinerInv
  <2>8. QED
    BY <2>1, <2>2, <2>3, <2>4, <2>5, <2>6, <2>7 DEF Next
<1>3. QED
  BY <1>1, <1>2, IInvIsInvariant, PTL DEF Spec

\* Whatever an evaluation reports, the validator accepts the plan that
\* create_refinement_plan makes of it and finds it as deep as its metadata says.
THEOREM RefinementsAreExecutable == Spec => []RefinementIsExecutable
<1>1. IInv /\ RefinerInv => RefinementIsExecutable
  <2> SUFFICES ASSUME IInv, RefinerInv, author = "refiner"
               PROVE  /\ phase # "rejected"
                      /\ phase = "execute" =>
                            /\ \E n \in Nodes(plan) : depth[n] = RefinementDepth
                            /\ \A n \in Nodes(plan) : depth[n] =< RefinementDepth
    BY DEF RefinementIsExecutable
  <2>1. phase # "rejected" /\ IsRefinement(plan)
    BY DEF RefinerInv
  <2>2. ASSUME phase = "execute"
        PROVE  /\ depth["eval"] = RefinementDepth
               /\ \A n \in Nodes(plan) : depth[n] =< RefinementDepth
    <3>1. depth \in [Nodes(plan) -> Nat] /\ DepthIsCriticalPath /\ Accepted
      BY <2>2 DEF IInv, TypeOK, Sorted, Accepted
    <3>2. QED
      BY <2>1, <3>1, RefinementIsFourDeep DEF DepthIsCriticalPath
  <2>3. "eval" \in Nodes(plan)
    BY <2>1 DEF IsRefinement, Followers
  <2>4. QED
    BY <2>1, <2>2, <2>3
<1>2. QED
  BY <1>1, IInvIsInvariant, RefinerInvHolds, PTL

-------------------------------------------------------------------------------
(* What research comes to, for every set of plans that planners make.          *)

\* Of an output: its claims rest on the evidence in pool, its findings are on claims of
\* its own, and what it cites is the evidence of claims.
Rests(output, pool) ==
    "claims" \in DOMAIN output => \A c \in output.claims : c.evidence \in pool

Follows(output) ==
    \A key \in {"findings", "key_findings"} \cap DOMAIN output :
        /\ "claims" \in DOMAIN output
        /\ \A f \in output[key] : f.claims # {} /\ f.claims \subseteq output.claims

Cites(output, claims) ==
    "citations" \in DOMAIN output => output.citations \subseteq {c.evidence : c \in claims}

\* The evidence that tasks of the plan have gathered.
GatheredEvidence == UNION {own[m].evidence : m \in {k \in DOMAIN own : "evidence" \in Lists(own[k])}}

DossierIsTyped ==
    /\ stage \in {"execute", "compile", "done"} \cup Errors
    /\ IsPlan(design) /\ DOMAIN role = Nodes(design)
    /\ round \in 0..MaxLoops
    /\ DOMAIN own \subseteq Nodes(design)
    /\ dossier # NoDossier => stage = "done"

\* A task completes after those it depends on.
OwnIsClosed == \A n \in DOMAIN own : Prerequisites(design, n) \subseteq DOMAIN own

OwnIsGrounded ==
    \A n \in DOMAIN own :
        /\ Rests(own[n], GatheredEvidence)
        /\ Follows(own[n])
        /\ Cites(own[n], Input(n, "claims"))

ReportsAreDossiers ==
    \A n \in DOMAIN own :
        design.type[n] = "REPORTING" =>
            /\ {"key_findings", "claims", "citations"} \subseteq DOMAIN own[n]
            /\ own[n].claims = Input(n, "claims")

\* A plan in execution has no task that an earlier round has the output of.
KeptIsOfEarlierRounds ==
    stage = "execute" => \A id \in DOMAIN kept : id[1] \in Nat /\ id[1] < round

KeptIsGrounded ==
    \A id \in DOMAIN kept :
        /\ Rests(kept[id], All("evidence"))
        /\ Follows(kept[id])
        /\ Cites(kept[id], All("claims"))

\* When a plan that was not refined is compiled, its outputs are kept.
FirstRoundIsKept ==
    stage \in {"compile", "done"} /\ round = 0 =>
        /\ DOMAIN own = Nodes(design)
        /\ \A n \in DOMAIN own : <<0, n>> \in DOMAIN kept /\ kept[<<0, n>>] = own[n]

DossierInv ==
    /\ DossierIsTyped
    /\ OwnIsClosed
    /\ OwnIsGrounded
    /\ ReportsAreDossiers
    /\ KeptIsOfEarlierRounds
    /\ KeptIsGrounded
    /\ FirstRoundIsKept
    /\ MatchedTaskIsDispatched
    /\ AuditIsSound
    /\ DossierIsGrounded

-------------------------------------------------------------------------------
\* A set that is closed under prerequisites and has those of a task has its ancestors.
LEMMA AncestorsWithin ==
    ASSUME NEW p, NEW n, NEW D \in SUBSET Nodes(p), Prerequisites(p, n) \subseteq D,
           \A m \in D : Prerequisites(p, m) \subseteq D
    PROVE  Ancestors(p, n) \subseteq D
BY DEF Ancestors

\* What an ancestor descends from, the task descends from.
LEMMA AncestorsNest ==
    ASSUME NEW p, NEW n, NEW m \in Ancestors(p, n)
    PROVE  Ancestors(p, m) \subseteq Ancestors(p, n)
<1> SUFFICES ASSUME NEW k \in Ancestors(p, m), NEW S \in SUBSET Nodes(p),
                    Prerequisites(p, n) \subseteq S,
                    \A j \in S : Prerequisites(p, j) \subseteq S
             PROVE  k \in S
  BY DEF Ancestors
<1>1. m \in S
  BY DEF Ancestors
<1>2. QED
  BY <1>1 DEF Ancestors

\* What hands something down is an ancestor that has it; and if its findings are handed
\* down, so are its claims.
LEMMA ListsAreHandedDown ==
    ASSUME NEW output
    PROVE  /\ \A key \in Lists(output) : key \in DOMAIN output
           /\ "findings" \in Lists(output) /\ "claims" \in DOMAIN output => "claims" \in Lists(output)
BY DEF Lists

\* A task that runs has outputs of all its ancestors, and so has one that has completed.
LEMMA OwnAncestors ==
    ASSUME DossierIsTyped, OwnIsClosed, NEW n, Prerequisites(design, n) \subseteq DOMAIN own
    PROVE  Ancestors(design, n) \subseteq DOMAIN own
<1>1. DOMAIN own \in SUBSET Nodes(design) /\ \A m \in DOMAIN own : Prerequisites(design, m) \subseteq DOMAIN own
  BY DEF DossierIsTyped, OwnIsClosed
<1>2. QED
  BY <1>1, AncestorsWithin

\* What is handed down to a task is as well grounded as what its ancestors put out.
LEMMA InputIsGrounded ==
    ASSUME DossierIsTyped, OwnIsClosed, OwnIsGrounded,
           NEW n, Prerequisites(design, n) \subseteq DOMAIN own
    PROVE  /\ \A c \in Input(n, "claims") : c.evidence \in GatheredEvidence
           /\ Input(n, "evidence") \subseteq GatheredEvidence
           /\ \A f \in Input(n, "findings") :
                 f.claims # {} /\ f.claims \subseteq Input(n, "claims")
           /\ Input(n, "citations") \subseteq {c.evidence : c \in Input(n, "claims")}
<1>1. Ancestors(design, n) \subseteq DOMAIN own
  BY OwnAncestors
<1>2. \A m \in Ancestors(design, n) :
         Rests(own[m], GatheredEvidence) /\ Follows(own[m]) /\ Cites(own[m], Input(m, "claims"))
  BY <1>1 DEF OwnIsGrounded
<1>3. ASSUME NEW c \in Input(n, "claims")
      PROVE  c.evidence \in GatheredEvidence
  <2>1. PICK m \in Ancestors(design, n) : "claims" \in Lists(own[m]) /\ c \in own[m]["claims"]
    BY <1>3 DEF Input, Givers
  <2>2. QED
    BY <1>2, <2>1, ListsAreHandedDown DEF Rests
<1>4. Input(n, "evidence") \subseteq GatheredEvidence
  BY <1>1 DEF Input, Givers, GatheredEvidence
<1>5. \A m \in Ancestors(design, n) :
         "claims" \in Lists(own[m]) => own[m].claims \subseteq Input(n, "claims")
  BY DEF Input, Givers
<1>6. ASSUME NEW f \in Input(n, "findings")
      PROVE  f.claims # {} /\ f.claims \subseteq Input(n, "claims")
  <2>1. PICK m \in Ancestors(design, n) : "findings" \in Lists(own[m]) /\ f \in own[m]["findings"]
    BY <1>6 DEF Input, Givers
  <2>2. /\ "claims" \in Lists(own[m])
        /\ f.claims # {} /\ f.claims \subseteq own[m].claims
    BY <1>2, <2>1, ListsAreHandedDown DEF Follows
  <2>3. QED
    BY <1>5, <2>2
<1>7. ASSUME NEW e \in Input(n, "citations")
      PROVE  e \in {c.evidence : c \in Input(n, "claims")}
  <2>1. PICK m \in Ancestors(design, n) : "citations" \in Lists(own[m]) /\ e \in own[m]["citations"]
    BY <1>7 DEF Input, Givers
  <2>2. e \in {c.evidence : c \in Input(m, "claims")}
    BY <1>2, <2>1, ListsAreHandedDown DEF Cites
  <2>3. Input(m, "claims") \subseteq Input(n, "claims")
    <3>1. Ancestors(design, m) \subseteq Ancestors(design, n)
      BY AncestorsNest
    <3>2. QED
      BY <3>1 DEF Input, Givers
  <2>4. QED
    BY <2>2, <2>3
<1>8. QED
  BY <1>3, <1>4, <1>6, <1>7

\* A task that completes changes nothing for those that have completed.
LEMMA OthersKeepInput ==
    ASSUME DossierIsTyped, OwnIsClosed, NEW n, CanRun(n), NEW output, PutOut(n, output)
    PROVE  /\ DOMAIN own' = DOMAIN own \cup {n} /\ n \notin DOMAIN own
           /\ own'[n] = output /\ \A m \in DOMAIN own : own'[m] = own[m]
           /\ \A m \in DOMAIN own' : \A key : Input(m, key)' = Input(m, key)
           /\ \A m \in DOMAIN own' : \A key : Given(m, key)' <=> Given(m, key)
           /\ GatheredEvidence \subseteq GatheredEvidence'
<1>1. /\ own' = [m \in DOMAIN own \cup {n} |-> IF m = n THEN output ELSE own[m]]
      /\ UNCHANGED design /\ n \notin DOMAIN own
      /\ Prerequisites(design, n) \subseteq DOMAIN own
  BY DEF PutOut, CanRun
<1>2. /\ DOMAIN own' = DOMAIN own \cup {n}
      /\ own'[n] = output /\ \A m \in DOMAIN own : own'[m] = own[m]
  BY <1>1
<1>3. \A m \in DOMAIN own' : Ancestors(design, m) \subseteq DOMAIN own
  BY <1>1, <1>2, OwnAncestors DEF OwnIsClosed
<1>4. \A m \in DOMAIN own' : \A k \in Ancestors(design', m) : own'[k] = own[k]
  BY <1>1, <1>2, <1>3
<1>5. ASSUME NEW m \in DOMAIN own', NEW key
      PROVE  Input(m, key)' = Input(m, key) /\ (Given(m, key)' <=> Given(m, key))
  <2>1. \A k \in Ancestors(design, m) : own'[k] = own[k]
    BY <1>1, <1>4, <1>5
  <2>2. Givers(m, key)' = Givers(m, key)
    BY <1>1, <2>1 DEF Givers
  <2>3. Input(m, key)' = Input(m, key)
    BY <2>1, <2>2 DEF Input, Givers
  <2>4. Given(m, key)' <=> Given(m, key)
    BY <2>2 DEF Given
  <2>5. QED
    BY <2>3, <2>4
<1>6. GatheredEvidence \subseteq GatheredEvidence'
  BY <1>2 DEF GatheredEvidence
<1>7. QED
  BY <1>1, <1>2, <1>5, <1>6

\* What an output must be for its task to complete.
Sound(n, output) ==
    /\ Rests(output, GatheredEvidence)
    /\ Follows(output)
    /\ Cites(output, Input(n, "claims"))
    /\ design.type[n] = "REPORTING" =>
          /\ {"key_findings", "claims", "citations"} \subseteq DOMAIN output
          /\ output.claims = Input(n, "claims")
    /\ design.type[n] = "VERIFICATION" /\ ~Given(n, "contradictions") =>
          \A c, d \in DOMAIN output.audits :
             c # d /\ {c.statement, d.statement} \in Opposed => output.audits[c] # "VERIFIED"

LEMMA PutOutKeeps ==
    ASSUME DossierInv, NEW n \in Nodes(design), CanRun(n),
           NEW output, PutOut(n, output), Sound(n, output)
    PROVE  DossierInv'
<1>1. /\ DOMAIN own' = DOMAIN own \cup {n} /\ n \notin DOMAIN own
      /\ own'[n] = output /\ \A m \in DOMAIN own : own'[m] = own[m]
      /\ \A m \in DOMAIN own' : \A key : Input(m, key)' = Input(m, key)
      /\ \A m \in DOMAIN own' : \A key : Given(m, key)' <=> Given(m, key)
      /\ GatheredEvidence \subseteq GatheredEvidence'
  BY OthersKeepInput DEF DossierInv
<1>2. /\ UNCHANGED stage /\ UNCHANGED design /\ UNCHANGED role /\ UNCHANGED round
      /\ UNCHANGED kept /\ UNCHANGED dossier
      /\ stage = "execute" /\ Prerequisites(design, n) \subseteq DOMAIN own
  BY DEF PutOut, CanRun
<1>3. DossierIsTyped'
  BY <1>1, <1>2 DEF DossierInv, DossierIsTyped
<1>4. OwnIsClosed'
  BY <1>1, <1>2 DEF DossierInv, OwnIsClosed
<1>5. ASSUME NEW m \in DOMAIN own'
      PROVE  Rests(own[m], GatheredEvidence)' /\ Follows(own[m])' /\ Cites(own[m], Input(m, "claims"))'
  <2>1. CASE m = n
    BY <1>1, <2>1 DEF Sound, Rests, Follows, Cites
  <2>2. CASE m # n
    <3>1. m \in DOMAIN own /\ own'[m] = own[m] /\ Input(m, "claims")' = Input(m, "claims")
      BY <1>1, <2>2
    <3>2. Rests(own[m], GatheredEvidence) /\ Follows(own[m]) /\ Cites(own[m], Input(m, "claims"))
      BY <3>1 DEF DossierInv, OwnIsGrounded
    <3>3. QED
      BY <1>1, <3>1, <3>2 DEF Rests, Follows, Cites
  <2>3. QED
    BY <2>1, <2>2
<1>6. OwnIsGrounded'
  BY <1>5 DEF OwnIsGrounded
<1>7. ReportsAreDossiers'
  <2> SUFFICES ASSUME NEW m \in DOMAIN own', design'.type[m] = "REPORTING"
               PROVE  /\ {"key_findings", "claims", "citations"} \subseteq DOMAIN own'[m]
                      /\ own'[m].claims = Input(m, "claims")'
    BY DEF ReportsAreDossiers
  <2>1. CASE m = n
    BY <1>1, <1>2, <2>1 DEF Sound
  <2>2. CASE m # n
    BY <1>1, <1>2, <2>2 DEF DossierInv, ReportsAreDossiers
  <2>3. QED
    BY <2>1, <2>2
<1>8. KeptIsOfEarlierRounds'
  BY <1>2 DEF DossierInv, KeptIsOfEarlierRounds
<1>9. KeptIsGrounded'
  BY <1>2 DEF DossierInv, KeptIsGrounded, All
<1>10. FirstRoundIsKept' /\ MatchedTaskIsDispatched' /\ DossierIsGrounded'
  BY <1>2 DEF FirstRoundIsKept, MatchedTaskIsDispatched, DossierIsGrounded
<1>11. AuditIsSound'
  <2> SUFFICES ASSUME NEW m \in DOMAIN own', design'.type[m] = "VERIFICATION",
                      ~Given(m, "contradictions")',
                      NEW c \in DOMAIN own'[m].audits, NEW d \in DOMAIN own'[m].audits,
                      c # d, {c.statement, d.statement} \in Opposed
               PROVE  own'[m].audits[c] # "VERIFIED"
    BY DEF AuditIsSound
  <2>1. ~Given(m, "contradictions")
    BY <1>1
  <2>2. CASE m = n
    BY <1>1, <1>2, <2>1, <2>2 DEF Sound
  <2>3. CASE m # n
    <3>1. m \in DOMAIN own /\ own'[m] = own[m] /\ design.type[m] = "VERIFICATION"
      BY <1>1, <1>2, <2>3
    <3>2. QED
      BY <2>1, <3>1 DEF DossierInv, AuditIsSound
  <2>4. QED
    BY <2>2, <2>3
<1>12. QED
  BY <1>3, <1>4, <1>6, <1>7, <1>8, <1>9, <1>10, <1>11 DEF DossierInv

\* A plan that fails leaves everything but the stage, and gets to no dossier unless an
\* earlier round has kept something.
LEMMA PlanFailsKeeps ==
    ASSUME DossierInv, stage = "execute",
           NEW code \in Errors \ {"UNAUTHORIZED_DISPATCH", "WORKER_NOT_REGISTERED"},
           PlanFails(code)
    PROVE  DossierInv'
<1>1. /\ stage' \in Errors \cup {"compile"} /\ stage' # "done" /\ stage' # "execute"
      /\ stage' \notin {"UNAUTHORIZED_DISPATCH", "WORKER_NOT_REGISTERED"}
      /\ round = 0 => stage' # "compile"
      /\ UNCHANGED design /\ UNCHANGED role /\ UNCHANGED round
      /\ UNCHANGED own /\ UNCHANGED kept /\ UNCHANGED dossier
  BY DEF PlanFails, Errors
<1>2. \A m, key : Input(m, key)' = Input(m, key) /\ (Given(m, key)' <=> Given(m, key))
  BY <1>1 DEF Input, Givers, Given
<1>3. DossierIsTyped'
  BY <1>1 DEF DossierInv, DossierIsTyped
<1>4. OwnIsClosed' /\ ReportsAreDossiers'
  BY <1>1, <1>2 DEF DossierInv, OwnIsClosed, ReportsAreDossiers
<1>5. OwnIsGrounded'
  BY <1>1, <1>2 DEF DossierInv, OwnIsGrounded, GatheredEvidence, Rests, Follows, Cites
<1>6. KeptIsGrounded'
  BY <1>1 DEF DossierInv, KeptIsGrounded, All
<1>7. AuditIsSound'
  BY <1>1, <1>2 DEF DossierInv, AuditIsSound
<1>8. KeptIsOfEarlierRounds' /\ FirstRoundIsKept' /\ MatchedTaskIsDispatched' /\ DossierIsGrounded'
  BY <1>1 DEF KeptIsOfEarlierRounds, FirstRoundIsKept, MatchedTaskIsDispatched, DossierIsGrounded
<1>9. QED
  BY <1>3, <1>4, <1>5, <1>6, <1>7, <1>8 DEF DossierInv

\* A role has the permission for every type of task it is compatible with, and a worker
\* for it: the router refuses a task only for its role or its type.
LEMMA RefusalsAreMismatches ==
    ASSUME NEW type, NEW r
    PROVE  Refusal(type, r) \in {"UNSUPPORTED_ROLE", "UNSUPPORTED_TASK_TYPE", "none"}
<1>1. CASE r \notin DOMAIN Compatible
  BY <1>1 DEF Refusal
<1>2. CASE r \in DOMAIN Compatible /\ type \notin Compatible[r]
  BY <1>2 DEF Refusal
<1>3. CASE r \in DOMAIN Compatible /\ type \in Compatible[r]
  <2>1. <<r, type>> \in Registered
    BY <1>3 DEF Registered
  <2>2. r \in {"PLANNER", "RESEARCHER", "ANALYST", "VERIFIER", "EVALUATOR", "REPORTER"}
    BY <1>3 DEF Compatible
  <2>3. Required(type) \in Permissions[r]
    BY <1>3, <2>2 DEF Compatible, Required, Permissions, Searches
  <2>4. QED
    BY <1>3, <2>1, <2>3 DEF Refusal
<1>4. QED
  BY <1>1, <1>2, <1>3

\* What is known when a task is dispatched.
LEMMA DispatchedInput ==
    ASSUME DossierInv, NEW n, NEW types, Dispatched(n, types)
    PROVE  /\ CanRun(n) /\ stage = "execute" /\ design.type[n] \in types
           /\ \A c \in Input(n, "claims") : c.evidence \in GatheredEvidence
           /\ Input(n, "evidence") \subseteq GatheredEvidence
           /\ \A f \in Input(n, "findings") :
                 f.claims # {} /\ f.claims \subseteq Input(n, "claims")
           /\ Input(n, "citations") \subseteq {c.evidence : c \in Input(n, "claims")}
<1>1. CanRun(n) /\ stage = "execute" /\ design.type[n] \in types
      /\ Prerequisites(design, n) \subseteq DOMAIN own
  BY DEF Dispatched, CanRun
<1>2. QED
  BY <1>1, InputIsGrounded DEF DossierInv

LEMMA DecomposeTaskKeeps ==
    ASSUME DossierInv, NEW n \in Nodes(design), DecomposeTask(n)
    PROVE  DossierInv'
<1>1. Dispatched(n, {"DECOMPOSITION"}) /\ PutOut(n, << >>)
  BY DEF DecomposeTask
<1>2. CanRun(n) /\ design.type[n] = "DECOMPOSITION"
  BY <1>1, DispatchedInput
<1>3. DOMAIN << >> = {}
  OBVIOUS
<1>4. Sound(n, << >>)
  BY <1>2, <1>3 DEF Sound, Rests, Follows, Cites
<1>5. QED
  BY <1>1, <1>2, <1>4, PutOutKeeps

LEMMA ResearchKeeps ==
    ASSUME DossierInv, NEW n \in Nodes(design), Research(n)
    PROVE  DossierInv'
<1>1. /\ Dispatched(n, Searches)
      /\ \/ PlanFails("INVALID_RESEARCHER_INPUT")
         \/ \E found \in Harvests : PutOut(n, [evidence |-> found])
  BY DEF Research
<1>2. CanRun(n) /\ stage = "execute" /\ design.type[n] \in Searches
  BY <1>1, DispatchedInput
<1>3. CASE PlanFails("INVALID_RESEARCHER_INPUT")
  BY <1>2, <1>3, PlanFailsKeeps DEF Errors
<1>4. ASSUME NEW found \in Harvests, PutOut(n, [evidence |-> found])
      PROVE  DossierInv'
  <2>1. DOMAIN [evidence |-> found] = {"evidence"}
    OBVIOUS
  <2>2. Sound(n, [evidence |-> found])
    BY <1>2, <2>1 DEF Sound, Rests, Follows, Cites, Searches
  <2>3. QED
    BY <1>2, <1>4, <2>2, PutOutKeeps
<1>5. QED
  BY <1>1, <1>3, <1>4

\* A finding is on some of the claims that are analysed.
LEMMA AnalysesFollow ==
    ASSUME NEW claims, NEW findings \in Analyses(claims), NEW f \in findings
    PROVE  f.claims # {} /\ f.claims \subseteq claims
<1>1. PICK S \in Distinguished(claims) :
         LET titles == {Headline[c.statement] : c \in S}
             most == Min({MaxFindings, Cardinality(titles)})
         IN  findings \in {{Finding(t, S) : t \in T} : T \in kSubset(most, titles)}
  BY DEF Analyses
<1> DEFINE titles == {Headline[c.statement] : c \in S}
<1>2. PICK T \in SUBSET titles : findings = {Finding(t, S) : t \in T}
  BY <1>1 DEF kSubset
<1>3. PICK t \in titles : f = Finding(t, S)
  BY <1>2
<1>4. f.claims = {c \in S : Headline[c.statement] = t}
  BY <1>3 DEF Finding
<1>5. S \subseteq claims
  BY DEF Distinguished
<1>6. QED
  BY <1>3, <1>4, <1>5

LEMMA SynthesizeKeeps ==
    ASSUME DossierInv, NEW n \in Nodes(design), Synthesize(n)
    PROVE  DossierInv'
<1>1. Dispatched(n, {"SYNTHESIS"})
  BY DEF Synthesize
<1>2. /\ CanRun(n) /\ stage = "execute" /\ design.type[n] = "SYNTHESIS"
      /\ \A c \in Input(n, "claims") : c.evidence \in GatheredEvidence
      /\ Input(n, "evidence") \subseteq GatheredEvidence
  BY <1>1, DispatchedInput
<1>3. PICK claims \in IF Input(n, "claims") # {} THEN {Input(n, "claims")}
                      ELSE Extractions(n, Input(n, "evidence")) :
         IF claims = {} THEN PlanFails("ANALYSIS_ERROR")
         ELSE \E findings \in Analyses(claims) :
                 PutOut(n, [claims |-> claims, findings |-> findings])
  BY DEF Synthesize, AnalystInput
<1>4. \A c \in claims : c.evidence \in GatheredEvidence
  <2>1. CASE Input(n, "claims") # {}
    BY <1>2, <1>3, <2>1
  <2>2. CASE Input(n, "claims") = {}
    <3> DEFINE E == Input(n, "evidence")
    <3>1. claims \in Extractions(n, E)
      BY <1>3, <2>2
    <3>2. PICK basis \in Grounds(E) : claims = {Claim(n, t, basis[t]) : t \in DOMAIN basis}
      BY <3>1 DEF Extractions
    <3>3. \A t \in DOMAIN basis : basis[t] \in E /\ Claim(n, t, basis[t]).evidence = basis[t]
      BY DEF Grounds, Claim
    <3>4. QED
      BY <1>2, <3>2, <3>3
  <2>3. QED
    BY <2>1, <2>2
<1>5. CASE claims = {}
  BY <1>2, <1>3, <1>5, PlanFailsKeeps DEF Errors
<1>6. CASE claims # {}
  <2>1. PICK findings \in Analyses(claims) :
           PutOut(n, [claims |-> claims, findings |-> findings])
    BY <1>3, <1>6
  <2> DEFINE output == [claims |-> claims, findings |-> findings]
  <2>2. DOMAIN output = {"claims", "findings"} /\ output["findings"] = findings
        /\ output.claims = claims
    OBVIOUS
  <2>3. \A f \in findings : f.claims # {} /\ f.claims \subseteq claims
    BY AnalysesFollow
  <2> HIDE DEF output
  <2>4. Sound(n, output)
    BY <1>2, <1>4, <2>2, <2>3 DEF Sound, Rests, Follows, Cites
  <2>5. PutOut(n, output)
    BY <2>1 DEF output
  <2>6. QED
    BY <1>2, <2>4, <2>5, PutOutKeeps
<1>7. QED
  BY <1>5, <1>6

LEMMA DetectConflictsKeeps ==
    ASSUME DossierInv, NEW n \in Nodes(design), DetectConflicts(n)
    PROVE  DossierInv'
<1> DEFINE output == [contradictions |-> Clashes(VerifierInput(n).claims)]
<1>1. Dispatched(n, {"CONFLICT_DETECTION"}) /\ PutOut(n, output)
  BY DEF DetectConflicts
<1>2. CanRun(n) /\ design.type[n] = "CONFLICT_DETECTION"
  BY <1>1, DispatchedInput
<1>3. DOMAIN output = {"contradictions"}
  OBVIOUS
<1> HIDE DEF output
<1>4. Sound(n, output)
  BY <1>2, <1>3 DEF Sound, Rests, Follows, Cites
<1>5. QED
  BY <1>1, <1>2, <1>4, PutOutKeeps

LEMMA EvaluateKeeps ==
    ASSUME DossierInv, NEW n \in Nodes(design), Evaluate(n)
    PROVE  DossierInv'
<1> DEFINE output == [evaluation |-> Evaluation(EvaluatorInput(n))]
<1>1. Dispatched(n, {"EVALUATION"}) /\ PutOut(n, output)
  BY DEF Evaluate
<1>2. CanRun(n) /\ design.type[n] = "EVALUATION"
  BY <1>1, DispatchedInput
<1>3. DOMAIN output = {"evaluation"}
  OBVIOUS
<1> HIDE DEF output
<1>4. Sound(n, output)
  BY <1>2, <1>3 DEF Sound, Rests, Follows, Cites
<1>5. QED
  BY <1>1, <1>2, <1>4, PutOutKeeps

\* Two claims that clash are a pair that the detector finds, so that neither is verified.
LEMMA ClashingAreNotVerified ==
    ASSUME NEW claims, NEW pool, NEW c \in claims, NEW d \in claims, c # d,
           {c.statement, d.statement} \in Opposed
    PROVE  Audit(c, pool, Clashes(claims)) # "VERIFIED"
<1> DEFINE P == {c, d}
<1>1. Cardinality(P) = 2
  <2>1. IsFiniteSet({c}) /\ Cardinality({c}) = 1
    BY FS_Singleton
  <2>2. P = {c} \cup {d} /\ d \notin {c}
    OBVIOUS
  <2>3. Cardinality({c} \cup {d}) = IF d \in {c} THEN Cardinality({c}) ELSE Cardinality({c}) + 1
    BY <2>1, FS_AddElement
  <2>4. QED
    BY <2>1, <2>2, <2>3
<1>2. {x.statement : x \in P} = {c.statement, d.statement}
  OBVIOUS
<1>3. P \in SUBSET claims
  OBVIOUS
<1>4. P \in Clashes(claims) /\ c \in P
  <2> HIDE DEF P
  <2>1. P \in kSubset(2, claims)
    BY <1>1, <1>3 DEF kSubset
  <2>2. P \in Clashes(claims)
    BY <1>2, <2>1 DEF Clashes
  <2>3. c \in P
    BY DEF P
  <2>4. QED
    BY <2>2, <2>3
<1>5. QED
  BY <1>4 DEF Audit

LEMMA VerifyKeeps ==
    ASSUME DossierInv, NEW n \in Nodes(design), Verify(n)
    PROVE  DossierInv'
<1> DEFINE in == VerifierInput(n)
           audit == [c \in in.claims |-> Audit(c, in.evidence, in.contradictions)]
           output == [audits |-> audit,
                      citations |-> {c.evidence : c \in {d \in in.claims : audit[d] # "UNVERIFIED"}}]
<1>1. Dispatched(n, {"VERIFICATION"}) /\ PutOut(n, output)
  BY DEF Verify, Verification
<1>2. CanRun(n) /\ design.type[n] = "VERIFICATION"
  BY <1>1, DispatchedInput
<1>3. DOMAIN output = {"audits", "citations"} /\ output.audits = audit
      /\ output.citations \subseteq {c.evidence : c \in in.claims}
  OBVIOUS
<1>4. /\ in.claims = Input(n, "claims")
      /\ ~Given(n, "contradictions") => in.contradictions = Clashes(in.claims)
  BY DEF VerifierInput
<1> HIDE DEF in
<1>5. ASSUME ~Given(n, "contradictions"),
             NEW c \in DOMAIN audit, NEW d \in DOMAIN audit,
             c # d, {c.statement, d.statement} \in Opposed
      PROVE  audit[c] # "VERIFIED"
  <2>1. c \in in.claims /\ d \in in.claims
    OBVIOUS
  <2>2. audit[c] = Audit(c, in.evidence, Clashes(in.claims))
    BY <1>4, <1>5, <2>1
  <2>3. QED
    BY <1>5, <2>1, <2>2, ClashingAreNotVerified
<1> HIDE DEF output, audit
<1>6. Sound(n, output)
  BY <1>2, <1>3, <1>4, <1>5 DEF Sound, Rests, Follows, Cites
<1>7. QED
  BY <1>1, <1>2, <1>6, PutOutKeeps

\* Findings that are merged are on the claims that they were on.
LEMMA MergedFollow ==
    ASSUME NEW findings, NEW claims,
           \A f \in findings : f.claims # {} /\ f.claims \subseteq claims
    PROVE  \A f \in Merged(findings) : f.claims # {} /\ f.claims \subseteq claims
<1> SUFFICES ASSUME NEW f \in Merged(findings)
             PROVE  f.claims # {} /\ f.claims \subseteq claims
  OBVIOUS
<1>1. PICK g \in findings : f.claims = UNION {h.claims : h \in {k \in findings : k.title = g.title}}
  BY DEF Merged
<1>2. QED
  BY <1>1

LEMMA ReportKeeps ==
    ASSUME DossierInv, NEW n \in Nodes(design), Report(n)
    PROVE  DossierInv'
<1> DEFINE output == Compiled(ReporterInput(n))
<1>1. Dispatched(n, {"REPORTING"}) /\ PutOut(n, output)
  BY DEF Report
<1>2. /\ CanRun(n) /\ design.type[n] = "REPORTING"
      /\ \A c \in Input(n, "claims") : c.evidence \in GatheredEvidence
      /\ \A f \in Input(n, "findings") :
            f.claims # {} /\ f.claims \subseteq Input(n, "claims")
      /\ Input(n, "citations") \subseteq {c.evidence : c \in Input(n, "claims")}
  BY <1>1, DispatchedInput
<1>3. /\ DOMAIN output = {"key_findings", "claims", "citations", "contradictions"}
      /\ output["key_findings"] = Merged(Input(n, "findings"))
      /\ output.claims = Input(n, "claims")
      /\ output.citations = Input(n, "citations")
  BY DEF Compiled, ReporterInput
<1> HIDE DEF output
<1>4. \A f \in output["key_findings"] : f.claims # {} /\ f.claims \subseteq output.claims
  <2>1. \A f \in Merged(Input(n, "findings")) : f.claims # {} /\ f.claims \subseteq Input(n, "claims")
    BY <1>2, MergedFollow
  <2>2. QED
    BY <1>3, <2>1
<1>5. Rests(output, GatheredEvidence) /\ Cites(output, Input(n, "claims"))
  BY <1>2, <1>3 DEF Rests, Cites
<1>6. Follows(output)
  BY <1>3, <1>4 DEF Follows
<1>7. Sound(n, output)
  BY <1>2, <1>3, <1>5, <1>6 DEF Sound
<1>8. QED
  BY <1>1, <1>2, <1>7, PutOutKeeps

\* What a plan has put out is kept beside what earlier rounds put out.
LEMMA UpdateAdds ==
    ASSUME DossierInv, stage = "execute", kept' = Update
    PROVE  /\ \A id \in DOMAIN kept : id \in DOMAIN kept' /\ kept'[id] = kept[id]
           /\ \A n \in DOMAIN own : TaskId(n) \in DOMAIN kept' /\ kept'[TaskId(n)] = own[n]
           /\ \A id \in DOMAIN kept' :
                 id \in DOMAIN kept \/ \E n \in DOMAIN own : id = TaskId(n)
<1> DEFINE ids == {TaskId(n) : n \in DOMAIN own}
<1>1. kept' = [id \in DOMAIN kept \cup ids |-> IF id \in ids THEN own[id[2]] ELSE kept[id]]
  BY DEF Update
<1>2. \A n : TaskId(n)[1] = round /\ TaskId(n)[2] = n
  BY DEF TaskId
<1>3. round \in Nat
  BY DEF DossierInv, DossierIsTyped
<1>4. \A id \in DOMAIN kept : id \notin ids
  BY <1>2, <1>3 DEF DossierInv, KeptIsOfEarlierRounds
<1>5. QED
  BY <1>1, <1>2, <1>4

LEMMA UpdateIsGrounded ==
    ASSUME DossierInv, stage = "execute", kept' = Update
    PROVE  KeptIsGrounded'
<1>1. /\ \A id \in DOMAIN kept : id \in DOMAIN kept' /\ kept'[id] = kept[id]
      /\ \A n \in DOMAIN own : TaskId(n) \in DOMAIN kept' /\ kept'[TaskId(n)] = own[n]
      /\ \A id \in DOMAIN kept' :
            id \in DOMAIN kept \/ \E n \in DOMAIN own : id = TaskId(n)
  BY UpdateAdds
<1>2. \A key : All(key) \subseteq All(key)'
  BY <1>1 DEF All
<1>3. GatheredEvidence \subseteq All("evidence")'
  BY <1>1 DEF All, GatheredEvidence
<1>4. ASSUME NEW n \in DOMAIN own
      PROVE  Input(n, "claims") \subseteq All("claims")'
  <2>1. Ancestors(design, n) \subseteq DOMAIN own
    BY <1>4, OwnAncestors DEF DossierInv, OwnIsClosed
  <2>2. ASSUME NEW c \in Input(n, "claims")
        PROVE  c \in All("claims")'
    <3>1. PICK m \in Ancestors(design, n) : "claims" \in Lists(own[m]) /\ c \in own[m]["claims"]
      BY <2>2 DEF Input, Givers
    <3>2. kept'[TaskId(m)] = own[m] /\ TaskId(m) \in DOMAIN kept'
      BY <1>1, <2>1
    <3>3. QED
      BY <3>1, <3>2 DEF All
  <2>3. QED
    BY <2>2
<1>5. ASSUME NEW id \in DOMAIN kept'
      PROVE  Rests(kept'[id], All("evidence")') /\ Follows(kept'[id])
             /\ Cites(kept'[id], All("claims")')
  <2>1. CASE id \in DOMAIN kept
    <3>1. Rests(kept[id], All("evidence")) /\ Follows(kept[id]) /\ Cites(kept[id], All("claims"))
      BY <2>1 DEF DossierInv, KeptIsGrounded
    <3>2. QED
      BY <1>1, <1>2, <2>1, <3>1 DEF Rests, Cites
  <2>2. CASE \E n \in DOMAIN own : id = TaskId(n)
    <3>1. PICK n \in DOMAIN own : id = TaskId(n)
      BY <2>2
    <3>2. Rests(own[n], GatheredEvidence) /\ Follows(own[n]) /\ Cites(own[n], Input(n, "claims"))
      BY DEF DossierInv, OwnIsGrounded
    <3>3. kept'[id] = own[n] /\ Input(n, "claims") \subseteq All("claims")'
      BY <1>1, <1>4, <3>1
    <3>4. QED
      BY <1>3, <3>2, <3>3 DEF Rests, Cites
  <2>3. QED
    BY <1>1, <2>1, <2>2
<1>6. QED
  BY <1>5 DEF KeptIsGrounded, Rests, Follows, Cites

\* A critique counts the rubrics that are weak.
LEMMA CritiqueCounts ==
    ASSUME NEW e
    PROVE  Critique(e).weakRubrics \in Nat
<1> DEFINE weak == {i \in 1..4 : <<e.cover, e.complete, 1000 - e.clash, e.diverse>>[i] < 800}
<1>1. \A k \in Int : IsFiniteSet(1..k)
  BY FS_Interval
<1>2. IsFiniteSet(weak)
  <2>1. 4 \in Int
    OBVIOUS
  <2>2. IsFiniteSet(1..4)
    BY <1>1, <2>1, Zenon
  <2>3. weak \subseteq 1..4
    OBVIOUS
  <2>4. QED
    BY <2>2, <2>3, FS_Subset, Zenon
<1>3. Critique(e).weakRubrics = Cardinality(weak)
  BY DEF Critique
<1> HIDE DEF weak
<1>4. QED
  BY <1>2, <1>3, FS_CardinalityType

LEMMA ConcludePlanKeeps ==
    ASSUME DossierConstants, DossierInv, ConcludePlan
    PROVE  DossierInv'
<1>1. /\ stage = "execute" /\ DOMAIN own = Nodes(design) /\ kept' = Update
      /\ UNCHANGED dossier
  BY DEF ConcludePlan
<1>2. PICK latest \in Evaluations :
         \/ /\ round < MaxLoops /\ UNCHANGED stage
            /\ design' = Refinement(RefinementSearches(Deficiencies(Critique(latest))))
            /\ role' = Casting(design') /\ round' = round + 1 /\ own' = << >>
         \/ /\ stage' = "compile"
            /\ UNCHANGED design /\ UNCHANGED role /\ UNCHANGED round /\ UNCHANGED own
  BY DEF ConcludePlan
<1>3. KeptIsGrounded'
  BY <1>1, UpdateIsGrounded
<1>4. dossier = NoDossier /\ round \in 0..MaxLoops /\ IsPlan(design)
  BY <1>1 DEF DossierInv, DossierIsTyped
<1>5. CASE /\ round < MaxLoops /\ UNCHANGED stage
           /\ design' = Refinement(RefinementSearches(Deficiencies(Critique(latest))))
           /\ role' = Casting(design') /\ round' = round + 1 /\ own' = << >>
  <2>1. IsPlan(design')
    BY <1>5, CritiqueCounts, RefinementIsPlan
  <2>2. DOMAIN own' = {} /\ DOMAIN role' = Nodes(design')
    BY <1>5 DEF Casting
  <2>3. round' \in 0..MaxLoops /\ round' # 0
    BY <1>4, <1>5 DEF DossierConstants
  <2>4. DossierIsTyped'
    BY <1>1, <1>4, <1>5, <2>1, <2>2, <2>3 DEF DossierIsTyped
  <2>5. OwnIsClosed' /\ OwnIsGrounded' /\ ReportsAreDossiers' /\ AuditIsSound'
    BY <2>2 DEF OwnIsClosed, OwnIsGrounded, ReportsAreDossiers, AuditIsSound
  <2>6. KeptIsOfEarlierRounds'
    <3> SUFFICES ASSUME NEW id \in DOMAIN kept'
                 PROVE  id[1] \in Nat /\ id[1] < round'
      BY DEF KeptIsOfEarlierRounds
    <3>1. CASE id \in DOMAIN kept
      BY <1>1, <1>4, <1>5, <3>1 DEF DossierInv, KeptIsOfEarlierRounds
    <3>2. CASE \E n \in DOMAIN own : id = TaskId(n)
      BY <1>4, <1>5, <3>2 DEF TaskId
    <3>3. QED
      BY <1>1, <3>1, <3>2, UpdateAdds
  <2>7. FirstRoundIsKept' /\ MatchedTaskIsDispatched' /\ DossierIsGrounded'
    BY <1>1, <1>5, <2>3 DEF FirstRoundIsKept, MatchedTaskIsDispatched, DossierIsGrounded
  <2>8. QED
    BY <1>3, <2>4, <2>5, <2>6, <2>7 DEF DossierInv
<1>6. CASE /\ stage' = "compile"
           /\ UNCHANGED design /\ UNCHANGED role /\ UNCHANGED round /\ UNCHANGED own
  <2>1. \A m, key : Input(m, key)' = Input(m, key) /\ (Given(m, key)' <=> Given(m, key))
    BY <1>6 DEF Input, Givers, Given
  <2>2. DossierIsTyped'
    BY <1>1, <1>4, <1>6 DEF DossierInv, DossierIsTyped
  <2>3. OwnIsClosed' /\ ReportsAreDossiers'
    BY <1>6, <2>1 DEF DossierInv, OwnIsClosed, ReportsAreDossiers
  <2>4. OwnIsGrounded'
    BY <1>6, <2>1 DEF DossierInv, OwnIsGrounded, GatheredEvidence, Rests, Follows, Cites
  <2>5. AuditIsSound'
    BY <1>6, <2>1 DEF DossierInv, AuditIsSound
  <2>6. FirstRoundIsKept'
    BY <1>1, <1>6, UpdateAdds DEF FirstRoundIsKept, TaskId
  <2>7. KeptIsOfEarlierRounds' /\ MatchedTaskIsDispatched' /\ DossierIsGrounded'
    BY <1>6 DEF KeptIsOfEarlierRounds, MatchedTaskIsDispatched, DossierIsGrounded
  <2>8. QED
    BY <1>3, <2>2, <2>3, <2>4, <2>5, <2>6, <2>7 DEF DossierInv
<1>7. QED
  BY <1>2, <1>5, <1>6

\* The dossier is that of a reporter, or is compiled of all that was kept.
LEMMA CompileKeeps ==
    ASSUME DossierInv, Compile
    PROVE  DossierInv'
<1>1. /\ stage = "compile" /\ stage' = "done"
      /\ UNCHANGED design /\ UNCHANGED role /\ UNCHANGED round
      /\ UNCHANGED own /\ UNCHANGED kept
      /\ \/ round = 0 /\ \E n \in OfType(design, {"REPORTING"}) : dossier' = own[n]
         \/ /\ round # 0
            /\ dossier' = Compiled([key \in {"findings", "claims", "citations", "contradictions"} |->
                                       All(key)])
         \/ UNCHANGED dossier
  BY DEF Compile
<1>2. \A id \in DOMAIN kept :
         Rests(kept[id], All("evidence")) /\ Follows(kept[id]) /\ Cites(kept[id], All("claims"))
  BY DEF DossierInv, KeptIsGrounded
<1>3. \A key : \A x \in All(key) : \E id \in DOMAIN kept : key \in Lists(kept[id]) /\ x \in kept[id][key]
  BY DEF All
<1>4. \A id \in DOMAIN kept : "claims" \in Lists(kept[id]) => kept[id].claims \subseteq All("claims")
  BY DEF All
<1>5. ASSUME dossier' # NoDossier
      PROVE  /\ \A c \in dossier'.claims : c.evidence \in All("evidence")
             /\ \A f \in dossier'.key_findings : f.claims # {} /\ f.claims \subseteq dossier'.claims
             /\ dossier'.citations \subseteq {c.evidence : c \in dossier'.claims}
  <2>1. CASE round = 0 /\ \E n \in OfType(design, {"REPORTING"}) : dossier' = own[n]
    <3>1. PICK n \in Nodes(design) : design.type[n] = "REPORTING" /\ dossier' = own[n]
      BY <2>1 DEF OfType
    <3>2. n \in DOMAIN own /\ <<0, n>> \in DOMAIN kept /\ kept[<<0, n>>] = own[n]
      BY <1>1, <2>1, <3>1 DEF DossierInv, FirstRoundIsKept
    <3>3. {"key_findings", "claims", "citations"} \subseteq DOMAIN own[n]
          /\ own[n].claims = Input(n, "claims")
      BY <3>1, <3>2 DEF DossierInv, ReportsAreDossiers
    <3>4. Cites(own[n], Input(n, "claims"))
      BY <3>2 DEF DossierInv, OwnIsGrounded
    <3>5. Rests(own[n], All("evidence")) /\ Follows(own[n])
      BY <1>2, <3>2
    <3>6. \A f \in own[n].key_findings : f.claims # {} /\ f.claims \subseteq own[n].claims
      BY <3>3, <3>5 DEF Follows
    <3>7. QED
      BY <3>1, <3>3, <3>4, <3>5, <3>6 DEF Rests, Cites
  <2>2. CASE /\ round # 0
             /\ dossier' = Compiled([key \in {"findings", "claims", "citations", "contradictions"} |->
                                        All(key)])
    <3>1. /\ dossier'.key_findings = Merged(All("findings")) /\ dossier'.claims = All("claims")
          /\ dossier'.citations = All("citations")
      BY <2>2 DEF Compiled
    <3>2. \A c \in All("claims") : c.evidence \in All("evidence")
      BY <1>2, <1>3, ListsAreHandedDown DEF Rests
    <3>3. \A f \in All("findings") : f.claims # {} /\ f.claims \subseteq All("claims")
      <4> SUFFICES ASSUME NEW f \in All("findings")
                   PROVE  f.claims # {} /\ f.claims \subseteq All("claims")
        OBVIOUS
      <4>1. PICK id \in DOMAIN kept : "findings" \in Lists(kept[id]) /\ f \in kept[id]["findings"]
        BY <1>3
      <4>2. /\ "claims" \in Lists(kept[id])
            /\ f.claims # {} /\ f.claims \subseteq kept[id].claims
        BY <1>2, <4>1, ListsAreHandedDown DEF Follows
      <4>3. QED
        BY <1>4, <4>2
    <3>4. \A f \in Merged(All("findings")) : f.claims # {} /\ f.claims \subseteq All("claims")
      BY <3>3, MergedFollow
    <3>5. All("citations") \subseteq {c.evidence : c \in All("claims")}
      BY <1>2, <1>3, ListsAreHandedDown DEF Cites
    <3>6. QED
      BY <3>1, <3>2, <3>4, <3>5
  <2>3. CASE UNCHANGED dossier
    BY <1>1, <1>5, <2>3 DEF DossierInv, DossierIsTyped
  <2>4. QED
    BY <1>1, <2>1, <2>2, <2>3
<1>6. \A m, key : Input(m, key)' = Input(m, key) /\ (Given(m, key)' <=> Given(m, key))
  BY <1>1 DEF Input, Givers, Given
<1>7. DossierIsTyped'
  BY <1>1 DEF DossierInv, DossierIsTyped
<1>8. OwnIsClosed' /\ ReportsAreDossiers'
  BY <1>1, <1>6 DEF DossierInv, OwnIsClosed, ReportsAreDossiers
<1>9. OwnIsGrounded'
  BY <1>1, <1>6 DEF DossierInv, OwnIsGrounded, GatheredEvidence, Rests, Follows, Cites
<1>10. KeptIsGrounded'
  BY <1>1 DEF DossierInv, KeptIsGrounded, All
<1>11. AuditIsSound'
  BY <1>1, <1>6 DEF DossierInv, AuditIsSound
<1>12. FirstRoundIsKept'
  BY <1>1 DEF DossierInv, FirstRoundIsKept
<1>13. KeptIsOfEarlierRounds' /\ MatchedTaskIsDispatched'
  BY <1>1 DEF KeptIsOfEarlierRounds, MatchedTaskIsDispatched
<1>14. DossierIsGrounded'
  <2>1. All("evidence")' = All("evidence")
    BY <1>1 DEF All
  <2>2. QED
    BY <1>5, <2>1 DEF DossierIsGrounded
<1>15. QED
  BY <1>7, <1>8, <1>9, <1>10, <1>11, <1>12, <1>13, <1>14 DEF DossierInv

LEMMA InitDossierInv ==
    ASSUME DossierConstants, DossierInit
    PROVE  DossierInv
<1>1. /\ stage = "execute" /\ round = 0 /\ own = << >> /\ kept = << >> /\ dossier = NoDossier
      /\ \E p \in Designs : design = Completed(p)
      /\ \/ role = Casting(design)
         \/ \E miscast \in Miscast : role = [Casting(design) EXCEPT ![miscast[1]] = miscast[2]]
  BY DEF DossierInit
<1>2. DOMAIN own = {} /\ DOMAIN kept = {}
  BY <1>1
<1>3. IsPlan(design)
  BY <1>1, CompletedIsComplete DEF DossierConstants
<1>4. DOMAIN role = Nodes(design)
  BY <1>1 DEF Casting
<1>5. DossierIsTyped
  BY <1>1, <1>2, <1>3, <1>4 DEF DossierIsTyped, DossierConstants
<1>6. /\ OwnIsClosed /\ OwnIsGrounded /\ ReportsAreDossiers /\ AuditIsSound
      /\ KeptIsOfEarlierRounds /\ KeptIsGrounded
  BY <1>2 DEF OwnIsClosed, OwnIsGrounded, ReportsAreDossiers, AuditIsSound,
     KeptIsOfEarlierRounds, KeptIsGrounded
<1>7. FirstRoundIsKept /\ MatchedTaskIsDispatched /\ DossierIsGrounded
  BY <1>1 DEF FirstRoundIsKept, MatchedTaskIsDispatched, DossierIsGrounded
<1>8. QED
  BY <1>5, <1>6, <1>7 DEF DossierInv

LEMMA StepDossierInv ==
    ASSUME DossierConstants, DossierInv, [DossierNext]_dossierVars
    PROVE  DossierInv'
<1>1. ASSUME NEW n \in Nodes(design), Refuse(n)
      PROVE  DossierInv'
  <2>1. PlanFails(Refusal(design.type[n], role[n])) /\ stage = "execute"
        /\ Refusal(design.type[n], role[n]) # "none"
    BY <1>1 DEF Refuse, CanRun
  <2>2. Refusal(design.type[n], role[n]) \in {"UNSUPPORTED_ROLE", "UNSUPPORTED_TASK_TYPE"}
    BY <2>1, RefusalsAreMismatches
  <2>3. QED
    BY <2>1, <2>2, PlanFailsKeeps DEF Errors
<1>2. ASSUME NEW n \in Nodes(design), Exhaust(n)
      PROVE  DossierInv'
  BY <1>2, DispatchedInput, PlanFailsKeeps DEF Exhaust, Errors
<1>3. ASSUME NEW n \in Nodes(design), DecomposeTask(n)
      PROVE  DossierInv'
  BY <1>3, DecomposeTaskKeeps
<1>4. ASSUME NEW n \in Nodes(design), Research(n)
      PROVE  DossierInv'
  BY <1>4, ResearchKeeps
<1>5. ASSUME NEW n \in Nodes(design), Synthesize(n)
      PROVE  DossierInv'
  BY <1>5, SynthesizeKeeps
<1>6. ASSUME NEW n \in Nodes(design), DetectConflicts(n)
      PROVE  DossierInv'
  BY <1>6, DetectConflictsKeeps
<1>7. ASSUME NEW n \in Nodes(design), Verify(n)
      PROVE  DossierInv'
  BY <1>7, VerifyKeeps
<1>8. ASSUME NEW n \in Nodes(design), Evaluate(n)
      PROVE  DossierInv'
  BY <1>8, EvaluateKeeps
<1>9. ASSUME NEW n \in Nodes(design), Report(n)
      PROVE  DossierInv'
  BY <1>9, ReportKeeps
<1>10. CASE ConcludePlan
  BY <1>10, ConcludePlanKeeps
<1>11. CASE Compile
  BY <1>11, CompileKeeps
<1>12. CASE UNCHANGED dossierVars
  <2>1. /\ UNCHANGED stage /\ UNCHANGED design /\ UNCHANGED role /\ UNCHANGED round
        /\ UNCHANGED own /\ UNCHANGED kept /\ UNCHANGED dossier
    BY <1>12 DEF dossierVars
  <2>2. \A m, key : Input(m, key)' = Input(m, key) /\ (Given(m, key)' <=> Given(m, key))
    BY <2>1 DEF Input, Givers, Given
  <2>3. \A key : All(key)' = All(key)
    BY <2>1 DEF All
  <2>4. DossierIsTyped' /\ OwnIsClosed' /\ ReportsAreDossiers'
    BY <2>1, <2>2 DEF DossierInv, DossierIsTyped, OwnIsClosed, ReportsAreDossiers
  <2>5. OwnIsGrounded'
    BY <2>1, <2>2 DEF DossierInv, OwnIsGrounded, GatheredEvidence, Rests, Follows, Cites
  <2>6. KeptIsGrounded' /\ KeptIsOfEarlierRounds' /\ FirstRoundIsKept'
    BY <2>1, <2>3 DEF DossierInv, KeptIsGrounded, KeptIsOfEarlierRounds, FirstRoundIsKept
  <2>7. MatchedTaskIsDispatched' /\ DossierIsGrounded'
    BY <2>1, <2>3 DEF DossierInv, MatchedTaskIsDispatched, DossierIsGrounded
  <2>8. AuditIsSound'
    BY <2>1, <2>2 DEF DossierInv, AuditIsSound
  <2>9. QED
    BY <2>4, <2>5, <2>6, <2>7, <2>8 DEF DossierInv
<1>13. QED
  BY <1>1, <1>2, <1>3, <1>4, <1>5, <1>6, <1>7, <1>8, <1>9, <1>10, <1>11, <1>12 DEF DossierNext

THEOREM DossierInvHolds == DossierConstants => (DossierSpec => []DossierInv)
<1> SUFFICES ASSUME DossierConstants
             PROVE  DossierSpec => []DossierInv
  OBVIOUS
<1>1. DossierInit => DossierInv
  BY InitDossierInv
<1>2. DossierInv /\ [DossierNext]_dossierVars => DossierInv'
  BY StepDossierInv
<1>3. QED
  BY <1>1, <1>2, PTL DEF DossierSpec

\* What is executed is a plan in every round, at most MaxLoops refinements are made, and
\* only a run that is done has a dossier (ResearchJobWorker.handle_job).
THEOREM DossierTypeCorrectness == DossierConstants => (DossierSpec => []DossierTypeOK)
<1> SUFFICES ASSUME DossierConstants
             PROVE  DossierSpec => []DossierTypeOK
  OBVIOUS
<1>1. DossierInv => DossierTypeOK
  BY DEF DossierInv, DossierIsTyped, DossierTypeOK
<1>2. QED
  BY <1>1, DossierInvHolds, PTL

\* Whatever the plan, the router turns no task down for want of a permission or of a
\* worker: its tables agree (AgentWorkerRouter.execute).
THEOREM MatchedTasksAreDispatched == DossierConstants => (DossierSpec => []MatchedTaskIsDispatched)
<1> SUFFICES ASSUME DossierConstants
             PROVE  DossierSpec => []MatchedTaskIsDispatched
  OBVIOUS
<1>1. DossierInv => MatchedTaskIsDispatched
  BY DEF DossierInv
<1>2. QED
  BY <1>1, DossierInvHolds, PTL

\* Of two claims that contradict each other neither is audited as verified, unless a task
\* before handed down contradictions (VerifierAgent.verify_claims).
THEOREM AuditsAreSound == DossierConstants => (DossierSpec => []AuditIsSound)
<1> SUFFICES ASSUME DossierConstants
             PROVE  DossierSpec => []AuditIsSound
  OBVIOUS
<1>1. DossierInv => AuditIsSound
  BY DEF DossierInv
<1>2. QED
  BY <1>1, DossierInvHolds, PTL

\* If the run has a dossier, in it claims rest on evidence of the run, findings on claims and citations
\* on both, however often it was refined (ReporterAgent.compile_dossier).
THEOREM DossiersAreGrounded == DossierConstants => (DossierSpec => []DossierIsGrounded)
<1> SUFFICES ASSUME DossierConstants
             PROVE  DossierSpec => []DossierIsGrounded
  OBVIOUS
<1>1. DossierInv => DossierIsGrounded
  BY DEF DossierInv
<1>2. QED
  BY <1>1, DossierInvHolds, PTL
===============================================================================

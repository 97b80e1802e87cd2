--------------------------- MODULE ResearchDossier ---------------------------
(***************************************************************************)
(* What research comes to.  The router dispatches the tasks of a plan to   *)
(* the agents' workers (orchestration/router.py, agents/); each gets what  *)
(* its ancestors put out (orchestration/executor.py).  Searches gather     *)
(* evidence, an analyst makes claims and findings of it, a verifier audits *)
(* and cites, an evaluator scores, and a reporter compiles the dossier.    *)
(* The job worker refines a result that scored low, at most                *)
(* MaxRefinements times, and then compiles a dossier anew (jobs/worker.py).*)
(*                                                                         *)
(* A statement stands for a normalised sentence of a record.  Lists that   *)
(* the code fills without duplicates are sets.  Where it takes the first   *)
(* of several, any may be the first.  Scores are in thousandths.           *)
(***************************************************************************)
EXTENDS ResearchPlan, FiniteSetsExt, Functions

CONSTANTS Designs,      \* planners' plans
          Miscast,      \* tasks with roles a planner may give to them instead of the right one
          Harvests,     \* sets of evidence a search may come back with
          Documented,   \* tasks whose input_context has documents
          States,       \* the statements of each piece of evidence
          Opposed,      \* pairs of related statements whose polarity clashes
          Headline,     \* the title of a finding on a statement
          Covers,       \* the words of a finding on a statement
          GoalWords,    \* the words of the goal
          Domain,       \* of each piece of evidence
          MaxClaims,    \* max_claims_per_evidence
          MaxFindings,  \* max_findings
          MaxLoops      \* max_refinement_loops

VARIABLES stage,      \* "execute", "compile", "done", or the error the run failed with
          design,     \* the plan being executed
          role,       \* assigned_role of its tasks
          round,      \* iteration: refinements so far
          own,        \* its task_outputs
          kept,       \* all_task_outputs
          dossier

dossierVars == <<stage, design, role, round, own, kept, dossier>>

NoDossier == << >>

-------------------------------------------------------------------------------
(* Roles.                                                                      *)

Compatible ==
    [PLANNER |-> {"DECOMPOSITION"},
     RESEARCHER |-> Searches,
     ANALYST |-> {"SYNTHESIS"},
     VERIFIER |-> {"VERIFICATION", "CONFLICT_DETECTION"},
     EVALUATOR |-> {"EVALUATION"},
     REPORTER |-> {"REPORTING"}]

Required(type) ==
    CASE type = "WEB_SEARCH" -> "WEB_SEARCH"
      [] type = "ACADEMIC_SEARCH" -> "ACADEMIC_SEARCH"
      [] type = "DOC_ANALYSIS" -> "DOC_EXTRACT"
      [] OTHER -> "LLM_REASONING"

\* Mutant: documents are thought to be for verifiers alone.
NarrowPermissions ==
    [PLANNER |-> {"LLM_REASONING"},
     RESEARCHER |-> {"WEB_SEARCH", "ACADEMIC_SEARCH"},
     ANALYST |-> {"LLM_REASONING"},
     VERIFIER |-> {"DOC_EXTRACT", "LLM_REASONING"},
     EVALUATOR |-> {"LLM_REASONING"},
     REPORTER |-> {"LLM_REASONING"}]

Permissions ==
    [PLANNER |-> {"LLM_REASONING"},
     RESEARCHER |-> {"WEB_SEARCH", "ACADEMIC_SEARCH", "DOC_EXTRACT", "VECTOR_SEARCH",
                     "VECTOR_UPSERT", "LLM_REASONING"},
     ANALYST |-> {"VECTOR_SEARCH", "LLM_REASONING"},
     VERIFIER |-> {"VECTOR_SEARCH", "WEB_SEARCH", "DOC_EXTRACT", "LLM_REASONING"},
     EVALUATOR |-> {"LLM_REASONING"},
     REPORTER |-> {"STORAGE_WRITE", "LLM_REASONING"}]

\* The workers of the default router, by role and by role and type.
Registered ==
    UNION {{r} \X Compatible[r] : r \in DOMAIN Compatible}

\* Why the router refuses a task, "none" if it does not.  It has no cancellation token.
Refusal(type, r) ==
    IF r \notin DOMAIN Compatible THEN "UNSUPPORTED_ROLE"
    ELSE IF type \notin Compatible[r] THEN "UNSUPPORTED_TASK_TYPE"
    ELSE IF Required(type) \notin Permissions[r] THEN "UNAUTHORIZED_DISPATCH"
    ELSE IF <<r, type>> \notin Registered THEN "WORKER_NOT_REGISTERED"
    ELSE "none"

RoleOf(type) == CHOOSE r \in DOMAIN Compatible : type \in Compatible[r]
Casting(p) == [n \in Nodes(p) |-> RoleOf(p.type[n])]

-------------------------------------------------------------------------------
(* The input of a task.                                                        *)

\* Mutant: only the direct prerequisites hand something down.
DirectOnly(p, n) == Prerequisites(p, n)

\* The least set that contains the prerequisites of the task and of its members.
Ancestors(p, n) ==
    LET Closed == {S \in SUBSET Nodes(p) :
                      /\ Prerequisites(p, n) \subseteq S
                      /\ \A m \in S : Prerequisites(p, m) \subseteq S}
    IN  {m \in Nodes(p) : \A S \in Closed : m \in S}

\* The lists of an output.  A dossier has tuples, which whoever collects lists passes over.
Lists(output) == IF "key_findings" \in DOMAIN output THEN {} ELSE DOMAIN output

\* The ancestors that have such a list, be it empty, and what all of them list.
Givers(n, key) == {m \in Ancestors(design, n) : key \in Lists(own[m])}
Given(n, key) == Givers(n, key) # {}
Input(n, key) == UNION {own[m][key] : m \in Givers(n, key)}

-------------------------------------------------------------------------------
(* Claims, findings and contradictions.                                        *)

Claim(n, s, e) == [by |-> <<round, n>>, statement |-> s, evidence |-> e]

Stated(evidence) == UNION {States[e] : e \in evidence}

\* extract_claims: a claim per statement, on the first record that makes it, of which no
\* more than MaxClaims are taken.
Grounds(evidence) ==
    {basis \in UNION {[S -> evidence] : S \in SUBSET Stated(evidence)} :
        /\ \A s \in DOMAIN basis : s \in States[basis[s]]
        /\ \A e \in evidence :
              LET taken == {s \in DOMAIN basis : basis[s] = e}
              IN  \/ Cardinality(taken) = MaxClaims
                  \/ Cardinality(taken) < MaxClaims /\ States[e] \subseteq DOMAIN basis}

Extractions(n, evidence) ==
    {{Claim(n, s, basis[s]) : s \in DOMAIN basis} : basis \in Grounds(evidence)}

\* One claim per statement, the first.
Distinguished(claims) ==
    {S \in SUBSET claims :
        \A c \in claims : Cardinality({d \in S : d.statement = c.statement}) = 1}

\* The finding on the claims that have one headline.
Finding(title, claims) ==
    LET about == {c \in claims : Headline[c.statement] = title}
    IN  [title |-> title, claims |-> about, evidence |-> {c.evidence : c \in about}]

\* analyze_claims: the findings, or the most confident MaxFindings of them.
Analyses(claims) ==
    UNION {LET titles == {Headline[c.statement] : c \in S}
               most == Min({MaxFindings, Cardinality(titles)})
           IN  {{Finding(t, S) : t \in T} : T \in kSubset(most, titles)} :
              S \in Distinguished(claims)}

\* Mutant: claims are compared within one synthesis only.
ClashesOfOne(claims) ==
    {P \in kSubset(2, claims) :
        {c.statement : c \in P} \in Opposed /\ Cardinality({c.by : c \in P}) = 1}

\* detect_contradictions.
Clashes(claims) == {P \in kSubset(2, claims) : {c.statement : c \in P} \in Opposed}

\* verify_claims on one claim.
Audit(c, pool, contradictions) ==
    CASE c.evidence \notin pool -> "UNVERIFIED"
      [] c.evidence \in pool /\ \E P \in contradictions : c \in P -> "CONTRADICTED"
      [] OTHER -> "VERIFIED"

\* _deduplicate_findings: those of one title become one.
Merged(findings) ==
    {[title |-> t,
      claims |-> UNION {f.claims : f \in {g \in findings : g.title = t}},
      evidence |-> UNION {f.evidence : f \in {g \in findings : g.title = t}}] :
        t \in {f.title : f \in findings}}

-------------------------------------------------------------------------------
(* Scores.                                                                     *)

\* n/d, rounded; as a score, and 1 at most.
Rounded(n, d) == (2 * n + d) \div (2 * d)
Share(n, d) == Min({1000, Rounded(1000 * n, d)})

Completeness(findings) ==
    LET words == UNION {Covers[c.statement] : c \in UNION {f.claims : f \in findings}}
    IN  CASE findings = {} -> 0
          [] findings # {} /\ GoalWords = {} -> 1000
          [] OTHER -> 400 + Rounded(600 * Cardinality(words \cap GoalWords), Cardinality(GoalWords))

Coverage(findings, claims, citations) ==
    IF claims = {} THEN IF findings = {} THEN 0 ELSE 1000
    ELSE Share(Cardinality({c \in claims : c.evidence \in citations}), Cardinality(claims))

ContradictionRate(contradictions, claims) ==
    Share(Cardinality(contradictions), Max({1, Cardinality(claims)}))

Diversity(citations) == Share(Cardinality({Domain[e] : e \in citations}), 3)

\* evaluate_research.
Evaluation(in) ==
    LET complete == Completeness(in.findings)
        cover == Coverage(in.findings, in.claims, in.citations)
        clash == ContradictionRate(in.contradictions, in.claims)
        diverse == Diversity(in.citations)
        score == Rounded(35 * (cover + complete) + 15 * (1000 - clash + diverse), 100)
    IN  [score |-> score, passed |-> score >= 700 /\ cover >= 500 /\ in.findings # {},
         complete |-> complete, cover |-> cover, clash |-> clash, diverse |-> diverse]

\* What extract_deficiencies looks at.
Critique(e) ==
    [incomplete |-> e.complete < 850, unsupported |-> 1000 - e.cover > 150,
     uncited |-> e.cover < 850, contradicted |-> e.clash > 150,
     weakRubrics |->
        Cardinality({i \in 1..4 : <<e.cover, e.complete, 1000 - e.clash, e.diverse>>[i] < 800}),
     low |-> e.score < 850, passed |-> e.passed]

-------------------------------------------------------------------------------
DossierInit ==
    /\ stage = "execute"
    /\ design \in {Completed(p) : p \in Designs}
    /\ \/ role = Casting(design)
       \/ \E miscast \in Miscast :
              /\ miscast[1] \in Nodes(design)
              /\ role = [Casting(design) EXCEPT ![miscast[1]] = miscast[2]]
    /\ round = 0
    /\ own = << >> /\ kept = << >>
    /\ dossier = NoDossier

\* A plan that failed: of the first the run fails, of a refinement nothing is kept.
PlanFails(code) ==
    /\ stage' = IF round = 0 THEN code ELSE "compile"
    /\ UNCHANGED <<design, role, round, own, kept, dossier>>

CanRun(n) ==
    /\ stage = "execute"
    /\ n \notin DOMAIN own
    /\ Prerequisites(design, n) \subseteq DOMAIN own

Dispatched(n, types) ==
    CanRun(n) /\ design.type[n] \in types /\ Refusal(design.type[n], role[n]) = "none"

PutOut(n, output) ==
    /\ own' = [m \in DOMAIN own \cup {n} |-> IF m = n THEN output ELSE own[m]]
    /\ UNCHANGED <<stage, design, role, round, kept, dossier>>

Refuse(n) ==
    /\ CanRun(n)
    /\ Refusal(design.type[n], role[n]) # "none"
    /\ PlanFails(Refusal(design.type[n], role[n]))

\* Any worker may fail at every attempt.
Exhaust(n) == Dispatched(n, TaskTypes) /\ PlanFails("EXHAUSTED")

\* A task to decompose puts out nothing that others take.
DecomposeTask(n) == Dispatched(n, {"DECOMPOSITION"}) /\ PutOut(n, << >>)

Research(n) ==
    /\ Dispatched(n, Searches)
    /\ IF design.type[n] = "DOC_ANALYSIS" /\ n \notin Documented
       THEN PlanFails("INVALID_RESEARCHER_INPUT")
       ELSE \E found \in Harvests : PutOut(n, [evidence |-> found])

AnalystInput(n) == [claims |-> Input(n, "claims"), evidence |-> Input(n, "evidence")]

\* Claims that are handed down are analysed; without any, those of the evidence are.
Synthesize(n) ==
    /\ Dispatched(n, {"SYNTHESIS"})
    /\ LET in == AnalystInput(n)
       IN  \E claims \in IF in.claims # {} THEN {in.claims} ELSE Extractions(n, in.evidence) :
              IF claims = {} THEN PlanFails("ANALYSIS_ERROR")
              ELSE \E findings \in Analyses(claims) :
                      PutOut(n, [claims |-> claims, findings |-> findings])

\* Contradictions are only looked for when no list of them is handed down.
VerifierInput(n) ==
    [claims |-> Input(n, "claims"), evidence |-> Input(n, "evidence"),
     contradictions |-> IF Given(n, "contradictions") THEN Input(n, "contradictions")
                        ELSE Clashes(Input(n, "claims"))]

DetectConflicts(n) ==
    /\ Dispatched(n, {"CONFLICT_DETECTION"})
    /\ PutOut(n, [contradictions |-> Clashes(VerifierInput(n).claims)])

\* verify_claims on all: the evidence of claims that are not unverified is cited.
Verification(in) ==
    LET audit == [c \in in.claims |-> Audit(c, in.evidence, in.contradictions)]
    IN  [audits |-> audit,
         citations |-> {c.evidence : c \in {d \in in.claims : audit[d] # "UNVERIFIED"}}]

\* The contradictions themselves are not put out.
Verify(n) ==
    /\ Dispatched(n, {"VERIFICATION"})
    /\ PutOut(n, Verification(VerifierInput(n)))

EvaluatorInput(n) ==
    [findings |-> Input(n, "findings"), claims |-> Input(n, "claims"),
     citations |-> Input(n, "citations"), contradictions |-> Input(n, "contradictions")]

Evaluate(n) ==
    /\ Dispatched(n, {"EVALUATION"})
    /\ PutOut(n, [evaluation |-> Evaluation(EvaluatorInput(n))])

\* An evaluator's output has no key of those that reporters are handed, so that the
\* report of a task has no evaluation.
ReporterInput(n) ==
    [findings |-> Input(n, "findings"), claims |-> Input(n, "claims"),
     citations |-> Input(n, "citations"), contradictions |-> Input(n, "contradictions")]

\* compile_dossier.
Compiled(in) ==
    [key_findings |-> Merged(in.findings), claims |-> in.claims,
     citations |-> in.citations, contradictions |-> in.contradictions]

Report(n) ==
    /\ Dispatched(n, {"REPORTING"})
    /\ PutOut(n, Compiled(ReporterInput(n)))

-------------------------------------------------------------------------------
(* The job worker.                                                             *)

\* The id of a task among those of all rounds.
TaskId(n) == <<round, n>>

Update ==
    LET ids == {TaskId(n) : n \in DOMAIN own}
    IN  [id \in DOMAIN kept \cup ids |-> IF id \in ids THEN own[id[2]] ELSE kept[id]]

\* The last evaluation put out.
Evaluations == {own[n].evaluation : n \in OfType(design, {"EVALUATION"})}

\* A plan has completed: it is refined, or its dossier is compiled.
ConcludePlan ==
    /\ stage = "execute"
    /\ DOMAIN own = Nodes(design)
    /\ kept' = Update
    /\ \E latest \in Evaluations :
          /\ IF (~latest.passed \/ latest.score < 850) /\ round < MaxLoops
             THEN /\ design' = Refinement(RefinementSearches(Deficiencies(Critique(latest))))
                  /\ role' = Casting(design')
                  /\ round' = round + 1
                  /\ own' = << >>
                  /\ UNCHANGED stage
             ELSE stage' = "compile" /\ UNCHANGED <<design, role, round, own>>
    /\ UNCHANGED dossier

All(key) == UNION {kept[id][key] : id \in {i \in DOMAIN kept : key \in Lists(kept[i])}}

\* The dossier of a reporting task, or one compiled from all outputs once refined.  If the
\* reporter fails then, the run completes all the same, without a dossier.
Compile ==
    /\ stage = "compile"
    /\ stage' = "done"
    /\ \/ round = 0 /\ \E n \in OfType(design, {"REPORTING"}) : dossier' = own[n]
       \/ /\ round > 0
          /\ dossier' = Compiled([key \in {"findings", "claims", "citations", "contradictions"} |->
                                     All(key)])
       \/ round > 0 /\ UNCHANGED dossier
    /\ UNCHANGED <<design, role, round, own, kept>>

DossierNext ==
    \/ \E n \in Nodes(design) :
          \/ Refuse(n) \/ Exhaust(n) \/ DecomposeTask(n) \/ Research(n)
          \/ Synthesize(n) \/ DetectConflicts(n) \/ Verify(n) \/ Evaluate(n) \/ Report(n)
    \/ ConcludePlan \/ Compile

DossierSpec == DossierInit /\ [][DossierNext]_dossierVars

\* What the planner hands over is a plan.
DossierConstants ==
    /\ \A p \in Designs : IsPlan(p)
    /\ MaxLoops \in Nat /\ MaxClaims \in Nat \ {0}

-------------------------------------------------------------------------------
Errors == {"UNSUPPORTED_ROLE", "UNSUPPORTED_TASK_TYPE", "UNAUTHORIZED_DISPATCH",
           "WORKER_NOT_REGISTERED", "EXHAUSTED", "INVALID_RESEARCHER_INPUT", "ANALYSIS_ERROR"}

DossierTypeOK ==
    /\ stage \in {"execute", "compile", "done"} \cup Errors
    /\ IsPlan(design) /\ DOMAIN role = Nodes(design)
    /\ round \in 0..MaxLoops
    /\ DOMAIN own \subseteq Nodes(design)
    /\ dossier # NoDossier => stage = "done"

\* The tables of three modules agree: a task whose role fits its type is never refused.
MatchedTaskIsDispatched ==
    stage \notin {"UNAUTHORIZED_DISPATCH", "WORKER_NOT_REGISTERED"}

\* Of two claims that contradict each other neither is audited as verified, whichever
\* syntheses they come from, unless a task before handed down contradictions: such a list
\* is taken as it is, and may be of fewer claims than the audit.
AuditIsSound ==
    \A n \in DOMAIN own :
        design.type[n] = "VERIFICATION" /\ ~Given(n, "contradictions") =>
            \A c, d \in DOMAIN own[n].audits :
                c # d /\ {c.statement, d.statement} \in Opposed => own[n].audits[c] # "VERIFIED"

\* Whatever the plan looks like and wherever refinement stopped, the claims of a
\* dossier rest on evidence of the run, its findings on its claims, and its citations
\* are of the evidence of its claims.
DossierIsGrounded ==
    stage = "done" /\ dossier # NoDossier =>
        /\ \A c \in dossier.claims : c.evidence \in All("evidence")
        /\ \A f \in dossier.key_findings : f.claims # {} /\ f.claims \subseteq dossier.claims
        /\ dossier.citations \subseteq {c.evidence : c \in dossier.claims}
===============================================================================

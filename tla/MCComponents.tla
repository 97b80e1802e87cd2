----------------------------- MODULE MCComponents -----------------------------
(* The components that make a run's results, each on a small instance of its    *)
(* own.  A behaviour is one of one component, that of part: the variables of    *)
(* the others do not change.  What they have of each other is modelled where it *)
(* is taken: plans by PlanPipeline and ResearchDossier alike (ResearchPlan),    *)
(* the outcomes of tasks and jobs by their nondeterminism.                      *)
EXTENDS MCPlanPipeline, ResearchDossier, EvidenceIndex, PubSubConsumer, InMemoryQueue,
        RunResults, RateLimiter

VARIABLE part

-------------------------------------------------------------------------------
(* Two tasks of a run, or of two runs, that find and are given the same         *)
(* documents: of one chunk, several, one of which is blank, too many, and too   *)
(* long; and items of which no document can be made.                            *)

Search(r, type, queries, goal) ==
    [run |-> r, type |-> type, queries |-> queries, goal |-> goal, documents |-> <<>>]
Analysis(r, documents) ==
    [run |-> r, type |-> "DOC_ANALYSIS", queries |-> <<>>, goal |-> "q1", documents |-> documents]
Item(doc) == [doc |-> doc, url |-> TRUE, fit |-> TRUE]
NoUrl(doc) == [Item(doc) EXCEPT !.url = FALSE]
Unfit(doc) == [Item(doc) EXCEPT !.fit = FALSE]

Alike == {[t1 |-> Search("r1", "WEB_SEARCH", <<"q1", "", "q1">>, "g"),
           t2 |-> Search(r, "ACADEMIC_SEARCH", <<>>, "q1")] : r \in {"r1", "r2"}}
Mixed == {[t1 |-> Search("r1", "WEB_SEARCH", <<"q2", "q1">>, ""),
           t2 |-> Analysis("r1", documents)] :
             documents \in {<<>>, <<Item("c")>>, <<Item("d")>>, <<Item("e")>>, <<Unfit("a")>>}}
Misfit == {[t1 |-> Search("r1", "WEB_SEARCH", <<"q3">>, "g"),
            t2 |-> Search("r1", "ACADEMIC_SEARCH", <<"q4">>, "g")]}

MCAssignments == Alike \cup Mixed \cup Misfit
MCLength == [a |-> 4, b |-> 1, c |-> 9, d |-> 20, e |-> 5]
MCBlank == [doc \in {"a", "b", "c", "d"} |-> {}] @@ [e |-> {2, 3, 4}]
MCAnswer == [q1 |-> <<NoUrl("b"), Item("a")>>, q2 |-> <<Item("b")>>,
             q3 |-> <<Unfit("b"), Item("a")>>, q4 |-> <<Item("e")>>]

\* Searches that everything is near to, and half of a document only.
MCSimilar == [s1 |-> {<<"a", 0>>, <<"a", 2>>, <<"b", 0>>}, s2 |-> {<<"a", 2>>, <<"b", 0>>}]

-------------------------------------------------------------------------------
(* Plans whose syntheses share evidence or not, with a conflict detection, with *)
(* a task miscast, and without anything to search.  s1 and s3 contradict each   *)
(* other, and come from two syntheses in the third plan.                        *)

Design(types, edges) == [type |-> types, edges |-> edges]

MCDesigns ==
    {Design([t1 |-> "ACADEMIC_SEARCH"], {}),
     Design([t1 |-> "SYNTHESIS"], {}),
     Design([t1 |-> "WEB_SEARCH", t2 |-> "DOC_ANALYSIS", t3 |-> "SYNTHESIS", t4 |-> "SYNTHESIS"],
            {<<"t1", "t3">>, <<"t2", "t4">>}),
     Design([t1 |-> "DOC_ANALYSIS", t2 |-> "SYNTHESIS", t3 |-> "CONFLICT_DETECTION",
             t4 |-> "VERIFICATION", t5 |-> "REPORTING"],
            {<<"t1", "t2">>, <<"t2", "t3">>, <<"t1", "t4">>, <<"t2", "t4">>, <<"t3", "t4">>,
             <<"t4", "t5">>}),
     Design([t1 |-> "WEB_SEARCH", t2 |-> "SYNTHESIS", t3 |-> "SYNTHESIS", t4 |-> "DECOMPOSITION"],
            {<<"t1", "t2">>, <<"t2", "t3">>})}

MCMiscast == {<<"t2", "SYSTEM">>, <<"t4", "ANALYST">>}
MCHarvests == {{"e1"}, {"e2", "e3"}}
MCStates == [e1 |-> {"s1"}, e2 |-> {"s1", "s2"}, e3 |-> {"s3"}]
MCOpposed == {{"s1", "s3"}}
MCHeadline == [s1 |-> "h1", s2 |-> "h1", s3 |-> "h2"]
MCCovers == [s1 |-> {"w1"}, s2 |-> {"w1", "w2"}, s3 |-> {"w3", "w5"}]
MCDomain == [e1 |-> "d1", e2 |-> "d2", e3 |-> "d3"]

-------------------------------------------------------------------------------
(* The job of a supervisor's second recovery of three.                          *)

MCFirstAttempt == [r1 |-> 2]
MCLastAttempt == [r1 |-> 3]

\* What the theorems about these components assume of their constants.
ASSUME ComponentsAssumption ==
    /\ EvidenceConstants /\ DossierConstants /\ TransportConstants
    /\ QueueConstants /\ ResultsConstants

-------------------------------------------------------------------------------
\* The parts that do not move are at one of their beginnings.
ComponentsInit ==
    /\ part \in {"plans", "limiter", "evidence", "dossier", "pubsub", "queue", "results"}
    /\ Init /\ LimiterInit /\ EvidenceInit /\ DossierInit /\ ConsumerInit /\ QueueInit
    /\ ResultsInit
    /\ part # "evidence" => request = CHOOSE r \in Assignments : TRUE
    /\ part # "dossier" => /\ design = Completed(CHOOSE p \in Designs : TRUE)
                           /\ role = Casting(design)

\* A step of one part leaves the others as they are.
OthersKeep ==
    /\ UNCHANGED part
    /\ part # "plans" => UNCHANGED vars
    /\ part # "limiter" => UNCHANGED limiterVars
    /\ part # "evidence" => UNCHANGED evidenceVars
    /\ part # "dossier" => UNCHANGED dossierVars
    /\ part # "pubsub" => UNCHANGED consumerVars
    /\ part # "queue" => UNCHANGED queueVars
    /\ part # "results" => UNCHANGED resultVars

ComponentsNext ==
    \/ part = "plans" /\ Next /\ OthersKeep
    \/ part = "limiter" /\ LimiterNext /\ OthersKeep
    \/ part = "evidence" /\ EvidenceNext /\ OthersKeep
    \/ part = "dossier" /\ DossierNext /\ OthersKeep
    \/ part = "pubsub" /\ ConsumerNext /\ OthersKeep
    \/ part = "queue" /\ QueueNext /\ OthersKeep
    \/ part = "results" /\ ResultsNext /\ OthersKeep

ComponentsSpec ==
    /\ ComponentsInit
    /\ [][ComponentsNext]_<<part, vars, limiterVars, evidenceVars, dossierVars, consumerVars,
                            queueVars, resultVars>>

-------------------------------------------------------------------------------
\* The variables of every component have their types.
ComponentsTypeOK ==
    /\ TypeOK /\ LimiterTypeOK /\ EvidenceTypeOK /\ DossierTypeOK
    /\ ConsumerTypeOK /\ QueueTypeOK /\ ResultsTypeOK

\* Both transports are job queues, the one in memory one that loses what it drops.
TransportsAreQueues == AtLeastOnceSpec /\ LocalQueueSpec
===============================================================================

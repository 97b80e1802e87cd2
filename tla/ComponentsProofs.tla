--------------------------- MODULE ComponentsProofs ---------------------------
(***************************************************************************)
(* What is proved of each component holds where they are put side by side. *)
(* A behaviour of MCComponents is one of every component at once: it       *)
(* starts where each of them may start, and a step of one part is for the  *)
(* others no step.  So the theorems about the components, for the          *)
(* constants that MCComponents gives them, carry over to it.               *)
(***************************************************************************)
EXTENDS MCComponents, PlanPipelineProofs, EvidenceIndexProofs, TransportProofs, ApiProofs

ComponentsVars == <<part, vars, limiterVars, evidenceVars, dossierVars, consumerVars,
                    queueVars, resultVars>>

\* Nothing that a part knows of changes while another part moves.
LEMMA PartsMove ==
    [ComponentsNext]_ComponentsVars =>
        /\ [Next]_vars /\ [LimiterNext]_limiterVars /\ [EvidenceNext]_evidenceVars
        /\ [DossierNext]_dossierVars /\ [ConsumerNext]_consumerVars
        /\ [QueueNext]_queueVars /\ [ResultsNext]_resultVars
<1> SUFFICES ASSUME [ComponentsNext]_ComponentsVars
             PROVE  /\ [Next]_vars /\ [LimiterNext]_limiterVars
                    /\ [EvidenceNext]_evidenceVars /\ [DossierNext]_dossierVars
                    /\ [ConsumerNext]_consumerVars /\ [QueueNext]_queueVars
                    /\ [ResultsNext]_resultVars
  OBVIOUS
<1>1. CASE ComponentsNext
  <2>1. OthersKeep
    BY <1>1 DEF ComponentsNext
  <2>2. /\ part # "plans" \/ Next
        /\ part # "limiter" \/ LimiterNext
        /\ part # "evidence" \/ EvidenceNext
        /\ part # "dossier" \/ DossierNext
        /\ part # "pubsub" \/ ConsumerNext
        /\ part # "queue" \/ QueueNext
        /\ part # "results" \/ ResultsNext
    BY <1>1 DEF ComponentsNext
  <2>3. QED
    BY <2>1, <2>2 DEF OthersKeep
<1>2. CASE UNCHANGED ComponentsVars
  BY <1>2 DEF ComponentsVars
<1>3. QED
  BY <1>1, <1>2

\* Every part behaves as its specification says, whatever the others do.
THEOREM ComponentsBehave ==
    ComponentsSpec =>
        /\ Spec /\ LimiterSpec /\ EvidenceSpec /\ DossierSpec
        /\ ConsumerSpec /\ QueueSpec /\ ResultsSpec
<1>1. ComponentsInit =>
          /\ Init /\ LimiterInit /\ EvidenceInit /\ DossierInit /\ ConsumerInit
          /\ QueueInit /\ ResultsInit
  BY DEF ComponentsInit
<1>2. ComponentsSpec <=> ComponentsInit /\ [][ComponentsNext]_ComponentsVars
  BY DEF ComponentsSpec, ComponentsVars
<1>3. QED
  BY <1>1, <1>2, PartsMove, PTL
  DEF Spec, LimiterSpec, EvidenceSpec, DossierSpec, ConsumerSpec, QueueSpec, ResultsSpec

\* ComponentsTypeOK: the variables of the planner, the limiter, the evidence index, the
\* dossier, both transports and the results have their types, on the instance that
\* MCComponents is and on every other that satisfies its assumption.
THEOREM ComponentsTypeCorrectness == ComponentsSpec => []ComponentsTypeOK
<1>1. /\ Spec => []TypeOK
      /\ LimiterSpec => []LimiterTypeOK
      /\ EvidenceSpec => []EvidenceTypeOK
      /\ DossierSpec => []DossierTypeOK
      /\ ConsumerSpec => []ConsumerTypeOK
      /\ QueueSpec => []QueueTypeOK
      /\ ResultsSpec => []ResultsTypeOK
  BY ComponentsAssumption, TypeCorrectness, LimiterTypeCorrectness,
     EvidenceTypeCorrectness, DossierTypeCorrectness, ConsumerTypeCorrectness,
     QueueTypeCorrectness, ResultsTypeCorrectness DEF ComponentsAssumption
<1>2. QED
  BY <1>1, ComponentsBehave, PTL DEF ComponentsTypeOK

\* And the run's other invariants, each of which is a theorem about its component: plans
\* that are executed are sound, dossiers grounded, evidence searchable, jobs in their
\* place, clients limited and listed artifacts served, in one and the same behaviour.
THEOREM ComponentsAreSafe ==
    ComponentsSpec =>
        [](/\ VerdictIsRight /\ DepthIsCriticalPath
           /\ ExecutedPlanIsComplete /\ RefinementIsExecutable
           /\ MatchedTaskIsDispatched /\ AuditIsSound /\ DossierIsGrounded
           /\ EvidenceIsSearchable /\ OneRecordPerContent /\ FailureIsEarned
           /\ SearchIsComplete
           /\ NoJobIsLost /\ EveryJobHasItsPlace
           /\ WindowNeverExceeded /\ ListedIsServed)
<1>1. Spec => [](/\ VerdictIsRight /\ DepthIsCriticalPath
                 /\ ExecutedPlanIsComplete /\ RefinementIsExecutable)
  BY VerdictsAreRight, DepthsAreCriticalPaths,
     ExecutedPlansAreComplete, RefinementsAreExecutable, PTL
<1>2. DossierSpec => [](MatchedTaskIsDispatched /\ AuditIsSound /\ DossierIsGrounded)
  BY ComponentsAssumption, MatchedTasksAreDispatched, AuditsAreSound, DossiersAreGrounded,
     PTL DEF ComponentsAssumption
<1>3. EvidenceSpec => [](/\ EvidenceIsSearchable /\ OneRecordPerContent
                         /\ FailureIsEarned /\ SearchIsComplete)
  <2>1. EvidenceSpec => [](SearchIsComplete /\ \A limit \in Nat : CompleteUpTo(limit))
    BY ComponentsAssumption, SearchesAreComplete DEF ComponentsAssumption
  <2>2. EvidenceSpec => []SearchIsComplete
    BY <2>1, PTL
  <2>3. QED
    BY <2>2, ComponentsAssumption, GatheredIsSearchable, RecordsAreUnique,
       FailuresAreEarned, PTL DEF ComponentsAssumption
<1>4. ConsumerSpec /\ QueueSpec => [](NoJobIsLost /\ EveryJobHasItsPlace)
  BY ComponentsAssumption, JobsAreNeverLost, JobsHaveTheirPlace, PTL
  DEF ComponentsAssumption
<1>5. LimiterSpec /\ ResultsSpec => [](WindowNeverExceeded /\ ListedIsServed)
  BY ComponentsAssumption, WindowsAreNeverExceeded, ListedArtifactsAreServed, PTL
  DEF ComponentsAssumption
<1>6. QED
  BY <1>1, <1>2, <1>3, <1>4, <1>5, ComponentsBehave, PTL

\* Both transports (jobs/pubsub.py, jobs/in_memory.py) are job queues: the one loses
\* nothing, the other what it is said to drop.
THEOREM BothAreJobQueues == ComponentsSpec => TransportsAreQueues
<1>1. ConsumerSpec /\ QueueSpec => AtLeastOnceSpec /\ LocalQueueSpec
  BY ComponentsAssumption, ImplementsJobQueue, LocalQueueIsJobQueue DEF ComponentsAssumption
<1>2. QED
  BY <1>1, ComponentsBehave DEF TransportsAreQueues
===============================================================================

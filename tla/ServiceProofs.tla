----------------------------- MODULE ServiceProofs -----------------------------
(***************************************************************************)
(* The services taken together, as the run of MCServices checks them: a    *)
(* behaviour of the whole is a behaviour of each of the parts, so that     *)
(* what is proved of a part holds of the whole, and the rows of every      *)
(* service have their shapes.                                              *)
(***************************************************************************)
EXTENDS MCServices, LearningProofs, AgentProofs, CollaborationProofs, RunPipelineProofs

LEMMA ServicesStart ==
  Init => /\ SuiteInit /\ StrategyInit /\ ProfilesInit /\ AccessInit /\ MemoryInit /\ ThreadInit
          /\ ReviewInit /\ PersistentInit /\ PipelineInit
BY DEF Init

\* A step of the whole is a step of the service that runs and leaves the others alone.
LEMMA ServicesStep ==
  ASSUME [Next]_vars
  PROVE  /\ [SuiteNext]_suiteVars /\ [StrategyNext]_strategyVars /\ [ProfilesNext]_profileVars
         /\ [AccessNext]_accessVars /\ [MemoryNext]_memoryVars /\ [ThreadNext]_threadVars
         /\ [ReviewNext]_reviewVars /\ [PersistentNext]_persistentVars
         /\ [PipelineNext]_pipelineVars
<1>1. CASE Next
  BY <1>1 DEF Next, Rest
<1>2. CASE UNCHANGED vars
  BY <1>2 DEF vars
<1>3. QED
  BY <1>1, <1>2

\* The services share no state, so what the whole does is, for each of them, what it may do
\* alone: every theorem about a service holds of the whole as well.
THEOREM ServicesRunApart ==
  Spec => /\ SuiteSpec /\ StrategySpec /\ ProfilesSpec /\ AccessSpec /\ MemorySpec /\ ThreadSpec
          /\ ReviewSpec /\ PersistentSpec /\ PipelineSpec
BY ServicesStart, ServicesStep, PTL
   DEF Spec, SuiteSpec, StrategySpec, ProfilesSpec, AccessSpec, MemorySpec, ThreadSpec, ReviewSpec,
       PersistentSpec, PipelineSpec

\* Whichever service runs, its rows, files and copies have the shapes its code writes, also
\* where a row is written back whole from a copy that has gone stale.
THEOREM ServiceTypesHold == Spec => []TypeOK
<1>1. Init => service \in Services
  BY DEF Init
<1>2. service \in Services /\ [Next]_vars => (service \in Services)'
  BY DEF Next, Rest, vars
<1>3. /\ service \in Services /\ SuiteTypeOK /\ StrategyTypeOK /\ ProfilesTypeOK /\ AccessTypeOK
      /\ MemoryTypeOK /\ ThreadTypeOK /\ ReviewTypeOK /\ PersistentTypeOK /\ PipelineTypeOK
      => TypeOK
  BY DEF Services, TypeOK
<1>4. QED
  BY <1>1, <1>2, <1>3, ServicesRunApart, SuiteTypesHold, StrategyTypesHold, ProfilesTypesHold,
     AccessTypesHold, MemoryTypesHold, ThreadTypesHold, ReviewTypesHold, PersistentTypesHold,
     PipelineTypesHold, PTL DEF Spec
=============================================================================

----------------------------- MODULE MCRfpParts -----------------------------
(***************************************************************************)
(* Parts 1 and 2 of the RFP workflow, each on its own, for the model       *)
(* checker: a behaviour follows the intake of one ticket or the generation *)
(* on one that was analysed (focus).  RfpLifecycle lets them interleave.   *)
(***************************************************************************)
EXTENDS RfpIntake, RfpGeneration

VARIABLE focus

partsVars == <<storeVars, intake, run, focus>>

(* The generation begins where a pipeline has ended.                         *)
MCInit == \/ /\ focus = "intake"
             /\ IntakeInit
             /\ run = [r \in Runs |-> IdleRun]
          \/ /\ focus = "generation"
             /\ GenerationInit
             /\ intake = [at |-> "done", needed |-> Active, todo |-> {}]

FollowedPipeline == focus = "intake" /\ PipelineStep /\ UNCHANGED <<run, focus>>
FollowedLoop(r)  == focus = "generation" /\ LoopStep(r) /\ UNCHANGED <<intake, focus>>

MCNext == \/ focus = "intake" /\ IntakeNext /\ UNCHANGED <<run, focus>>
          \/ focus = "generation" /\ GenerationNext /\ UNCHANGED <<intake, focus>>

(* The fairness of FairIntakeSpec and of FairGenerationSpec.                 *)
MCSpec == /\ MCInit /\ [][MCNext]_partsVars
          /\ WF_partsVars(FollowedPipeline)
          /\ \A r \in Runs : WF_partsVars(FollowedLoop(r))
=============================================================================

---------------------------- MODULE RfpLifecycle ----------------------------
(***************************************************************************)
(* The three parts of the RFP workflow over the one ticket they share.     *)
(*                                                                         *)
(* The parts are separate routes of one server and meet only in the store: *)
(* requests of part 2 and 3 may arrive at any time, also while the         *)
(* pipeline of part 1 or the loop of part 2 is running in the background.  *)
(***************************************************************************)
EXTENDS RfpIntake, RfpGeneration, RfpApproval

lifecycleVars == <<storeVars, intake, run, gate, opening, review>>

LifecycleTypeOK == IntakeTypeOK /\ GenerationTypeOK /\ ApprovalTypeOK

LifecycleInit == /\ IntakeInit
                 /\ run = [r \in Runs |-> IdleRun]
                 /\ CallsInit

LifecycleNext ==
    \/ IntakeNext     /\ UNCHANGED <<run, gate, opening, review>>
    \/ GenerationNext /\ UNCHANGED <<intake, gate, opening, review>>
    \/ ApprovalNext   /\ UNCHANGED <<intake, run>>

(* A process may die in the middle of any of the parts; the others go on,    *)
(* in another process or after a restart.                                   *)
LifecycleFailure ==
    \/ IntakeKilled                   /\ UNCHANGED <<run, gate, opening, review>>
    \/ (\E r \in Runs : RunKilled(r)) /\ UNCHANGED <<intake, gate, opening, review>>
    \/ ApprovalFailure                /\ UNCHANGED <<intake, run>>

LifecycleSpec == LifecycleInit /\ [][LifecycleNext]_lifecycleVars

LossyLifecycleSpec ==
    LifecycleInit /\ [][LifecycleNext \/ LifecycleFailure]_lifecycleVars

(***************************************************************************)
(* What the repository says of the whole and the code does not do.         *)
(***************************************************************************)

FairLifecycleSpec ==
    /\ LifecycleSpec
    /\ WF_lifecycleVars(PipelineStep /\ UNCHANGED <<run, gate, opening, review>>)
    /\ \A r \in Runs :
          WF_lifecycleVars(LoopStep(r) /\ UNCHANGED <<intake, gate, opening, review>>)
    /\ \A o \in Openings :
          WF_lifecycleVars(OpeningStep(o) /\ UNCHANGED <<intake, run>>)
    /\ \A v \in Reviews :
          WF_lifecycleVars(ReviewStep(v) /\ UNCHANGED <<intake, run>>)

(* A document that is no RFP stops the flow and leaves the ticket discarded  *)
(* (README.md).  Opening the approval gates asks for no status.             *)
DiscardedStays == [][status = "descartado" => status' = "descartado"]_lifecycleVars
=============================================================================

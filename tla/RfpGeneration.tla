--------------------------- MODULE RfpGeneration ----------------------------
(***************************************************************************)
(* Part 2 of the RFP workflow: requests to POST /{ticket_id}/generate and  *)
(* the generator-evaluator loop each leaves running in the background      *)
(* (routes/rfp.py, rfp_intake/response_flow.py), for one ticket.           *)
(*                                                                         *)
(* Several requests may be in flight at once: the route checks the ticket's*)
(* status in one transaction and writes it in another, and nothing holds   *)
(* the ticket in between.                                                  *)
(***************************************************************************)
EXTENDS RfpStore, Naturals

CONSTANTS
    Runs,           \* slots for generation requests in flight at the same time
    MaxIterations,  \* max_iterations of the request: attempts per department
    Compliant       \* departments whose draft the three evaluators pass; drafts
                    \* depend on the metadata alone, which no run changes

ASSUME GenerationAssumption == /\ MaxIterations \in Nat \ {0}
                               /\ Compliant \subseteq Dept

VARIABLE run  \* run[r]: the request in slot r

generationVars == <<storeVars, run>>

(* The body of the background task's try block.                             *)
LoopSteps == {"queued", "begin", "draft", "evaluated"}
RunSteps  == LoopSteps \cup {"idle", "accepted", "failing"}

IdleRun == [at |-> "idle", todo |-> {}, iteration |-> 0, anyFailed |-> FALSE]

RunRecords == [at : RunSteps, todo : SUBSET Dept, iteration : 0..MaxIterations,
               anyFailed : BOOLEAN]

GenerationTypeOK == StoreTypeOK /\ run \in [Runs -> RunRecords]

(* A ticket as part 1 hands it over: analysed, fresh sections, no document.  *)
GenerationInit ==
    /\ status = "analisis_completo"
    /\ \E ds \in (SUBSET Dept) \ {{}} :
          section = [d \in Dept |-> IF d \in ds THEN FreshRow ELSE Absent]
    /\ doc = NoDoc
    /\ run = [r \in Runs |-> IdleRun]

Move(r, step) == run' = [run EXCEPT ![r].at = step]
EndRun(r)     == run' = [run EXCEPT ![r] = IdleRun]

(* allowed_statuses, the same set in the route and in the background task.   *)
Generable == {"analisis_completo", "generando_borrador", "en_evaluacion",
              "needs_human_review"}

(***************************************************************************)
(* The request.                                                            *)
(***************************************************************************)

(* The status is read; any other status is answered 400 and changes nothing. *)
RequestGeneration(r) == /\ run[r].at = "idle"
                        /\ status \in Generable
                        /\ Move(r, "accepted")
                        /\ UNCHANGED storeVars

(* The ticket is marked at once and the loop is queued.                     *)
AcceptGeneration(r) == /\ run[r].at = "accepted"
                       /\ SetStatus("generando_borrador")
                       /\ Move(r, "queued")
                       /\ UNCHANGED <<section, doc>>

(***************************************************************************)
(* The loop.                                                               *)
(***************************************************************************)

(* The task reads the ticket again, and raises if its status has moved on.   *)
LoadTicket(r) ==
    /\ run[r].at = "queued"
    /\ run' = [run EXCEPT ![r].at = IF status \in Generable THEN "begin"
                                    ELSE "failing",
                          ![r].todo = Active]
    /\ UNCHANGED storeVars

BeginDrafting(r) ==
    /\ run[r].at = "begin"
    /\ IF run[r].todo = {}
       THEN SetStatus("analisis_completo") /\ EndRun(r)
       ELSE SetStatus("generando_borrador") /\ Move(r, "draft")
    /\ UNCHANGED <<section, doc>>

(* The sections are taken in the fixed order of the query.                  *)
Current(r) == CHOOSE d \in run[r].todo : TRUE
Passes(r)  == Current(r) \in Compliant

(* A draft is generated, the status written, the evaluators run.            *)
Evaluate(r) == /\ run[r].at = "draft"
               /\ run[r].todo # {}
               /\ SetStatus("en_evaluacion")
               /\ run' = [run EXCEPT ![r].at = "evaluated",
                                     ![r].iteration = @ + 1]
               /\ UNCHANGED <<section, doc>>

\* Faulty variant: the attempts are not counted.
RetryForever(r) == /\ run[r].at = "evaluated"
                   /\ ~Passes(r)
                   /\ Move(r, "draft")
                   /\ UNCHANGED storeVars

Retry(r) == /\ run[r].at = "evaluated"
            /\ ~Passes(r)
            /\ run[r].iteration < MaxIterations
            /\ Move(r, "draft")
            /\ UNCHANGED storeVars

\* Faulty variant: the last section decides for all of them.
KeepDraftForgetFailure(r) ==
    /\ run[r].at = "evaluated"
    /\ Passes(r) \/ run[r].iteration = MaxIterations
    /\ WriteDraft(Current(r), "evaluated",
                  IF Passes(r) THEN "evaluated_pass" ELSE "needs_human_review")
    /\ run' = [run EXCEPT ![r] =
                  [at |-> "draft", todo |-> @.todo \ {Current(r)},
                   iteration |-> 0, anyFailed |-> ~Passes(r)]]
    /\ UNCHANGED <<status, doc>>

(* The loop ends with a pass or with the last attempt, whose draft is kept. *)
KeepDraft(r) ==
    /\ run[r].at = "evaluated"
    /\ Passes(r) \/ run[r].iteration = MaxIterations
    /\ WriteDraft(Current(r), "evaluated",
                  IF Passes(r) THEN "evaluated_pass" ELSE "needs_human_review")
    /\ run' = [run EXCEPT ![r] =
                  [at |-> "draft", todo |-> @.todo \ {Current(r)},
                   iteration |-> 0, anyFailed |-> @.anyFailed \/ ~Passes(r)]]
    /\ UNCHANGED <<status, doc>>

FinishGeneration(r) ==
    /\ run[r].at = "draft"
    /\ run[r].todo = {}
    /\ SetStatus(IF run[r].anyFailed THEN "needs_human_review"
                 ELSE "en_evaluacion")
    /\ EndRun(r)
    /\ UNCHANGED <<section, doc>>

(***************************************************************************)
(* Failures.                                                               *)
(***************************************************************************)

(* Any step of the loop may raise; the wrapper then marks the ticket.        *)
LoopRaises(r) == /\ run[r].at \in LoopSteps
                 /\ Move(r, "failing")
                 /\ UNCHANGED storeVars

\* Faulty variant: the exception is logged and dropped.
SwallowLoopError(r) == /\ run[r].at = "failing"
                       /\ EndRun(r)
                       /\ UNCHANGED storeVars

HandleLoopError(r) == /\ run[r].at = "failing"
                      /\ SetStatus("needs_human_review")
                      /\ EndRun(r)
                      /\ UNCHANGED <<section, doc>>

(* The process dies, or the route itself answers 500.                       *)
RunKilled(r) == /\ run[r].at # "idle"
                /\ EndRun(r)
                /\ UNCHANGED storeVars

LoopStep(r) == \/ AcceptGeneration(r) \/ LoadTicket(r) \/ BeginDrafting(r)
               \/ Evaluate(r) \/ Retry(r) \/ KeepDraft(r) \/ FinishGeneration(r)
               \/ LoopRaises(r) \/ HandleLoopError(r)

GenerationNext == \E r \in Runs : RequestGeneration(r) \/ LoopStep(r)

GenerationSpec == GenerationInit /\ [][GenerationNext]_generationVars

(* A background task that was queued runs to its end; requests may stop.     *)
FairGenerationSpec ==
    GenerationSpec /\ \A r \in Runs : WF_generationVars(LoopStep(r))

(***************************************************************************)
(* Properties.                                                             *)
(***************************************************************************)
NoRunInFlight == \A r \in Runs : run[r].at = "idle"

(* A ticket left in "en_evaluacion" is one every section of which has passed *)
(* its evaluation: no run in flight, whatever runs overlapped or raised      *)
(* before.  It is what tells Sales apart from a provisional draft.          *)
RestingVerdictIsSound ==
    NoRunInFlight /\ status = "en_evaluacion" =>
        \A d \in Active : section[d].approval = "evaluated_pass"

(* An accepted request does not leave the ticket in "generando_borrador",    *)
(* also when another run of the same ticket interferes or the loop raises.   *)
GenerationSettles == status = "generando_borrador" ~>
                         status \in {"en_evaluacion", "needs_human_review"}
=============================================================================

----------------------------- MODULE RfpIntake ------------------------------
(***************************************************************************)
(* Part 1 of the RFP workflow: the upload request and the LangGraph        *)
(* pipeline it leaves running in the background (routes/rfp.py,            *)
(* rfp_intake/graph.py and nodes.py) for one ticket.                       *)
(***************************************************************************)
EXTENDS RfpStore

VARIABLE intake  \* the one pipeline of the ticket: where it is and its fan-out

intakeVars == <<storeVars, intake>>

(* Steps at which the compiled graph runs, inside its try block.            *)
GraphSteps == {"ingest", "classify", "orchestrate", "workers"}
IntakeSteps == GraphSteps \cup
               {"none", "registered", "uploaded", "publish", "error", "done",
                "killed"}

IntakeTypeOK == /\ StoreTypeOK
                /\ intake \in [at : IntakeSteps, needed : SUBSET Dept,
                               todo : SUBSET Dept]

IntakeInit == /\ StoreInit
              /\ intake = [at |-> "none", needed |-> {}, todo |-> {}]

GoTo(step) == intake' = [intake EXCEPT !.at = step]

(***************************************************************************)
(* The requests.                                                           *)
(***************************************************************************)

(* POST /upload: the ticket is committed in a worker thread; the pipeline is *)
(* scheduled only when the rest of the request has run.                     *)
Upload == /\ intake.at = "none"
          /\ CreateTicket
          /\ GoTo("uploaded")
          /\ UNCHANGED <<section, doc>>

Schedule == /\ intake.at = "uploaded"
            /\ GoTo("ingest")
            /\ UNCHANGED storeVars

(* POST /tickets: the ticket is registered as analizando, no pipeline runs.  *)
Register == /\ intake.at = "none"
            /\ CreateTicket
            /\ GoTo("registered")
            /\ UNCHANGED <<section, doc>>

(***************************************************************************)
(* The nodes of the graph.                                                 *)
(***************************************************************************)
(* A department is asked for when the text mentions its service and does not  *)
(* say that the client does without it.                                     *)
DepartmentsAsked(mentioned, declined) == mentioned \ declined

(* The text is read at upload, or here when that failed: the same text.      *)
Ingest == /\ intake.at = "ingest"
          /\ \E mentioned, declined \in SUBSET Dept :
                intake' = [intake EXCEPT
                              !.at     = "classify",
                              !.needed = DepartmentsAsked(mentioned, declined)]
          /\ UNCHANGED storeVars

(* The verdict of the classifier.  Its last test, no intention and no         *)
(* department, can only repeat the one before it.                           *)
IsClientRfp(tooShort, isPitch) == ~tooShort /\ ~isPitch /\ intake.needed # {}

\* Faulty variant: the verdict is ignored.
AlwaysOrchestrate(isValid) == "orchestrate"
\* Faulty variant: the name of the edge taken for a node.
EndAtNoNode(isValid) == IF isValid THEN "orchestrate" ELSE "end_discarded"
(* route_after_classifier: where the graph goes with this verdict.          *)
RouteAfterClassifier(isValid) == IF isValid THEN "orchestrate" ELSE "publish"

(* An invalid document is discarded in the node itself, which also clears    *)
(* the departments; the graph then ends, and the caller goes on to read and *)
(* publish the ticket.                                                      *)
Classify ==
    /\ intake.at = "classify"
    /\ \E tooShort, isPitch \in BOOLEAN :
          LET isValid == IsClientRfp(tooShort, isPitch) IN
          /\ intake' = [intake EXCEPT !.at = RouteAfterClassifier(isValid),
                                      !.needed = IF isValid THEN @ ELSE {}]
          /\ IF isValid THEN UNCHANGED status ELSE SetStatus("descartado")
    /\ UNCHANGED <<section, doc>>

(* One worker is sent to each department, with the excerpt that concerns it; *)
(* with no department the graph goes straight on to the synthesizer.        *)
Orchestrate == /\ intake.at = "orchestrate"
               /\ intake' = [intake EXCEPT !.at = "workers", !.todo = intake.needed]
               /\ UNCHANGED storeVars

(* What a worker found joins the outputs the synthesizer waits for.          *)
DeliverOutput(d) == intake' = [intake EXCEPT !.todo = @ \ {d}]

(* The department workers sent out together commit in any order.            *)
Worker(d) == /\ intake.at = "workers"
             /\ d \in intake.todo
             /\ UpsertSection(d)
             /\ DeliverOutput(d)
             /\ UNCHANGED <<status, doc>>

\* Faulty variant: the first worker releases the synthesizer.
EagerSynthesizer == intake.at = "workers" /\ intake.todo # intake.needed
(* The edge department_worker -> synthesizer waits for every worker sent.   *)
WorkersDone      == intake.at = "workers" /\ intake.todo = {}

Synthesize == /\ WorkersDone
              /\ SetStatus("analisis_completo")
              /\ GoTo("publish")
              /\ UNCHANGED <<section, doc>>

Publish == /\ intake.at = "publish"
           /\ GoTo("done")
           /\ UNCHANGED storeVars

(***************************************************************************)
(* Failures.  An exception inside the graph is caught once by              *)
(* run_rfp_intake_pipeline, which discards the ticket and re-raises, and   *)
(* again by the background wrapper, which discards it again.  An exception *)
(* while the finished ticket is read or published reaches the wrapper only.*)
(***************************************************************************)
\* Faulty variant: the exception is logged and dropped.
GraphFailsUnhandled == /\ intake.at \in GraphSteps
                       /\ GoTo("done")
                       /\ UNCHANGED storeVars

GraphFails == /\ intake.at \in GraphSteps
              /\ SetStatus("descartado")
              /\ GoTo("error")
              /\ UNCHANGED <<section, doc>>

PublishFails == /\ intake.at = "publish"
                /\ GoTo("error")
                /\ UNCHANGED storeVars

DiscardOnError == /\ intake.at = "error"
                  /\ SetStatus("descartado")
                  /\ GoTo("done")
                  /\ UNCHANGED <<section, doc>>

(* The process dies: BackgroundTasks are not persisted, nobody resumes them. *)
IntakeKilled == /\ intake.at \in GraphSteps \cup {"uploaded", "publish", "error"}
                /\ GoTo("killed")
                /\ UNCHANGED storeVars

PipelineStep == \/ Schedule \/ Ingest \/ Classify \/ Orchestrate
                \/ \E d \in Dept : Worker(d)
                \/ Synthesize \/ Publish
                \/ GraphFails \/ PublishFails \/ DiscardOnError

IntakeNext == Upload \/ Register \/ PipelineStep

IntakeSpec == IntakeInit /\ [][IntakeNext]_intakeVars

(* The server finishes the request it is in and runs the background task it  *)
(* scheduled; that a client uploads at all is not assumed.                  *)
FairIntakeSpec == IntakeSpec /\ WF_intakeVars(PipelineStep)

(***************************************************************************)
(* Properties.                                                             *)
(***************************************************************************)

(* The fan-in holds: a ticket announced to Sales as analysed has a section  *)
(* for every department the orchestrator sent a worker to, and for no other. *)
AnalysedIsComplete ==
    status = "analisis_completo" =>
        /\ intake.needed # {}
        /\ Active = intake.needed

(* A document the classifier rejected, or a pipeline that failed, is never  *)
(* turned into an analysed ticket by a later step of the pipeline.          *)
DiscardIsFinal == [][status = "descartado" => status' = "descartado"]_intakeVars

(* An uploaded ticket does not stay "analizando" while the server lives,    *)
(* whichever step of the pipeline raises.                                   *)
UploadSettles == (intake.at = "uploaded") ~>
                     (status \in {"analisis_completo", "descartado"})
=============================================================================

---------------------------- MODULE RfpApproval -----------------------------
(***************************************************************************)
(* Part 3 of the RFP workflow: opening the departmental approval gates and *)
(* recording the decisions of the people responsible (routes/rfp.py,       *)
(* rfp_intake/approval_flow.py), for one ticket.                           *)
(*                                                                         *)
(* Each request runs in a worker thread of its own, so any number of them  *)
(* are between two of their database calls at the same time.  A LangGraph  *)
(* thread "rfp-<ticket>:<department>" is the gate of one department; its   *)
(* checkpoint lives in a database of its own, outside every transaction.   *)
(***************************************************************************)
EXTENDS RfpStore, Naturals

CONSTANTS
    Openings,  \* slots for POST /approval/initiate requests in flight
    Reviews,   \* slots for POST /approval/{department_id} requests in flight
    Words      \* what a client may send as "action"

ASSUME ApprovalAssumption == /\ Dept # {}
                             /\ "approve" \in Words

VARIABLES
    gate,      \* gate[d]: the checkpoint of the thread of d
    opening,   \* opening[o]: the initiate request in slot o
    review     \* review[v]: the decision in slot v

approvalVars == <<storeVars, gate, opening, review>>

(* "idle": no thread, or one that ended; "changes": one that ended with      *)
(* changes_requested, the only ending a later call can tell from the others. *)
GateStates   == {"idle", "paused", "changes"}
OpeningSteps == {"idle", "mark", "gates"}
ReviewSteps  == {"idle", "establish", "resume", "record", "regenerate",
                 "check", "synthesize", "save", "close", "reopen"}

(* The idle record is arbitrary in the fields only a decision in flight has. *)
IdleOpening == [at |-> "idle", todo |-> {}]
IdleReview  == [at |-> "idle", dept |-> CHOOSE d \in Dept : TRUE,
                said |-> "approve", changes |-> FALSE, rows |-> NoDoc]

OpeningRecords == [at : OpeningSteps, todo : SUBSET Dept]
ReviewRecords  == [at : ReviewSteps, dept : Dept, said : Words,
                   changes : BOOLEAN, rows : Sections]

ApprovalTypeOK ==
    /\ StoreTypeOK
    /\ gate \in [Dept -> GateStates]
    /\ opening \in [Openings -> OpeningRecords]
    /\ review \in [Reviews -> ReviewRecords]

CallsInit == /\ gate = [d \in Dept |-> "idle"]
             /\ opening = [o \in Openings |-> IdleOpening]
             /\ review = [v \in Reviews |-> IdleReview]

(* A ticket as part 2 hands it over: every section has an evaluated draft.   *)
ApprovalInit ==
    /\ \E ds \in (SUBSET Dept) \ {{}} : \E failed \in SUBSET ds :
          /\ section = [d \in Dept |->
                IF d \notin ds THEN Absent
                ELSE [draft |-> "evaluated",
                      approval |-> IF d \in failed THEN "needs_human_review"
                                   ELSE "evaluated_pass"]]
          /\ status = IF failed = {} THEN "en_evaluacion"
                      ELSE "needs_human_review"
    /\ doc = NoDoc
    /\ CallsInit

(***************************************************************************)
(* Opening the gates.                                                      *)
(***************************************************************************)

(* The request reads the ticket with its sections, whatever its status is.   *)
RequestGates(o) == /\ opening[o].at = "idle"
                   /\ status # "no_ticket"
                   /\ opening' = [opening EXCEPT ![o] =
                                    [at |-> "mark", todo |-> Active]]
                   /\ UNCHANGED <<storeVars, gate, review>>

EndOpening(o) == opening' = [opening EXCEPT ![o] = IdleOpening]

MarkWaiting(o) ==
    /\ opening[o].at = "mark"
    /\ SetStatus("esperando_aprobacion")
    /\ IF opening[o].todo = {} THEN EndOpening(o)
       ELSE opening' = [opening EXCEPT ![o].at = "gates"]
    /\ UNCHANGED <<section, doc, gate, review>>

(* Runs the thread of d from its start up to interrupt(), also when it was   *)
(* paused or had ended; an exception is taken for the pause and swallowed.   *)
PauseThread(d) == \E reached \in {"paused", gate[d]} :
                      gate' = [gate EXCEPT ![d] = reached]

PauseGate(o) ==
    /\ opening[o].at = "gates"
    /\ \E d \in opening[o].todo :
          /\ PauseThread(d)
          /\ IF opening[o].todo = {d} THEN EndOpening(o)
             ELSE opening' = [opening EXCEPT ![o].todo = @ \ {d}]
    /\ UNCHANGED <<storeVars, review>>

(***************************************************************************)
(* One decision.                                                           *)
(***************************************************************************)
Actions == {"approve", "reject", "request_changes"}

(* The enum lookup of the route, and the status_map of the persistence.      *)
ActionOf(word) == IF word \in Actions THEN word ELSE "approve"
\* Faulty variant: the word of the request is stored as it is.
VerdictAsSent(word) == ActionOf(word)
VerdictOf(word) == CASE ActionOf(word) = "approve" -> "approved"
                     [] ActionOf(word) = "reject"  -> "rejected"
                     [] OTHER                      -> "changes_requested"
AsksChanges(word) == VerdictOf(word) = "changes_requested"

Advance(v, step) == review' = [review EXCEPT ![v].at = step]

(* The rest of the call no longer depends on the decision.                  *)
Forget(v, step) == review' = [review EXCEPT ![v] = [IdleReview EXCEPT !.at = step]]
EndReview(v)    == Forget(v, "idle")

(* The ticket exists; nothing asks for its status, nor whether d is one of   *)
(* its departments.  A gate that is not paused is opened first.             *)
Submit(v) ==
    /\ review[v].at = "idle"
    /\ status # "no_ticket"
    /\ \E d \in Dept, word \in Words :
          review' = [review EXCEPT ![v] =
                       [IdleReview EXCEPT
                          !.at = IF gate[d] = "paused" THEN "resume"
                                 ELSE "establish",
                          !.dept = d,
                          !.said = word]]
    /\ UNCHANGED <<storeVars, gate, opening>>

Establish(v) == /\ review[v].at = "establish"
                /\ PauseThread(review[v].dept)
                /\ Advance(v, "resume")
                /\ UNCHANGED <<storeVars, opening>>

(* Command(resume=...).  A thread that another decision has resumed since it *)
(* was looked at either runs again from the same checkpoint with this        *)
(* decision, or hands back the state the other one left.                     *)
Resume(v) ==
    LET d == review[v].dept IN
    /\ review[v].at = "resume"
    /\ \E asked \in {AsksChanges(review[v].said)} \cup
                    (IF gate[d] = "paused" THEN {} ELSE {gate[d] = "changes"}) :
          /\ gate' = [gate EXCEPT ![d] = IF asked THEN "changes" ELSE "idle"]
          /\ review' = [review EXCEPT ![v].at = "record", ![v].changes = asked]
    /\ UNCHANGED <<storeVars, opening>>

(* The row takes the decision of the request, not the state of the thread.   *)
Record(v) ==
    /\ review[v].at = "record"
    /\ RecordApproval(review[v].dept, VerdictOf(review[v].said))
    /\ IF review[v].changes THEN Advance(v, "regenerate") ELSE Forget(v, "check")
    /\ UNCHANGED <<status, doc, gate, opening>>

(* The draft is written anew while the iteration count is within the limit;  *)
(* the count is taken from the thread, which starts at 1 every time.         *)
ThreadIteration == 1
IterationLimit  == 3

Regenerate(v) ==
    /\ review[v].at = "regenerate"
    /\ ThreadIteration + 1 <= IterationLimit
    /\ WriteDraft(review[v].dept, "unevaluated", "pending")
    /\ Forget(v, "check")
    /\ UNCHANGED <<status, doc, gate, opening>>

\* Faulty variant: a decision leaves the closing to another in flight.
CheckUnlessBusy(v) ==
    /\ review[v].at = "check"
    /\ IF \E w \in Reviews \ {v} : review[w].at \in {"check", "reopen", "save"}
       THEN EndReview(v)
       ELSE Advance(v, IF AllApproved THEN "synthesize" ELSE "reopen")
    /\ UNCHANGED <<storeVars, gate, opening>>

Check(v) == /\ review[v].at = "check"
            /\ Advance(v, IF AllApproved THEN "synthesize" ELSE "reopen")
            /\ UNCHANGED <<storeVars, gate, opening>>

\* Faulty variant: a refusal does not take the status back.
ReopenForgotten(v) == /\ review[v].at = "reopen"
                      /\ EndReview(v)
                      /\ UNCHANGED <<storeVars, gate, opening>>

Reopen(v) == /\ review[v].at = "reopen"
             /\ SetStatus("esperando_aprobacion")
             /\ EndReview(v)
             /\ UNCHANGED <<section, doc, gate, opening>>

(* The document is made from the sections as they are when it is made.       *)
SynthesizeDocument(v) ==
    /\ review[v].at = "synthesize"
    /\ review' = [review EXCEPT ![v].at = "save", ![v].rows = section]
    /\ UNCHANGED <<storeVars, gate, opening>>

\* Faulty variant: the two commits of the save in the other order.
SaveStatusFirst(v) == /\ review[v].at = "save"
                      /\ SetStatus("terminado")
                      /\ Advance(v, "close")
                      /\ UNCHANGED <<section, doc, gate, opening>>

\* Faulty variant: only a ticket that is waiting gets its document.
SaveWhileWaiting(v) ==
    /\ review[v].at = "save"
    /\ IF status = "esperando_aprobacion"
       THEN SaveDocument(review[v].rows) /\ Forget(v, "close")
       ELSE UNCHANGED doc /\ EndReview(v)
    /\ UNCHANGED <<status, section, gate, opening>>

Save(v) == /\ review[v].at = "save"
           /\ SaveDocument(review[v].rows)
           /\ Forget(v, "close")
           /\ UNCHANGED <<status, section, gate, opening>>

Close(v) == /\ review[v].at = "close"
            /\ SetStatus("terminado")
            /\ EndReview(v)
            /\ UNCHANGED <<section, doc, gate, opening>>

(***************************************************************************)
(* Failures.                                                               *)
(***************************************************************************)

(* A call raises and answers 500, or its process dies: what it has committed *)
(* stays, the rest is never done.                                           *)
ReviewLost(v) == /\ review[v].at # "idle"
                 /\ EndReview(v)
                 /\ UNCHANGED <<storeVars, gate, opening>>

OpeningLost(o) == /\ opening[o].at # "idle"
                  /\ EndOpening(o)
                  /\ UNCHANGED <<storeVars, gate, review>>

NoCallInFlight == /\ \A o \in Openings : opening[o].at = "idle"
                  /\ \A v \in Reviews : review[v].at = "idle"

(* A restart after which the checkpoints are gone: they fall back to memory  *)
(* when no checkpoint file can be opened.                                   *)
GatesForgotten == /\ NoCallInFlight
                  /\ gate' = [d \in Dept |-> "idle"]
                  /\ UNCHANGED <<storeVars, opening, review>>

OpeningStep(o) == MarkWaiting(o) \/ PauseGate(o)
ReviewStep(v)  == \/ Establish(v) \/ Resume(v) \/ Record(v) \/ Regenerate(v)
                  \/ Check(v) \/ Reopen(v) \/ SynthesizeDocument(v) \/ Save(v)
                  \/ Close(v)

ApprovalNext == \/ \E o \in Openings : RequestGates(o) \/ OpeningStep(o)
                \/ \E v \in Reviews : Submit(v) \/ ReviewStep(v)

ApprovalFailure == \/ \E v \in Reviews : ReviewLost(v)
                   \/ \E o \in Openings : OpeningLost(o)
                   \/ GatesForgotten

ApprovalSpec == ApprovalInit /\ [][ApprovalNext]_approvalVars

(* A request that was accepted runs to its end; nobody need decide anything. *)
CallsEnd == /\ \A o \in Openings : WF_approvalVars(OpeningStep(o))
            /\ \A v \in Reviews : WF_approvalVars(ReviewStep(v))

LossyApprovalSpec ==
    ApprovalInit /\ [][ApprovalNext \/ ApprovalFailure]_approvalVars

(***************************************************************************)
(* Properties.                                                             *)
(***************************************************************************)

(* A finished ticket has a document to show, also after calls that died      *)
(* half-way and whatever decisions raced: "terminado" never comes first.     *)
TerminadoHasDocument == status = "terminado" => doc # NoDoc

(* No lost wake-up: when the last signature is in, some decision in flight   *)
(* is still bound to look at the sections, unless the document exists.  It   *)
(* would break if a decision looked before it recorded itself, or if two     *)
(* last decisions could each leave the document to the other.                *)
AllApprovedIsPublished ==
    AllApproved =>
        \/ doc # NoDoc
        \/ \E v \in Reviews :
              review[v].at \in {"regenerate", "check", "synthesize", "save"}

(* Its consequence in time: signatures that stay complete get a document.    *)
SignaturesGetDocument == AllApproved ~> (doc # NoDoc \/ ~AllApproved)

(* Every section of a document was approved when the document was made: the  *)
(* promise to the client's reader, and "Aprobado formalmente" in the text.   *)
(* It holds while decisions come one at a time.                             *)
DocumentFullySigned == \A d \in Dept : doc[d] # Absent =>
                                           doc[d].approval = "approved"

(* A ticket that rests in "terminado" is one everybody has approved: a later *)
(* refusal or change request takes the state back, and opening the gates     *)
(* again does too.  It holds while decisions come one at a time.            *)
TerminadoIsAllApproved ==
    NoCallInFlight /\ status = "terminado" => AllApproved

(* Decisions that come one at a time implement the abstract sign-off, though *)
(* each is seven or more steps that requests to open gates run between.     *)
SignOff == INSTANCE RfpSignOff
           WITH involved  <- Active,
                signed    <- {d \in Active : section[d].approval = "approved"},
                published <- {d \in Dept : doc[d] # Absent}

ImplementsSignOff == SignOff!Spec
=============================================================================

------------------------- MODULE RfpApprovalProofs --------------------------
(***************************************************************************)
(* Part 3 proved for any departments, any number of requests in flight and *)
(* any vocabulary of decisions.                                            *)
(***************************************************************************)
EXTENDS RfpApproval, TLAPS

(***************************************************************************)
(* The store.                                                              *)
(***************************************************************************)

(* The empty document has the type of a document.                           *)
LEMMA NoDocType == NoDoc \in Sections
  BY DEF NoDoc, Sections

(* Writing a draft keeps the type of the rows and the set of rows.          *)
LEMMA WriteDraftRows ==
  ASSUME StoreTypeOK, NEW d \in Dept, NEW kind \in DraftKind,
         NEW verdict \in ApprovalStatus, WriteDraft(d, kind, verdict)
  PROVE  section' \in Sections /\ Active' = Active
  BY DEF StoreTypeOK, Sections, SectionRow, Absent, WriteDraft, Active,
         ApprovalStatus, DraftKind

(* Recording a verdict keeps the type of the rows and the set of rows.      *)
LEMMA RecordApprovalRows ==
  ASSUME StoreTypeOK, NEW d \in Dept, NEW verdict \in ApprovalStatus,
         RecordApproval(d, verdict)
  PROVE  section' \in Sections /\ Active' = Active
  BY DEF StoreTypeOK, Sections, SectionRow, Absent, RecordApproval, Active,
         ApprovalStatus, DraftKind

(***************************************************************************)
(* Types.                                                                  *)
(***************************************************************************)
(* A slot at rest, or one that keeps nothing but its step, has its type.     *)
LEMMA IdleTypes ==
  /\ IdleOpening \in OpeningRecords
  /\ \A step \in ReviewSteps : [IdleReview EXCEPT !.at = step] \in ReviewRecords
  BY NoDocType, ApprovalAssumption
  DEF IdleOpening, OpeningRecords, OpeningSteps, IdleReview, ReviewRecords,
      ReviewSteps

(* A decision is recorded as one of the values of approval_status.          *)
LEMMA VerdictType == \A word \in Words : VerdictOf(word) \in ApprovalStatus
  BY DEF VerdictOf, ActionOf, Actions, ApprovalStatus

(* No call has begun.                                                       *)
LEMMA CallsInitType ==
  ASSUME CallsInit
  PROVE  /\ gate \in [Dept -> GateStates]
         /\ opening \in [Openings -> OpeningRecords]
         /\ review \in [Reviews -> ReviewRecords]
<1>1. IdleReview = [IdleReview EXCEPT !.at = "idle"]
  BY DEF IdleReview
<1>2. IdleReview \in ReviewRecords
  BY <1>1, IdleTypes DEF ReviewSteps
<1> QED
  BY <1>2, IdleTypes DEF CallsInit, GateStates

(* Every step of part 3, failures included, keeps the types.                *)
LEMMA ApprovalTypeStep ==
  ASSUME ApprovalTypeOK, [ApprovalNext \/ ApprovalFailure]_approvalVars
  PROVE  ApprovalTypeOK'
<1> USE DEF ApprovalTypeOK
<1>stay. ASSUME UNCHANGED storeVars PROVE StoreTypeOK'
  BY <1>stay DEF storeVars, StoreTypeOK, Sections
<1>mark. ASSUME NEW s \in Statuses, SetStatus(s), UNCHANGED <<section, doc>>
         PROVE  StoreTypeOK'
  BY <1>mark DEF StoreTypeOK, SetStatus, Sections
<1>slot. ASSUME NEW o \in Openings, EndOpening(o)
         PROVE  opening' \in [Openings -> OpeningRecords]
  BY <1>slot, IdleTypes DEF EndOpening
<1>pause. ASSUME NEW d \in Dept, PauseThread(d)
          PROVE  gate' \in [Dept -> GateStates]
  BY <1>pause DEF PauseThread, GateStates
<1>go. ASSUME NEW v \in Reviews, NEW step \in ReviewSteps, Advance(v, step)
       PROVE  review' \in [Reviews -> ReviewRecords]
  BY <1>go DEF Advance, ReviewRecords
<1>forget. ASSUME NEW v \in Reviews, NEW step \in ReviewSteps, Forget(v, step)
           PROVE  review' \in [Reviews -> ReviewRecords]
  BY <1>forget, IdleTypes DEF Forget
<1>end. ASSUME NEW v \in Reviews, EndReview(v)
        PROVE  review' \in [Reviews -> ReviewRecords]
  BY <1>end, <1>forget DEF EndReview, ReviewSteps
<1>request. ASSUME NEW o \in Openings, RequestGates(o) PROVE ApprovalTypeOK'
  <2>1. [at |-> "mark", todo |-> Active] \in OpeningRecords
    BY DEF OpeningRecords, OpeningSteps, Active
  <2> QED BY <1>request, <1>stay, <2>1 DEF RequestGates
<1>waiting. ASSUME NEW o \in Openings, MarkWaiting(o) PROVE ApprovalTypeOK'
  <2>1. StoreTypeOK'
    BY <1>waiting, <1>mark DEF MarkWaiting, Statuses
  <2>2. opening' \in [Openings -> OpeningRecords]
    BY <1>waiting, <1>slot DEF MarkWaiting, OpeningRecords, OpeningSteps
  <2> QED BY <1>waiting, <2>1, <2>2 DEF MarkWaiting
<1>gates. ASSUME NEW o \in Openings, PauseGate(o) PROVE ApprovalTypeOK'
  <2> PICK d \in opening[o].todo :
         /\ PauseThread(d)
         /\ IF opening[o].todo = {d} THEN EndOpening(o)
            ELSE opening' = [opening EXCEPT ![o].todo = @ \ {d}]
    BY <1>gates DEF PauseGate
  <2>1. d \in Dept
    BY DEF OpeningRecords
  <2>2. opening' \in [Openings -> OpeningRecords]
    BY <1>slot DEF OpeningRecords
  <2> QED BY <1>gates, <1>stay, <1>pause, <2>1, <2>2 DEF PauseGate
<1>submit. ASSUME NEW v \in Reviews, Submit(v) PROVE ApprovalTypeOK'
  <2>1. review' \in [Reviews -> ReviewRecords]
    <3> PICK d \in Dept, word \in Words :
           review' = [review EXCEPT ![v] =
                        [IdleReview EXCEPT
                           !.at = IF gate[d] = "paused" THEN "resume"
                                  ELSE "establish",
                           !.dept = d,
                           !.said = word]]
      BY <1>submit DEF Submit
    <3> QED BY NoDocType DEF IdleReview, ReviewRecords, ReviewSteps
  <2> QED BY <1>submit, <1>stay, <2>1 DEF Submit
<1>establish. ASSUME NEW v \in Reviews, Establish(v) PROVE ApprovalTypeOK'
  <2>1. review[v].dept \in Dept
    BY DEF ReviewRecords
  <2> QED BY <1>establish, <1>stay, <1>pause, <1>go, <2>1
          DEF Establish, ReviewSteps
<1>resume. ASSUME NEW v \in Reviews, Resume(v) PROVE ApprovalTypeOK'
  <2> PICK asked \in BOOLEAN :
         /\ gate' = [gate EXCEPT ![review[v].dept] =
                       IF asked THEN "changes" ELSE "idle"]
         /\ review' = [review EXCEPT ![v].at = "record", ![v].changes = asked]
    BY <1>resume DEF Resume, AsksChanges
  <2>1. [review[v] EXCEPT !.at = "record", !.changes = asked] \in ReviewRecords
    BY DEF ReviewRecords, ReviewSteps
  <2>2. gate' \in [Dept -> GateStates]
    BY DEF GateStates
  <2>3. review' = [review EXCEPT ![v] =
                     [review[v] EXCEPT !.at = "record", !.changes = asked]]
    OBVIOUS
  <2>4. review' \in [Reviews -> ReviewRecords]
    BY <2>1, <2>3
  <2> QED BY <1>resume, <1>stay, <2>2, <2>4 DEF Resume
<1>record. ASSUME NEW v \in Reviews, Record(v) PROVE ApprovalTypeOK'
  <2>1. /\ review[v].dept \in Dept
        /\ VerdictOf(review[v].said) \in ApprovalStatus
    BY VerdictType DEF ReviewRecords
  <2>2. StoreTypeOK'
    BY <1>record, <2>1, RecordApprovalRows DEF Record, StoreTypeOK, Sections
  <2>3. review' \in [Reviews -> ReviewRecords]
    BY <1>record, <1>go, <1>forget DEF Record, ReviewSteps
  <2> QED BY <1>record, <2>2, <2>3 DEF Record
<1>regenerate. ASSUME NEW v \in Reviews, Regenerate(v) PROVE ApprovalTypeOK'
  <2>1. review[v].dept \in Dept
    BY DEF ReviewRecords
  <2>2. StoreTypeOK'
    BY <1>regenerate, <2>1, WriteDraftRows
    DEF Regenerate, StoreTypeOK, Sections, DraftKind, ApprovalStatus
  <2> QED BY <1>regenerate, <1>forget, <2>2 DEF Regenerate, ReviewSteps
<1>check. ASSUME NEW v \in Reviews, Check(v) PROVE ApprovalTypeOK'
  BY <1>check, <1>stay, <1>go DEF Check, ReviewSteps
<1>reopen. ASSUME NEW v \in Reviews, Reopen(v) PROVE ApprovalTypeOK'
  BY <1>reopen, <1>mark, <1>end DEF Reopen, Statuses
<1>synthesize. ASSUME NEW v \in Reviews, SynthesizeDocument(v)
               PROVE  ApprovalTypeOK'
  <2>1. review' \in [Reviews -> ReviewRecords]
    BY <1>synthesize, ZenonT(60)
    DEF SynthesizeDocument, ReviewRecords, ReviewSteps, StoreTypeOK
  <2> QED BY <1>synthesize, <1>stay, <2>1 DEF SynthesizeDocument
<1>save. ASSUME NEW v \in Reviews, Save(v) PROVE ApprovalTypeOK'
  <2>1. StoreTypeOK'
    BY <1>save DEF Save, SaveDocument, StoreTypeOK, ReviewRecords, Sections
  <2> QED BY <1>save, <1>forget, <2>1 DEF Save, ReviewSteps
<1>close. ASSUME NEW v \in Reviews, Close(v) PROVE ApprovalTypeOK'
  BY <1>close, <1>mark, <1>end DEF Close, Statuses
<1>failure. CASE ApprovalFailure
  <2>1. ASSUME NEW v \in Reviews, ReviewLost(v) PROVE ApprovalTypeOK'
    BY <2>1, <1>stay, <1>end DEF ReviewLost
  <2>2. ASSUME NEW o \in Openings, OpeningLost(o) PROVE ApprovalTypeOK'
    BY <2>2, <1>stay, <1>slot DEF OpeningLost
  <2>3. ASSUME GatesForgotten PROVE ApprovalTypeOK'
    BY <2>3, <1>stay DEF GatesForgotten, GateStates
  <2> QED BY <1>failure, <2>1, <2>2, <2>3 DEF ApprovalFailure
<1>stutter. CASE UNCHANGED approvalVars
  BY <1>stutter, <1>stay DEF approvalVars
<1> QED
  BY <1>request, <1>waiting, <1>gates, <1>submit, <1>establish, <1>resume,
     <1>record, <1>regenerate, <1>check, <1>reopen, <1>synthesize, <1>save,
     <1>close, <1>failure, <1>stutter
  DEF ApprovalNext, OpeningStep, ReviewStep

(* The ticket part 2 hands over has its type.                               *)
LEMMA ApprovalTypeInit == ApprovalInit => ApprovalTypeOK
<1> SUFFICES ASSUME ApprovalInit PROVE ApprovalTypeOK
  OBVIOUS
<1>1. StoreTypeOK
  BY NoDocType DEF ApprovalInit, StoreTypeOK, Sections, SectionRow, Absent,
                   ApprovalStatus, DraftKind, Statuses
<1> QED BY <1>1, CallsInitType DEF ApprovalInit, ApprovalTypeOK

(* The type invariant of part 3, with calls that die half-way.              *)
THEOREM ApprovalTypeCorrect == LossyApprovalSpec => []ApprovalTypeOK
  BY ApprovalTypeInit, ApprovalTypeStep, PTL DEF LossyApprovalSpec

(***************************************************************************)
(* "terminado" never comes before the document.                            *)
(***************************************************************************)

(* What a decision that goes on to finish the ticket already knows.         *)
EndingIsSound(v) == /\ review[v].at = "synthesize" => Active # {}
                    /\ review[v].at = "save" => review[v].rows # NoDoc
                    /\ review[v].at = "close" => doc # NoDoc

DocumentFirst == /\ TerminadoHasDocument
                 /\ \A v \in Reviews : EndingIsSound(v)

(* Steps outside part 3 keep it if they neither drop a section nor finish   *)
(* the ticket, whatever else they do to its status.                         *)
LEMMA DocumentFirstFrame ==
  ASSUME DocumentFirst, UNCHANGED <<doc, review>>, Active \subseteq Active',
         status' = "terminado" => status = "terminado"
  PROVE  DocumentFirst'
<1>1. NoDoc' = NoDoc
  BY DEF NoDoc
<1> QED BY <1>1 DEF DocumentFirst, TerminadoHasDocument, EndingIsSound

(* A decision moves to a step before the ending, or out; the document and    *)
(* the sections, at most, get more.                                         *)
LEMMA DocumentFirstElsewhere ==
  ASSUME ApprovalTypeOK, DocumentFirst, NEW v \in Reviews,
         NEW record \in ReviewRecords,
         record.at \notin {"synthesize", "save", "close"},
         review' = [review EXCEPT ![v] = record],
         UNCHANGED doc, Active' = Active,
         status' = "terminado" => status = "terminado"
  PROVE  DocumentFirst'
<1>1. TerminadoHasDocument'
  BY DEF DocumentFirst, TerminadoHasDocument, NoDoc
<1>2. ASSUME NEW w \in Reviews PROVE EndingIsSound(w)'
  <2>1. review'[w] = IF w = v THEN record ELSE review[w]
    BY DEF ApprovalTypeOK
  <2> QED BY <2>1 DEF DocumentFirst, EndingIsSound, NoDoc
<1> QED BY <1>1, <1>2 DEF DocumentFirst

(* Every step of part 3, failures included, keeps it.                       *)
LEMMA DocumentFirstStep ==
  ASSUME ApprovalTypeOK, DocumentFirst,
         [ApprovalNext \/ ApprovalFailure]_approvalVars
  PROVE  DocumentFirst'
<1> USE DEF ApprovalTypeOK
<1>empty. NoDoc' = NoDoc
  BY DEF NoDoc
<1>rows. UNCHANGED section => Active' = Active
  BY DEF Active
<1>idle. /\ \A step \in ReviewSteps :
               [IdleReview EXCEPT !.at = step] \in ReviewRecords
         /\ \A step : [IdleReview EXCEPT !.at = step].at = step
  BY IdleTypes DEF IdleReview
<1>go. ASSUME NEW v \in Reviews,
              NEW step \in ReviewSteps \ {"synthesize", "save", "close"},
              Advance(v, step) \/ Forget(v, step),
              UNCHANGED doc, Active' = Active,
              status' = "terminado" => status = "terminado"
       PROVE  DocumentFirst'
  <2>1. CASE Advance(v, step)
    <3>1. /\ [review[v] EXCEPT !.at = step] \in ReviewRecords
          /\ [review[v] EXCEPT !.at = step].at = step
      BY DEF ReviewRecords
    <3>2. review' = [review EXCEPT ![v] = [review[v] EXCEPT !.at = step]]
      BY <2>1 DEF Advance
    <3> QED BY <1>go, <3>1, <3>2, DocumentFirstElsewhere
  <2>2. CASE Forget(v, step)
    BY <1>go, <1>idle, <2>2, DocumentFirstElsewhere DEF Forget
  <2> QED BY <1>go, <2>1, <2>2
<1>end. ASSUME NEW v \in Reviews, EndReview(v), UNCHANGED doc, Active' = Active,
               status' = "terminado" => status = "terminado"
        PROVE  DocumentFirst'
  BY <1>end, <1>go DEF EndReview, ReviewSteps
<1>opening. ASSUME UNCHANGED <<section, doc, review>>,
                   status' = "terminado" => status = "terminado"
            PROVE  DocumentFirst'
  BY <1>opening, <1>rows, DocumentFirstFrame
<1>1. ASSUME NEW o \in Openings, RequestGates(o) \/ OpeningStep(o)
      PROVE  DocumentFirst'
  BY <1>1, <1>opening
  DEF RequestGates, OpeningStep, MarkWaiting, PauseGate, SetStatus, storeVars
<1>2. ASSUME NEW v \in Reviews, Submit(v) PROVE DocumentFirst'
  <2> PICK d \in Dept, word \in Words :
         review' = [review EXCEPT ![v] =
                      [IdleReview EXCEPT
                         !.at = IF gate[d] = "paused" THEN "resume"
                                ELSE "establish",
                         !.dept = d,
                         !.said = word]]
    BY <1>2 DEF Submit
  <2> DEFINE record == [IdleReview EXCEPT
                          !.at = IF gate[d] = "paused" THEN "resume"
                                 ELSE "establish",
                          !.dept = d,
                          !.said = word]
  <2>1. record \in ReviewRecords /\ record.at \in {"resume", "establish"}
    BY NoDocType DEF IdleReview, ReviewRecords, ReviewSteps
  <2> QED BY <1>2, <1>rows, <2>1, DocumentFirstElsewhere DEF Submit, storeVars
<1>3. ASSUME NEW v \in Reviews, Establish(v) PROVE DocumentFirst'
  BY <1>3, <1>go, <1>rows DEF Establish, ReviewSteps, storeVars
<1>4. ASSUME NEW v \in Reviews, Resume(v) PROVE DocumentFirst'
  <2> PICK asked \in BOOLEAN :
         review' = [review EXCEPT ![v].at = "record", ![v].changes = asked]
    BY <1>4 DEF Resume, AsksChanges
  <2> DEFINE record == [review[v] EXCEPT !.at = "record", !.changes = asked]
  <2>1. record \in ReviewRecords /\ record.at = "record"
    BY DEF ReviewRecords, ReviewSteps
  <2>2. review' = [review EXCEPT ![v] = record]
    OBVIOUS
  <2> QED BY <1>4, <1>rows, <2>1, <2>2, DocumentFirstElsewhere
          DEF Resume, storeVars
<1>5. ASSUME NEW v \in Reviews, Record(v) PROVE DocumentFirst'
  <2>1. Active' = Active
    BY <1>5, RecordApprovalRows, VerdictType DEF Record, ReviewRecords
  <2> QED BY <1>5, <1>go, <2>1 DEF Record, ReviewSteps
<1>6. ASSUME NEW v \in Reviews, Regenerate(v) PROVE DocumentFirst'
  <2>1. Active' = Active
    BY <1>6, WriteDraftRows
    DEF Regenerate, ReviewRecords, DraftKind, ApprovalStatus
  <2> QED BY <1>6, <1>go, <2>1 DEF Regenerate, ReviewSteps
<1>7. ASSUME NEW v \in Reviews, Check(v) PROVE DocumentFirst'
  <2>1. CASE AllApproved
    <3>1. Advance(v, "synthesize") /\ UNCHANGED storeVars
      BY <1>7, <2>1 DEF Check
    <3>2. Active' # {}
      BY <2>1, <3>1, <1>rows DEF AllApproved, storeVars
    <3> QED BY <3>1, <3>2, <1>rows, <1>empty
            DEF Advance, storeVars, DocumentFirst, TerminadoHasDocument,
                EndingIsSound
  <2>2. CASE ~AllApproved
    BY <1>7, <2>2, <1>go, <1>rows DEF Check, ReviewSteps, storeVars
  <2> QED BY <2>1, <2>2
<1>8. ASSUME NEW v \in Reviews, Reopen(v) PROVE DocumentFirst'
  BY <1>8, <1>end, <1>rows DEF Reopen, SetStatus
<1>9. ASSUME NEW v \in Reviews, SynthesizeDocument(v) PROVE DocumentFirst'
  <2>1. section # NoDoc
    BY <1>9 DEF SynthesizeDocument, DocumentFirst, EndingIsSound, Active, NoDoc
  <2>2. ASSUME NEW w \in Reviews PROVE EndingIsSound(w)'
    <3>1. CASE w = v
      <4>1. review'[w].at = "save" /\ review'[w].rows = section
        BY <1>9, <3>1 DEF SynthesizeDocument, ReviewRecords
      <4> QED BY <2>1, <4>1, <1>empty DEF EndingIsSound
    <3>2. CASE w # v
      BY <1>9, <3>2, <1>rows, <1>empty
      DEF SynthesizeDocument, DocumentFirst, EndingIsSound, storeVars
    <3> QED BY <3>1, <3>2
  <2> QED BY <1>9, <2>2, <1>empty
          DEF SynthesizeDocument, storeVars, DocumentFirst, TerminadoHasDocument
<1>10. ASSUME NEW v \in Reviews, Save(v) PROVE DocumentFirst'
  <2>1. doc' # NoDoc'
    BY <1>10, <1>empty DEF Save, SaveDocument, DocumentFirst, EndingIsSound
  <2>2. ASSUME NEW w \in Reviews PROVE EndingIsSound(w)'
    <3>1. review'[w] = IF w = v THEN [IdleReview EXCEPT !.at = "close"]
                       ELSE review[w]
      BY <1>10 DEF Save, Forget
    <3>2. [IdleReview EXCEPT !.at = "close"].at = "close"
      BY <1>idle
    <3> QED BY <1>10, <1>rows, <1>empty, <2>1, <3>1, <3>2
            DEF Save, DocumentFirst, EndingIsSound
  <2> QED BY <2>1, <2>2 DEF DocumentFirst, TerminadoHasDocument
<1>11. ASSUME NEW v \in Reviews, Close(v) PROVE DocumentFirst'
  <2>1. doc' # NoDoc'
    BY <1>11, <1>empty DEF Close, DocumentFirst, EndingIsSound
  <2>2. ASSUME NEW w \in Reviews PROVE EndingIsSound(w)'
    <3>1. review'[w] = IF w = v THEN [IdleReview EXCEPT !.at = "idle"]
                       ELSE review[w]
      BY <1>11 DEF Close, EndReview, Forget
    <3>2. [IdleReview EXCEPT !.at = "idle"].at = "idle"
      BY <1>idle
    <3> QED BY <1>11, <1>rows, <1>empty, <3>1, <3>2
            DEF Close, DocumentFirst, EndingIsSound
  <2> QED BY <2>1, <2>2 DEF DocumentFirst, TerminadoHasDocument
<1>12. CASE ApprovalFailure
  <2>1. ASSUME NEW v \in Reviews, ReviewLost(v) PROVE DocumentFirst'
    BY <2>1, <1>end, <1>rows DEF ReviewLost, storeVars
  <2>2. ASSUME NEW o \in Openings, OpeningLost(o) PROVE DocumentFirst'
    BY <2>2, <1>opening DEF OpeningLost, storeVars
  <2>3. ASSUME GatesForgotten PROVE DocumentFirst'
    BY <2>3, <1>opening DEF GatesForgotten, storeVars
  <2> QED BY <1>12, <2>1, <2>2, <2>3 DEF ApprovalFailure
<1>13. CASE UNCHANGED approvalVars
  BY <1>13, <1>opening DEF approvalVars, storeVars
<1> QED
  BY <1>1, <1>2, <1>3, <1>4, <1>5, <1>6, <1>7, <1>8, <1>9, <1>10, <1>11,
     <1>12, <1>13
  DEF ApprovalNext, ReviewStep

(* No call has begun: nothing is finished.                                  *)
LEMMA DocumentFirstInit ==
  ASSUME CallsInit, status # "terminado"
  PROVE  DocumentFirst
  BY DEF CallsInit, IdleReview, DocumentFirst, TerminadoHasDocument,
         EndingIsSound

(* A finished ticket has a document, with calls that die half-way.          *)
THEOREM ApprovalTerminadoHasDocument ==
  LossyApprovalSpec => []TerminadoHasDocument
<1>1. ApprovalInit => DocumentFirst
  BY DocumentFirstInit DEF ApprovalInit
<1>2. DocumentFirst => TerminadoHasDocument
  BY DEF DocumentFirst
<1> QED BY <1>1, <1>2, ApprovalTypeInit, ApprovalTypeStep, DocumentFirstStep,
           PTL DEF LossyApprovalSpec

(***************************************************************************)
(* No lost wake-up: the last signature leads to the document.              *)
(***************************************************************************)
WillLook(v) == review[v].at \in {"regenerate", "check", "synthesize", "save"}

(* Steps outside part 3 keep it if they approve nothing.                    *)
LEMMA PublishedFrame ==
  ASSUME AllApprovedIsPublished, UNCHANGED <<doc, review>>,
         AllApproved' => AllApproved
  PROVE  AllApprovedIsPublished'
  BY DEF AllApprovedIsPublished, NoDoc

(* Every step of part 3 without failures keeps it.                          *)
LEMMA PublishedStep ==
  ASSUME ApprovalTypeOK, DocumentFirst, AllApprovedIsPublished,
         [ApprovalNext]_approvalVars
  PROVE  AllApprovedIsPublished'
<1> USE DEF ApprovalTypeOK
<1>same. ASSUME UNCHANGED section PROVE AllApproved' <=> AllApproved
  BY <1>same DEF AllApproved, Active
<1>at. \A step : [IdleReview EXCEPT !.at = step].at = step
  BY DEF IdleReview
<1>witness. ASSUME NEW v \in Reviews, WillLook(v)' PROVE AllApprovedIsPublished'
  BY <1>witness DEF AllApprovedIsPublished, WillLook
<1>others. ASSUME NEW v \in Reviews, ~WillLook(v), UNCHANGED <<section, doc>>,
                  \A w \in Reviews \ {v} : review'[w] = review[w]
           PROVE  AllApprovedIsPublished'
  BY <1>others, <1>same DEF AllApprovedIsPublished, WillLook, NoDoc
<1>1. ASSUME NEW o \in Openings, RequestGates(o) \/ OpeningStep(o)
      PROVE  AllApprovedIsPublished'
  BY <1>1, <1>same, PublishedFrame
  DEF RequestGates, OpeningStep, MarkWaiting, PauseGate, storeVars
<1>2. ASSUME NEW v \in Reviews,
             Submit(v) \/ Establish(v) \/ Resume(v) \/ Reopen(v) \/ Close(v)
      PROVE  AllApprovedIsPublished'
  <2>1. /\ ~WillLook(v)
        /\ UNCHANGED <<section, doc>>
        /\ \A w \in Reviews \ {v} : review'[w] = review[w]
    BY <1>2 DEF Submit, Establish, Resume, Reopen, Close, WillLook, storeVars,
                Advance, EndReview, Forget
  <2> QED BY <2>1, <1>others
<1>3. ASSUME NEW v \in Reviews, Record(v) PROVE AllApprovedIsPublished'
  <2>1. review'[v].at \in {"regenerate", "check"}
    BY <1>3, <1>at, ZenonT(60) DEF Record, Advance, Forget, ReviewRecords
  <2> QED BY <2>1, <1>witness DEF WillLook
<1>4. ASSUME NEW v \in Reviews, Regenerate(v) PROVE AllApprovedIsPublished'
  <2>1. review'[v].at = "check"
    BY <1>4, <1>at DEF Regenerate, Forget
  <2> QED BY <2>1, <1>witness DEF WillLook
<1>5. ASSUME NEW v \in Reviews, Check(v) PROVE AllApprovedIsPublished'
  <2>1. CASE AllApproved
    <3>1. review'[v].at = "synthesize"
      BY <1>5, <2>1 DEF Check, Advance, ReviewRecords
    <3> QED BY <3>1, <1>witness DEF WillLook
  <2>2. CASE ~AllApproved
    BY <1>5, <2>2, <1>same DEF Check, storeVars, AllApprovedIsPublished
  <2> QED BY <2>1, <2>2
<1>6. ASSUME NEW v \in Reviews, SynthesizeDocument(v)
      PROVE  AllApprovedIsPublished'
  <2>1. review'[v].at = "save"
    BY <1>6 DEF SynthesizeDocument, ReviewRecords
  <2> QED BY <2>1, <1>witness DEF WillLook
<1>7. ASSUME NEW v \in Reviews, Save(v) PROVE AllApprovedIsPublished'
  BY <1>7 DEF Save, SaveDocument, DocumentFirst, EndingIsSound,
              AllApprovedIsPublished, NoDoc
<1>8. CASE UNCHANGED approvalVars
  BY <1>8, <1>same, PublishedFrame DEF approvalVars, storeVars
<1> QED
  BY <1>1, <1>2, <1>3, <1>4, <1>5, <1>6, <1>7, <1>8
  DEF ApprovalNext, ReviewStep

(* Every section signed: the document exists or a decision will make it.    *)
THEOREM ApprovalAllApprovedIsPublished ==
  ApprovalSpec => []AllApprovedIsPublished
<1>1. ApprovalInit => DocumentFirst /\ AllApprovedIsPublished
  <2> SUFFICES ASSUME ApprovalInit
               PROVE  DocumentFirst /\ AllApprovedIsPublished
    OBVIOUS
  <2>1. ~AllApproved
    BY DEF ApprovalInit, AllApproved, Active, Absent
  <2> QED BY <2>1, DocumentFirstInit DEF ApprovalInit, AllApprovedIsPublished
<1>2. ApprovalTypeOK /\ [ApprovalNext]_approvalVars => ApprovalTypeOK'
  BY ApprovalTypeStep
<1>3. ApprovalTypeOK /\ DocumentFirst /\ [ApprovalNext]_approvalVars
      => DocumentFirst'
  BY DocumentFirstStep
<1> QED BY <1>1, <1>2, <1>3, ApprovalTypeInit, PublishedStep, PTL
        DEF ApprovalSpec

(***************************************************************************)
(* Decisions that come one at a time implement the abstract sign-off, for  *)
(* any departments and any number of requests to open gates in between.    *)
(***************************************************************************)
(* At most one decision is in flight.                                       *)
OneAtATime == \A v, w \in Reviews : v = w

(* What a decision has seen still holds: nothing else writes a section.      *)
StillHolds(v) ==
    /\ review[v].at \in {"synthesize", "save", "close"} => AllApproved
    /\ review[v].at = "save" => review[v].rows = section

SerialInv ==
    /\ \A v \in Reviews : StillHolds(v)
    /\ DocumentFullySigned
    /\ status = "terminado" =>
          \/ AllApproved
          \/ \E v \in Reviews : review[v].at \in {"regenerate", "check", "reopen"}

(* A step that leaves the sections, the document and every decision alone.   *)
LEMMA SerialFrame ==
  ASSUME SerialInv, UNCHANGED <<section, doc, review>>,
         status' = "terminado" => status = "terminado"
  PROVE  SerialInv'
<1>1. AllApproved' <=> AllApproved
  BY DEF AllApproved, Active
<1> QED BY <1>1 DEF SerialInv, StillHolds, DocumentFullySigned

(* A step of the only decision: what it must establish.                     *)
LEMMA SerialOnly ==
  ASSUME OneAtATime, NEW v \in Reviews, StillHolds(v)', DocumentFullySigned',
         status' = "terminado" =>
            \/ AllApproved'
            \/ review'[v].at \in {"regenerate", "check", "reopen"}
  PROVE  SerialInv'
  BY DEF OneAtATime, SerialInv

(* Every step of part 3 without failures keeps the serial invariant.        *)
LEMMA SerialStep ==
  ASSUME OneAtATime, ApprovalTypeOK, SerialInv, [ApprovalNext]_approvalVars
  PROVE  SerialInv'
<1> USE DEF ApprovalTypeOK
<1>same. ASSUME UNCHANGED section PROVE AllApproved' <=> AllApproved
  BY <1>same DEF AllApproved, Active
<1>doc. ASSUME UNCHANGED doc PROVE DocumentFullySigned'
  BY <1>doc DEF SerialInv, DocumentFullySigned
<1>at. \A step : [IdleReview EXCEPT !.at = step].at = step
  BY DEF IdleReview
<1>only. ASSUME NEW v \in Reviews, NEW u \in Reviews PROVE u = v
  BY DEF OneAtATime
<1>1. ASSUME NEW o \in Openings, RequestGates(o) \/ OpeningStep(o)
      PROVE  SerialInv'
  BY <1>1, SerialFrame
  DEF RequestGates, OpeningStep, MarkWaiting, PauseGate, SetStatus, storeVars
<1>2. ASSUME NEW v \in Reviews, Submit(v) \/ Establish(v) \/ Resume(v)
      PROVE  SerialInv'
  <2>1. /\ review[v].at \in {"idle", "establish", "resume"}
        /\ UNCHANGED <<status, section, doc>>
        /\ review'[v].at \in {"establish", "resume", "record"}
    <3>1. CASE Submit(v)
      BY <3>1 DEF Submit, storeVars, IdleReview
    <3>2. CASE Establish(v)
      BY <3>2 DEF Establish, storeVars, Advance, ReviewRecords
    <3>3. CASE Resume(v)
      BY <3>3 DEF Resume, storeVars, ReviewRecords
    <3> QED BY <1>2, <3>1, <3>2, <3>3
  <2>2. status = "terminado" => AllApproved
    BY <2>1, <1>only DEF SerialInv
  <2> QED BY <2>1, <2>2, <1>same, <1>doc, SerialOnly DEF StillHolds
<1>3. ASSUME NEW v \in Reviews, Record(v) PROVE SerialInv'
  <2>1. review'[v].at \in {"regenerate", "check"} /\ UNCHANGED doc
    BY <1>3, <1>at, ZenonT(60) DEF Record, Advance, Forget, ReviewRecords
  <2> QED BY <2>1, <1>doc, SerialOnly DEF StillHolds
<1>4. ASSUME NEW v \in Reviews, Regenerate(v) PROVE SerialInv'
  <2>1. review'[v].at = "check" /\ UNCHANGED doc
    BY <1>4, <1>at DEF Regenerate, Forget
  <2> QED BY <2>1, <1>doc, SerialOnly DEF StillHolds
<1>5. ASSUME NEW v \in Reviews, Check(v) PROVE SerialInv'
  <2>1. /\ review'[v].at = IF AllApproved THEN "synthesize" ELSE "reopen"
        /\ UNCHANGED <<section, doc>>
    BY <1>5 DEF Check, Advance, ReviewRecords, storeVars
  <2> QED BY <2>1, <1>same, <1>doc, SerialOnly DEF StillHolds
<1>6. ASSUME NEW v \in Reviews, Reopen(v) PROVE SerialInv'
  <2>1. review'[v].at = "idle" /\ UNCHANGED doc /\ status' # "terminado"
    BY <1>6, <1>at DEF Reopen, EndReview, Forget, SetStatus
  <2> QED BY <2>1, <1>doc, SerialOnly DEF StillHolds
<1>7. ASSUME NEW v \in Reviews, SynthesizeDocument(v) PROVE SerialInv'
  <2>1. /\ review'[v].at = "save" /\ review'[v].rows = section
        /\ UNCHANGED <<status, section, doc>>
        /\ AllApproved
    BY <1>7 DEF SynthesizeDocument, ReviewRecords, storeVars, SerialInv,
                StillHolds
  <2> QED BY <2>1, <1>same, <1>doc, SerialOnly DEF StillHolds
<1>8. ASSUME NEW v \in Reviews, Save(v) PROVE SerialInv'
  <2>1. /\ review'[v].at = "close"
        /\ doc' = section
        /\ UNCHANGED <<status, section>>
        /\ AllApproved
    BY <1>8, <1>at DEF Save, SaveDocument, Forget, SerialInv, StillHolds
  <2>2. DocumentFullySigned'
    BY <2>1 DEF DocumentFullySigned, AllApproved, Active
  <2> QED BY <2>1, <2>2, <1>same, SerialOnly DEF StillHolds
<1>9. ASSUME NEW v \in Reviews, Close(v) PROVE SerialInv'
  <2>1. /\ review'[v].at = "idle"
        /\ UNCHANGED <<section, doc>>
        /\ AllApproved
    BY <1>9, <1>at DEF Close, EndReview, Forget, SerialInv, StillHolds
  <2> QED BY <2>1, <1>same, <1>doc, SerialOnly DEF StillHolds
<1>10. CASE UNCHANGED approvalVars
  BY <1>10, SerialFrame DEF approvalVars, storeVars
<1> QED
  BY <1>1, <1>2, <1>3, <1>4, <1>5, <1>6, <1>7, <1>8, <1>9, <1>10
  DEF ApprovalNext, ReviewStep

(* A ticket as part 2 hands it over has no document and is not finished.    *)
LEMMA SerialInit == ApprovalInit => SerialInv
  BY DEF ApprovalInit, CallsInit, IdleReview, SerialInv, StillHolds,
         DocumentFullySigned, NoDoc

(* The types and the serial invariant, of every behaviour.                  *)
LEMMA SerialCorrect ==
  ASSUME OneAtATime
  PROVE  ApprovalSpec => [](ApprovalTypeOK /\ SerialInv)
<1>1. ApprovalTypeOK /\ [ApprovalNext]_approvalVars => ApprovalTypeOK'
  BY ApprovalTypeStep
<1>2. ApprovalTypeOK /\ SerialInv /\ [ApprovalNext]_approvalVars => SerialInv'
  BY SerialStep
<1> QED BY <1>1, <1>2, ApprovalTypeInit, SerialInit, PTL DEF ApprovalSpec

(* Every section of a document was approved when the document was made.     *)
THEOREM SerialDocumentSigned ==
  ASSUME OneAtATime
  PROVE  ApprovalSpec => []DocumentFullySigned
<1>1. SerialInv => DocumentFullySigned
  BY DEF SerialInv
<1> QED BY <1>1, SerialCorrect, PTL

(* A ticket that rests in "terminado" is one everybody has approved.        *)
THEOREM SerialTerminadoApproved ==
  ASSUME OneAtATime
  PROVE  ApprovalSpec => []TerminadoIsAllApproved
<1>1. SerialInv => TerminadoIsAllApproved
  BY DEF SerialInv, TerminadoIsAllApproved, NoCallInFlight
<1> QED BY <1>1, SerialCorrect, PTL

(***************************************************************************)
(* The refinement.                                                         *)
(***************************************************************************)
Signed    == {d \in Active : section[d].approval = "approved"}
Published == {d \in Dept : doc[d] # Absent}

(* No signature and no document yet.                                        *)
LEMMA SignOffInit == ApprovalInit => SignOff!Init
<1> SUFFICES ASSUME ApprovalInit PROVE SignOff!Init
  OBVIOUS
<1>1. PICK ds \in (SUBSET Dept) \ {{}} : \E failed \in SUBSET ds :
         section = [d \in Dept |->
            IF d \notin ds THEN Absent
            ELSE [draft |-> "evaluated",
                  approval |-> IF d \in failed THEN "needs_human_review"
                               ELSE "evaluated_pass"]]
  BY DEF ApprovalInit
<1>2. Active = ds /\ Signed = {}
  BY <1>1 DEF Active, Signed, Absent
<1>3. Published = {}
  BY DEF ApprovalInit, Published, NoDoc
<1> QED BY <1>2, <1>3 DEF SignOff!Init, Signed, Published

(* Recording a decision signs, withdraws, or touches nothing.               *)
LEMMA DecisionMaps ==
  ASSUME StoreTypeOK, NEW d \in Dept, UNCHANGED doc,
         \/ \E verdict \in ApprovalStatus : RecordApproval(d, verdict)
         \/ WriteDraft(d, "unevaluated", "pending")
  PROVE  SignOff!Sign(d) \/ SignOff!Withdraw(d) \/ UNCHANGED <<section, doc>>
<1>1. Active' = Active /\ UNCHANGED Published
  BY RecordApprovalRows, WriteDraftRows
  DEF DraftKind, ApprovalStatus, Published
<1>2. CASE d \notin Active
  BY <1>2 DEF RecordApproval, WriteDraft, Active, StoreTypeOK, Sections
<1>3. CASE d \in Active
  <2>1. \A e \in Dept \ {d} : section'[e] = section[e]
    BY DEF RecordApproval, WriteDraft, StoreTypeOK, Sections
  <2>2. CASE section'[d].approval = "approved"
    <3>1. Signed' = Signed \cup {d}
      BY <1>1, <1>3, <2>1, <2>2 DEF Signed, Active
    <3> QED BY <1>1, <1>3, <3>1 DEF SignOff!Sign, Signed, Published
  <2>3. CASE section'[d].approval # "approved"
    <3>1. Signed' = Signed \ {d}
      BY <1>1, <1>3, <2>1, <2>3 DEF Signed, Active
    <3> QED BY <1>1, <3>1 DEF SignOff!Withdraw, Signed, Published
  <2> QED BY <2>2, <2>3
<1> QED BY <1>2, <1>3

(* Every step is a step of the abstract sign-off, or invisible to it.       *)
LEMMA SignOffStep ==
  ASSUME OneAtATime, ApprovalTypeOK, SerialInv, [ApprovalNext]_approvalVars
  PROVE  [SignOff!Next]_(SignOff!signOffVars)
<1> USE DEF ApprovalTypeOK
<1>stutter. ASSUME UNCHANGED <<section, doc>>
            PROVE  UNCHANGED SignOff!signOffVars
  BY <1>stutter DEF SignOff!signOffVars, Active
<1>decision. ASSUME NEW d \in Dept,
                    SignOff!Sign(d) \/ SignOff!Withdraw(d)
                    \/ UNCHANGED <<section, doc>>
             PROVE  [SignOff!Next]_(SignOff!signOffVars)
  BY <1>decision, <1>stutter DEF SignOff!Next
<1>1. ASSUME NEW o \in Openings, RequestGates(o) \/ OpeningStep(o)
      PROVE  UNCHANGED SignOff!signOffVars
  BY <1>1, <1>stutter
  DEF RequestGates, OpeningStep, MarkWaiting, PauseGate, storeVars
<1>2. ASSUME NEW v \in Reviews,
             \/ Submit(v) \/ Establish(v) \/ Resume(v) \/ Check(v) \/ Reopen(v)
             \/ SynthesizeDocument(v) \/ Close(v)
      PROVE  UNCHANGED SignOff!signOffVars
  BY <1>2, <1>stutter
  DEF Submit, Establish, Resume, Check, Reopen, SynthesizeDocument, Close,
      storeVars
<1>3. ASSUME NEW v \in Reviews, Record(v)
      PROVE  [SignOff!Next]_(SignOff!signOffVars)
  <2>1. /\ review[v].dept \in Dept
        /\ VerdictOf(review[v].said) \in ApprovalStatus
    BY VerdictType DEF ReviewRecords
  <2> QED BY <1>3, <2>1, DecisionMaps, <1>decision DEF Record
<1>4. ASSUME NEW v \in Reviews, Regenerate(v)
      PROVE  [SignOff!Next]_(SignOff!signOffVars)
  <2>1. review[v].dept \in Dept
    BY DEF ReviewRecords
  <2> QED BY <1>4, <2>1, DecisionMaps, <1>decision DEF Regenerate
<1>5. ASSUME NEW v \in Reviews, Save(v) PROVE SignOff!Publish
  <2>1. doc' = section /\ UNCHANGED section /\ AllApproved
    BY <1>5 DEF Save, SaveDocument, SerialInv, StillHolds
  <2>2. Signed = Active /\ Published' = Active /\ UNCHANGED <<Active, Signed>>
    BY <2>1 DEF AllApproved, Signed, Published, Active
  <2> QED BY <2>2 DEF SignOff!Publish, Signed, Published
<1>6. CASE UNCHANGED approvalVars
  BY <1>6, <1>stutter DEF approvalVars, storeVars
<1> QED
  BY <1>1, <1>2, <1>3, <1>4, <1>5, <1>6
  DEF ApprovalNext, ReviewStep, SignOff!Next

(* Decisions that come one at a time implement the abstract sign-off.       *)
THEOREM SerialImplementsSignOff ==
  ASSUME OneAtATime
  PROVE  ApprovalSpec => ImplementsSignOff
<1>1. ApprovalTypeOK /\ SerialInv /\ [ApprovalNext]_approvalVars
      => [SignOff!Next]_(SignOff!signOffVars)
  BY SignOffStep
<1> QED BY <1>1, SignOffInit, SerialCorrect, PTL
        DEF ApprovalSpec, ImplementsSignOff, SignOff!Spec
=============================================================================

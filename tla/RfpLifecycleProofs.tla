------------------------- MODULE RfpLifecycleProofs -------------------------
(***************************************************************************)
(* The whole workflow proved for any departments, any number of requests   *)
(* of each kind in flight, and any limit on the attempts per section.      *)
(***************************************************************************)
EXTENDS RfpLifecycle, RfpApprovalProofs

(***************************************************************************)
(* Parts 1 and 2: what their steps do to the store.                        *)
(***************************************************************************)

(* What part 3 needs of a step of another part: it keeps the sections, the   *)
(* document and the finished tickets as they are, and approves nothing.      *)
Harmless == /\ UNCHANGED doc
            /\ Active \subseteq Active'
            /\ status' = "terminado" => status = "terminado"
            /\ AllApproved' => AllApproved

(* A step that leaves the sections alone and does not finish the ticket.     *)
LEMMA StatusIsHarmless ==
  ASSUME UNCHANGED <<section, doc>>,
         status' = "terminado" => status = "terminado"
  PROVE  Harmless
  BY DEF Harmless, Active, AllApproved

(* A worker of part 1 adds a section nobody has approved, or nothing.        *)
LEMMA UpsertIsHarmless ==
  ASSUME StoreTypeOK, NEW d \in Dept, UpsertSection(d), UNCHANGED <<status, doc>>
  PROVE  Harmless /\ section' \in Sections
<1>1. section' \in Sections
  BY DEF StoreTypeOK, Sections, SectionRow, UpsertSection, FreshRow, Absent,
         DraftKind, ApprovalStatus
<1>2. \A e \in Dept : section'[e] = IF e = d /\ section[d] = Absent
                                    THEN FreshRow ELSE section[e]
  BY DEF UpsertSection, StoreTypeOK, Sections
<1>3. FreshRow # Absent /\ FreshRow.approval # "approved"
  BY DEF FreshRow, Absent
<1>4. Active \subseteq Active'
  BY <1>2, <1>3 DEF Active
<1>5. ASSUME AllApproved' PROVE AllApproved
  <2>1. section[d] # Absent
    BY <1>2, <1>3, <1>5 DEF AllApproved, Active
  <2>2. \A e \in Dept : section'[e] = section[e]
    BY <1>2, <2>1
  <2> QED BY <1>5, <2>2 DEF AllApproved, Active
<1> QED BY <1>1, <1>4, <1>5 DEF Harmless

(* The loop of part 2 overwrites a section it does not approve.             *)
LEMMA DraftIsHarmless ==
  ASSUME StoreTypeOK, NEW d \in Dept,
         NEW verdict \in {"evaluated_pass", "needs_human_review"},
         WriteDraft(d, "evaluated", verdict), UNCHANGED <<status, doc>>
  PROVE  Harmless /\ section' \in Sections
<1>1. section' \in Sections /\ Active' = Active
  BY WriteDraftRows DEF DraftKind, ApprovalStatus
<1>2. \A e \in Dept :
         section'[e] = IF e = d /\ section[d] # Absent
                       THEN [draft |-> "evaluated", approval |-> verdict]
                       ELSE section[e]
  BY DEF WriteDraft, StoreTypeOK, Sections
<1>3. ASSUME AllApproved' PROVE AllApproved
  <2>1. section[d] = Absent
    BY <1>1, <1>2, <1>3 DEF AllApproved, Active
  <2>2. \A e \in Dept : section'[e] = section[e]
    BY <1>2, <2>1
  <2> QED BY <1>3, <2>2 DEF AllApproved, Active
<1> QED BY <1>1, <1>3 DEF Harmless

(***************************************************************************)
(* Part 1.                                                                 *)
(***************************************************************************)

(* Every step of the pipeline keeps its types and is harmless to part 3.     *)
LEMMA IntakeStep ==
  ASSUME IntakeTypeOK, IntakeNext \/ IntakeKilled
  PROVE  IntakeTypeOK' /\ Harmless
<1> USE DEF IntakeTypeOK
<1>go. ASSUME NEW step \in IntakeSteps, GoTo(step)
       PROVE  intake' \in [at : IntakeSteps, needed : SUBSET Dept,
                           todo : SUBSET Dept]
  BY <1>go DEF GoTo
<1>stay. ASSUME UNCHANGED storeVars PROVE StoreTypeOK' /\ Harmless
  BY <1>stay, StatusIsHarmless DEF storeVars, StoreTypeOK, Sections
<1>mark. ASSUME NEW s \in Statuses \ {"terminado"}, status' = s,
                UNCHANGED <<section, doc>>
         PROVE  StoreTypeOK' /\ Harmless
  BY <1>mark, StatusIsHarmless DEF StoreTypeOK, Sections
<1>1. CASE Upload
  BY <1>1, <1>mark, <1>go DEF Upload, CreateTicket, IntakeSteps, Statuses
<1>2. CASE Register
  BY <1>2, <1>mark, <1>go DEF Register, CreateTicket, IntakeSteps, Statuses
<1>3. CASE Schedule \/ Publish \/ PublishFails \/ IntakeKilled
  BY <1>3, <1>stay, <1>go
  DEF Schedule, Publish, PublishFails, IntakeKilled, IntakeSteps, GraphSteps
<1>8. CASE Ingest
  <2> PICK mentioned \in SUBSET Dept, declined \in SUBSET Dept :
         intake' = [intake EXCEPT
                       !.at     = "classify",
                       !.needed = DepartmentsAsked(mentioned, declined)]
    BY <1>8 DEF Ingest
  <2>1. DepartmentsAsked(mentioned, declined) \in SUBSET Dept
    BY DEF DepartmentsAsked
  <2> QED BY <1>8, <2>1, <1>stay DEF Ingest, IntakeSteps, GraphSteps
<1>4. CASE Classify
  <2> PICK tooShort \in BOOLEAN, isPitch \in BOOLEAN :
         LET isValid == IsClientRfp(tooShort, isPitch) IN
         /\ intake' = [intake EXCEPT !.at = RouteAfterClassifier(isValid),
                                     !.needed = IF isValid THEN @ ELSE {}]
         /\ IF isValid THEN UNCHANGED status ELSE SetStatus("descartado")
    BY <1>4 DEF Classify
  <2>1. \A isValid \in BOOLEAN : RouteAfterClassifier(isValid) \in IntakeSteps
    BY DEF RouteAfterClassifier, IntakeSteps, GraphSteps
  <2>2. StoreTypeOK' /\ Harmless
    BY <1>4, <1>stay, <1>mark DEF Classify, SetStatus, Statuses, storeVars
  <2>3. IsClientRfp(tooShort, isPitch) \in BOOLEAN
    BY DEF IsClientRfp
  <2> QED BY <2>1, <2>2, <2>3
<1>5. CASE Orchestrate
  BY <1>5, <1>stay DEF Orchestrate, IntakeSteps, GraphSteps
<1>6. ASSUME NEW d \in Dept, Worker(d) PROVE IntakeTypeOK' /\ Harmless
  <2>1. StoreTypeOK' /\ Harmless
    BY <1>6, UpsertIsHarmless DEF Worker, StoreTypeOK, Sections
  <2> QED BY <1>6, <2>1 DEF Worker, DeliverOutput
<1>7. CASE Synthesize \/ GraphFails \/ DiscardOnError
  BY <1>7, <1>mark, <1>go
  DEF Synthesize, GraphFails, DiscardOnError, SetStatus, IntakeSteps, Statuses
<1> QED
  BY <1>1, <1>2, <1>3, <1>4, <1>5, <1>6, <1>7, <1>8 DEF IntakeNext, PipelineStep

(***************************************************************************)
(* Part 2.                                                                 *)
(***************************************************************************)

(* Why the attempts stay within their limit: the count starts at 0 and a     *)
(* draft is written only below the limit.                                   *)
AttemptsBounded(r) ==
    /\ run[r].at \in {"idle", "accepted", "queued", "begin"} =>
          run[r].iteration = 0
    /\ run[r].at = "draft" => run[r].iteration < MaxIterations
    /\ run[r].at = "evaluated" => run[r].todo # {}

GenerationInv == /\ GenerationTypeOK
                 /\ \A r \in Runs : AttemptsBounded(r)

(* The run of one slot becomes this record.                                 *)
LEMMA RunBecomes ==
  ASSUME GenerationInv, NEW r \in Runs, NEW record \in RunRecords,
         run' = [run EXCEPT ![r] = record],
         record.at \in {"idle", "accepted", "queued", "begin"} =>
            record.iteration = 0,
         record.at = "draft" => record.iteration < MaxIterations,
         record.at = "evaluated" => record.todo # {},
         StoreTypeOK'
  PROVE  GenerationInv'
  BY DEF GenerationInv, GenerationTypeOK, AttemptsBounded

(* Every step of the loop keeps its invariant and is harmless to part 3.     *)
LEMMA GenerationStep ==
  ASSUME GenerationInv, NEW r \in Runs,
         RequestGeneration(r) \/ LoopStep(r) \/ RunKilled(r)
  PROVE  GenerationInv' /\ Harmless
<1> DEFINE old == run[r]
<1>a. /\ StoreTypeOK
      /\ old \in RunRecords
      /\ AttemptsBounded(r)
      /\ MaxIterations \in Nat \ {0}
      /\ run \in [Runs -> RunRecords]
  BY GenerationAssumption DEF GenerationInv, GenerationTypeOK
<1>stay. ASSUME UNCHANGED storeVars PROVE StoreTypeOK' /\ Harmless
  BY <1>stay, <1>a, StatusIsHarmless DEF storeVars, StoreTypeOK, Sections
<1>mark. ASSUME NEW s \in Statuses \ {"terminado"}, SetStatus(s),
                UNCHANGED <<section, doc>>
         PROVE  StoreTypeOK' /\ Harmless
  BY <1>mark, <1>a, StatusIsHarmless DEF StoreTypeOK, SetStatus, Sections
<1>end. ASSUME EndRun(r), StoreTypeOK' PROVE GenerationInv'
  <2>1. IdleRun \in RunRecords /\ IdleRun.at = "idle" /\ IdleRun.iteration = 0
    BY <1>a DEF IdleRun, RunRecords, RunSteps
  <2> QED BY <1>end, <2>1, RunBecomes DEF EndRun
<1>move. ASSUME NEW step \in RunSteps, Move(r, step), StoreTypeOK',
                step \in {"accepted", "queued", "begin"} => old.iteration = 0,
                step = "draft" => old.iteration < MaxIterations,
                step \notin {"idle", "evaluated"}
         PROVE  GenerationInv'
  <2> DEFINE record == [old EXCEPT !.at = step]
  <2>1. /\ record \in RunRecords /\ record.at = step
        /\ record.iteration = old.iteration
    BY <1>a DEF RunRecords
  <2>2. run' = [run EXCEPT ![r] = record]
    BY <1>move DEF Move
  <2> HIDE DEF record, old
  <2> QED BY <1>move, <2>1, <2>2, RunBecomes
<1>1. CASE RequestGeneration(r)
  BY <1>1, <1>stay, <1>move, <1>a
  DEF RequestGeneration, RunSteps, AttemptsBounded
<1>2. CASE AcceptGeneration(r)
  BY <1>2, <1>mark, <1>move, <1>a
  DEF AcceptGeneration, RunSteps, LoopSteps, AttemptsBounded, Statuses
<1>3. CASE LoadTicket(r)
  <2> DEFINE step == IF status \in Generable THEN "begin" ELSE "failing"
             record == [old EXCEPT !.at = step, !.todo = Active]
  <2>1. run' = [run EXCEPT ![r] = record]
    BY <1>3 DEF LoadTicket
  <2>2. /\ record \in RunRecords /\ record.at \in {"begin", "failing"}
        /\ record.iteration = 0
    BY <1>3, <1>a
    DEF LoadTicket, RunRecords, RunSteps, LoopSteps, AttemptsBounded, Active
  <2> QED BY <1>3, <1>stay, <2>1, <2>2, RunBecomes DEF LoadTicket
<1>4. CASE BeginDrafting(r)
  <2>1. CASE run[r].todo = {}
    BY <1>4, <2>1, <1>mark, <1>end DEF BeginDrafting, Statuses
  <2>2. CASE run[r].todo # {}
    BY <1>4, <2>2, <1>mark, <1>move, <1>a
    DEF BeginDrafting, Statuses, RunSteps, LoopSteps, AttemptsBounded
  <2> QED BY <2>1, <2>2
<1>5. CASE Evaluate(r)
  <2> DEFINE record == [old EXCEPT !.at = "evaluated",
                                   !.iteration = old.iteration + 1]
  <2>1. run' = [run EXCEPT ![r] = record]
    BY <1>5 DEF Evaluate
  <2>2. /\ record \in RunRecords /\ record.at = "evaluated"
        /\ record.todo # {}
    BY <1>5, <1>a DEF Evaluate, RunRecords, RunSteps, LoopSteps, AttemptsBounded
  <2> QED BY <1>5, <1>mark, <2>1, <2>2, RunBecomes DEF Evaluate, Statuses
<1>6. CASE Retry(r)
  BY <1>6, <1>stay, <1>move DEF Retry, RunSteps, LoopSteps
<1>7. CASE KeepDraft(r)
  <2> DEFINE rest   == old.todo \ {Current(r)}
             failed == old.anyFailed \/ ~Passes(r)
             record == [at |-> "draft", todo |-> rest, iteration |-> 0,
                        anyFailed |-> failed]
  <2>1. Current(r) \in Dept
    BY <1>7, <1>a DEF KeepDraft, AttemptsBounded, Current, RunRecords
  <2>2. StoreTypeOK' /\ Harmless
    BY <1>7, <1>a, <2>1, DraftIsHarmless DEF KeepDraft, StoreTypeOK, Sections
  <2>3. run' = [run EXCEPT ![r] = record]
    BY <1>7 DEF KeepDraft
  <2>4. failed \in BOOLEAN /\ rest \in SUBSET Dept
    BY <1>a DEF RunRecords
  <2>5. ASSUME NEW b \in BOOLEAN, NEW t \in SUBSET Dept
        PROVE  [at |-> "draft", todo |-> t, iteration |-> 0, anyFailed |-> b]
               \in {new \in RunRecords : /\ new.at = "draft"
                                         /\ new.iteration < MaxIterations}
    BY <1>a DEF RunRecords, RunSteps, LoopSteps
  <2>6. record \in {new \in RunRecords : /\ new.at = "draft"
                                         /\ new.iteration < MaxIterations}
    <3> HIDE DEF failed, rest
    <3> QED BY <2>4, <2>5, Zenon
  <2> HIDE DEF record
  <2> QED BY <2>2, <2>3, <2>6, RunBecomes
<1>8. CASE FinishGeneration(r)
  BY <1>8, <1>mark, <1>end DEF FinishGeneration, Statuses
<1>9. CASE LoopRaises(r)
  BY <1>9, <1>stay, <1>move DEF LoopRaises, RunSteps
<1>10. CASE HandleLoopError(r)
  BY <1>10, <1>mark, <1>end DEF HandleLoopError, Statuses
<1>11. CASE RunKilled(r)
  BY <1>11, <1>stay, <1>end DEF RunKilled
<1> QED
  BY <1>1, <1>2, <1>3, <1>4, <1>5, <1>6, <1>7, <1>8, <1>9, <1>10, <1>11
  DEF LoopStep

(***************************************************************************)
(* The whole.                                                              *)
(***************************************************************************)
LifecycleInv == IntakeTypeOK /\ GenerationInv /\ ApprovalTypeOK /\ DocumentFirst

(* A ticket that does not exist yet, with nothing in flight.                *)
LEMMA LifecycleInvInit ==
  LifecycleInit => LifecycleInv /\ AllApprovedIsPublished
<1> SUFFICES ASSUME LifecycleInit
             PROVE  LifecycleInv /\ AllApprovedIsPublished
  OBVIOUS
<1>1. StoreTypeOK /\ IntakeTypeOK
  BY NoDocType DEF LifecycleInit, IntakeInit, StoreInit, StoreTypeOK,
                   IntakeTypeOK, IntakeSteps, GraphSteps
<1>2. IdleRun \in RunRecords /\ IdleRun.at = "idle" /\ IdleRun.iteration = 0
  BY GenerationAssumption DEF IdleRun, RunRecords, RunSteps
<1>3. GenerationInv
  BY <1>1, <1>2 DEF LifecycleInit, GenerationInv, GenerationTypeOK,
                    AttemptsBounded
<1>4. ApprovalTypeOK
  BY <1>1, CallsInitType DEF LifecycleInit, ApprovalTypeOK
<1>5. DocumentFirst
  BY DocumentFirstInit DEF LifecycleInit, IntakeInit, StoreInit
<1>6. ~AllApproved
  BY DEF LifecycleInit, IntakeInit, StoreInit, AllApproved, Active, NoDoc
<1> QED BY <1>1, <1>3, <1>4, <1>5, <1>6
        DEF LifecycleInv, AllApprovedIsPublished

(* The steps of one part keep the invariants of the others: they meet only   *)
(* in the store.                                                            *)
LEMMA IntakeKeepsOthers ==
  ASSUME LifecycleInv, IntakeNext \/ IntakeKilled,
         UNCHANGED <<run, gate, opening, review>>
  PROVE  LifecycleInv' /\ Harmless
<1>1. IntakeTypeOK' /\ Harmless
  BY IntakeStep DEF LifecycleInv
<1>2. GenerationInv' /\ ApprovalTypeOK'
  BY <1>1 DEF LifecycleInv, IntakeTypeOK, GenerationInv, GenerationTypeOK,
              AttemptsBounded, ApprovalTypeOK, ReviewRecords, Sections
<1>3. DocumentFirst'
  BY <1>1, DocumentFirstFrame DEF LifecycleInv, Harmless
<1> QED BY <1>1, <1>2, <1>3 DEF LifecycleInv

(* The same of a step of part 2.                                            *)
LEMMA GenerationKeepsOthers ==
  ASSUME LifecycleInv, GenerationNext \/ \E r \in Runs : RunKilled(r),
         UNCHANGED <<intake, gate, opening, review>>
  PROVE  LifecycleInv' /\ Harmless
<1>1. GenerationInv' /\ Harmless
  BY GenerationStep DEF LifecycleInv, GenerationNext
<1>2. IntakeTypeOK' /\ ApprovalTypeOK'
  BY <1>1 DEF LifecycleInv, IntakeTypeOK, GenerationInv, GenerationTypeOK,
              ApprovalTypeOK, ReviewRecords, Sections
<1>3. DocumentFirst'
  BY <1>1, DocumentFirstFrame DEF LifecycleInv, Harmless
<1> QED BY <1>1, <1>2, <1>3 DEF LifecycleInv

(* And of a step of part 3.                                                 *)
LEMMA ApprovalKeepsOthers ==
  ASSUME LifecycleInv, ApprovalNext \/ ApprovalFailure, UNCHANGED <<intake, run>>
  PROVE  LifecycleInv'
<1>1. ApprovalTypeOK' /\ DocumentFirst'
  BY ApprovalTypeStep, DocumentFirstStep DEF LifecycleInv
<1>2. IntakeTypeOK' /\ GenerationInv'
  BY <1>1 DEF LifecycleInv, IntakeTypeOK, GenerationInv, GenerationTypeOK,
              AttemptsBounded, ApprovalTypeOK
<1> QED BY <1>1, <1>2 DEF LifecycleInv

(* Nothing happens.                                                         *)
LEMMA StutterKeepsAll ==
  ASSUME LifecycleInv, UNCHANGED lifecycleVars
  PROVE  LifecycleInv' /\ Harmless
<1>1. UNCHANGED <<status, section, doc, intake, run, gate, opening, review>>
  BY DEF lifecycleVars, storeVars
<1>2. Harmless
  BY <1>1, StatusIsHarmless
<1>3. StoreTypeOK'
  BY <1>1 DEF LifecycleInv, IntakeTypeOK, StoreTypeOK, Sections
<1>4. IntakeTypeOK' /\ GenerationInv' /\ ApprovalTypeOK'
  BY <1>1, <1>3 DEF LifecycleInv, IntakeTypeOK, GenerationInv,
                    GenerationTypeOK, AttemptsBounded, ApprovalTypeOK,
                    ReviewRecords, Sections
<1>5. DocumentFirst'
  BY <1>1, <1>2, DocumentFirstFrame DEF LifecycleInv, Harmless
<1> QED BY <1>2, <1>4, <1>5 DEF LifecycleInv

(* Every step of the workflow, failures included, keeps the invariant.      *)
LEMMA LifecycleInvStep ==
  ASSUME LifecycleInv, [LifecycleNext \/ LifecycleFailure]_lifecycleVars
  PROVE  LifecycleInv'
<1>1. CASE LifecycleNext
  BY <1>1, IntakeKeepsOthers, GenerationKeepsOthers, ApprovalKeepsOthers
  DEF LifecycleNext
<1>2. CASE LifecycleFailure
  BY <1>2, IntakeKeepsOthers, GenerationKeepsOthers, ApprovalKeepsOthers
  DEF LifecycleFailure
<1>3. CASE UNCHANGED lifecycleVars
  BY <1>3, StutterKeepsAll
<1> QED BY <1>1, <1>2, <1>3

(* Every step of the workflow without failures publishes what is approved.  *)
LEMMA LifecyclePublishedStep ==
  ASSUME LifecycleInv, AllApprovedIsPublished, [LifecycleNext]_lifecycleVars
  PROVE  AllApprovedIsPublished'
<1>frame. ASSUME Harmless, UNCHANGED review PROVE AllApprovedIsPublished'
  BY <1>frame, PublishedFrame DEF Harmless
<1>1. CASE IntakeNext /\ UNCHANGED <<run, gate, opening, review>>
  BY <1>1, <1>frame, IntakeKeepsOthers
<1>2. CASE GenerationNext /\ UNCHANGED <<intake, gate, opening, review>>
  BY <1>2, <1>frame, GenerationKeepsOthers
<1>3. CASE ApprovalNext /\ UNCHANGED <<intake, run>>
  BY <1>3, PublishedStep DEF LifecycleInv
<1>4. CASE UNCHANGED lifecycleVars
  BY <1>4, <1>frame, StutterKeepsAll DEF lifecycleVars
<1> QED BY <1>1, <1>2, <1>3, <1>4 DEF LifecycleNext

(* The inductive invariant, of every behaviour.                             *)
LEMMA LifecycleInvCorrect == LossyLifecycleSpec => []LifecycleInv
  BY LifecycleInvInit, LifecycleInvStep, PTL DEF LossyLifecycleSpec

(* The type invariant of the workflow, with processes that die half-way: in  *)
(* particular no section is drafted more often than the request allows.     *)
THEOREM LifecycleTypeCorrect == LossyLifecycleSpec => []LifecycleTypeOK
<1>1. LifecycleInv => LifecycleTypeOK
  BY DEF LifecycleInv, LifecycleTypeOK, GenerationInv
<1> QED BY <1>1, LifecycleInvCorrect, PTL

(* A finished ticket has a document, whatever requests of the three parts    *)
(* overlap and whichever of them die half-way.                              *)
THEOREM LifecycleTerminadoHasDocument ==
  LossyLifecycleSpec => []TerminadoHasDocument
<1>1. LifecycleInv => TerminadoHasDocument
  BY DEF LifecycleInv, DocumentFirst
<1> QED BY <1>1, LifecycleInvCorrect, PTL

(* Every section signed: the document exists or a decision will make it,     *)
(* whatever parts 1 and 2 do to the ticket at the same time.                *)
THEOREM LifecycleAllApprovedIsPublished ==
  LifecycleSpec => []AllApprovedIsPublished
<1>1. LifecycleInv /\ [LifecycleNext]_lifecycleVars => LifecycleInv'
  BY LifecycleInvStep
<1> QED BY <1>1, LifecycleInvInit, LifecyclePublishedStep, PTL
        DEF LifecycleSpec
=============================================================================

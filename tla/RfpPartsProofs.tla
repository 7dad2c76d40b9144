--------------------------- MODULE RfpPartsProofs ---------------------------
(***************************************************************************)
(* Parts 1 and 2, each on its own, proved for any departments, any number  *)
(* of generation requests in flight and any limit on the attempts.         *)
(***************************************************************************)
EXTENDS RfpLifecycleProofs

(***************************************************************************)
(* Part 1.                                                                 *)
(***************************************************************************)
BeforeFanOut == {"none", "registered", "uploaded", "ingest", "classify",
                 "orchestrate"}

(* How far the pipeline is tells what the store holds.                       *)
IntakeProgress ==
    /\ intake.at \in BeforeFanOut \cup {"workers"} =>
          status \in {"no_ticket", "analizando"}
    /\ intake.at \in BeforeFanOut => Active = {}
    /\ intake.at \in {"orchestrate", "workers"} => intake.needed # {}
    /\ intake.at = "workers" => /\ intake.todo \subseteq intake.needed
                                /\ Active = intake.needed \ intake.todo
    /\ AnalysedIsComplete

(* A step that commits no section and moves the pipeline past the fan-out.   *)
LEMMA ProgressFrame ==
  ASSUME IntakeTypeOK, IntakeProgress, UNCHANGED section, NEW step \in IntakeSteps,
         GoTo(step), step \notin BeforeFanOut \cup {"workers"},
         status' = "analisis_completo" => status = "analisis_completo"
  PROVE  IntakeProgress'
  BY DEF IntakeTypeOK, IntakeProgress, AnalysedIsComplete, GoTo, Active,
         BeforeFanOut

(* Every step of the pipeline keeps it, and none takes a discard back.       *)
LEMMA IntakeProgressStep ==
  ASSUME IntakeTypeOK, IntakeProgress, [IntakeNext]_intakeVars
  PROVE  /\ IntakeProgress'
         /\ status = "descartado" => status' = "descartado"
<1> USE DEF IntakeTypeOK
<1> DEFINE Goal == /\ IntakeProgress'
                   /\ status = "descartado" => status' = "descartado"
<1>1. CASE Upload \/ Register
  <2>1. CASE Upload
    BY <2>1, SMTT(30) DEF Upload, CreateTicket, GoTo, IntakeProgress,
                          AnalysedIsComplete, BeforeFanOut, Active
  <2>2. CASE Register
    BY <2>2, SMTT(30) DEF Register, CreateTicket, GoTo, IntakeProgress,
                          AnalysedIsComplete, BeforeFanOut, Active
  <2> QED BY <1>1, <2>1, <2>2
<1>2. CASE Schedule \/ Ingest
  <2>1. CASE Schedule
    BY <2>1, SMTT(30) DEF Schedule, GoTo, IntakeProgress, AnalysedIsComplete,
                          BeforeFanOut, Active, storeVars
  <2>2. CASE Ingest
    <3>1. /\ UNCHANGED storeVars /\ intake.at = "ingest"
          /\ intake'.at \in {"classify", "publish"}
      BY <2>2, SMTT(30) DEF Ingest, GoTo
    <3> QED BY <3>1, SMTT(30) DEF IntakeProgress, AnalysedIsComplete, BeforeFanOut,
                                  Active, storeVars
  <2> QED BY <1>2, <2>1, <2>2
<1>3. CASE Classify
  <2> PICK tooShort \in BOOLEAN, isPitch \in BOOLEAN :
         LET isValid == IsClientRfp(tooShort, isPitch) IN
         /\ intake' = [intake EXCEPT !.at = RouteAfterClassifier(isValid),
                                     !.needed = IF isValid THEN @ ELSE {}]
         /\ IF isValid THEN UNCHANGED status ELSE SetStatus("descartado")
    BY <1>3 DEF Classify
  <2>0. /\ intake.at = "classify" /\ UNCHANGED section
        /\ status \in {"no_ticket", "analizando"} /\ Active = {}
    BY <1>3 DEF Classify, IntakeProgress, BeforeFanOut
  <2>1. CASE IsClientRfp(tooShort, isPitch)
    <3>1. /\ intake'.at = "orchestrate" /\ intake'.needed # {}
          /\ status' = status
      BY <2>1 DEF RouteAfterClassifier, IsClientRfp
    <3> QED BY <2>0, <3>1 DEF IntakeProgress, AnalysedIsComplete, BeforeFanOut, Active
  <2>2. CASE ~IsClientRfp(tooShort, isPitch)
    <3>1. intake'.at = "publish" /\ status' = "descartado"
      BY <2>2 DEF RouteAfterClassifier, SetStatus
    <3> QED BY <2>0, <3>1 DEF IntakeProgress, AnalysedIsComplete, BeforeFanOut
  <2> QED BY <2>1, <2>2
<1>4. CASE Orchestrate
  BY <1>4 DEF Orchestrate, IntakeProgress, AnalysedIsComplete, BeforeFanOut,
              Active, storeVars
<1>5. ASSUME NEW d \in Dept, Worker(d) PROVE Goal
  <2>1. Active' = Active \cup {d}
    BY <1>5 DEF Worker, UpsertSection, Active, StoreTypeOK, Sections, FreshRow,
                Absent
  <2>2. /\ intake'.at = "workers" /\ intake'.needed = intake.needed
        /\ intake'.todo = intake.todo \ {d}
    BY <1>5 DEF Worker, DeliverOutput
  <2> QED BY <1>5, <2>1, <2>2
          DEF Worker, IntakeProgress, AnalysedIsComplete, BeforeFanOut
<1>6. CASE Synthesize
  <2>1. Active = intake.needed /\ intake.needed # {} /\ status # "descartado"
    BY <1>6 DEF Synthesize, WorkersDone, IntakeProgress, Active, StoreTypeOK,
                BeforeFanOut
  <2> QED BY <1>6, <2>1
          DEF Synthesize, SetStatus, GoTo, IntakeProgress, AnalysedIsComplete,
              BeforeFanOut, Active
<1>7. CASE GraphFails \/ DiscardOnError
  BY <1>7, ProgressFrame
  DEF GraphFails, DiscardOnError, SetStatus, BeforeFanOut, IntakeSteps
<1>8. CASE Publish \/ PublishFails
  BY <1>8, ProgressFrame
  DEF Publish, PublishFails, storeVars, BeforeFanOut, IntakeSteps
<1>9. CASE UNCHANGED intakeVars
  BY <1>9 DEF intakeVars, storeVars, IntakeProgress, AnalysedIsComplete, Active
<1> QED
  BY <1>1, <1>2, <1>3, <1>4, <1>5, <1>6, <1>7, <1>8, <1>9
  DEF IntakeNext, PipelineStep

(* The types and the progress, of every behaviour.                          *)
LEMMA IntakeCorrect == IntakeSpec => [](IntakeTypeOK /\ IntakeProgress)
<1>1. IntakeInit => IntakeTypeOK /\ IntakeProgress
  BY NoDocType DEF IntakeInit, StoreInit, StoreTypeOK, IntakeTypeOK,
                   IntakeSteps, GraphSteps, IntakeProgress, AnalysedIsComplete,
                   Active, NoDoc, BeforeFanOut
<1>2. IntakeTypeOK /\ [IntakeNext]_intakeVars => IntakeTypeOK'
  <2>1. ASSUME IntakeTypeOK, UNCHANGED intakeVars PROVE IntakeTypeOK'
    BY <2>1 DEF intakeVars, storeVars, IntakeTypeOK, StoreTypeOK, Sections
  <2> QED BY <2>1, IntakeStep
<1>3. IntakeTypeOK /\ IntakeProgress /\ [IntakeNext]_intakeVars
      => IntakeProgress'
  BY IntakeProgressStep
<1> QED BY <1>1, <1>2, <1>3, PTL DEF IntakeSpec

(* The ticket, its sections and the pipeline keep their types.               *)
THEOREM IntakeTyped == IntakeSpec => []IntakeTypeOK
BY IntakeCorrect, PTL

(* An analysed ticket has the sections the orchestrator asked for, no other. *)
THEOREM IntakeAnalysedIsComplete == IntakeSpec => []AnalysedIsComplete
<1>1. IntakeProgress => AnalysedIsComplete
  BY DEF IntakeProgress
<1> QED BY <1>1, IntakeCorrect, PTL

(* The pipeline never takes a discard back.                                 *)
THEOREM IntakeDiscardIsFinal == IntakeSpec => DiscardIsFinal
<1>1. IntakeTypeOK /\ IntakeProgress /\ [IntakeNext]_intakeVars
      => [status = "descartado" => status' = "descartado"]_intakeVars
  BY IntakeProgressStep
<1> QED BY <1>1, IntakeCorrect, PTL DEF IntakeSpec, DiscardIsFinal

(***************************************************************************)
(* Part 2.                                                                 *)
(***************************************************************************)
Verdict(d) == IF d \in Compliant THEN "evaluated_pass" ELSE "needs_human_review"
Written(d) == section[d] = [draft |-> "evaluated", approval |-> Verdict(d)]

(* What a run has done so far; other runs write the same, so it stays.       *)
RunProgress(r) ==
    /\ run[r].at = "begin" => run[r].todo = Active
    /\ run[r].at \in {"draft", "evaluated"} =>
          /\ \A d \in Active \ run[r].todo : Written(d)
          /\ ~run[r].anyFailed => Active \ run[r].todo \subseteq Compliant

GenerationProgress == /\ \A r \in Runs : RunProgress(r)
                      /\ RestingVerdictIsSound

(* A step of one run that commits no section.                               *)
LEMMA RunProgressFrame ==
  ASSUME GenerationInv, GenerationProgress, NEW r \in Runs,
         UNCHANGED section, \A s \in Runs \ {r} : run'[s] = run[s],
         RunProgress(r)',
         \/ run'[r].at # "idle"
         \/ status' # "en_evaluacion"
         \/ \A d \in Active : section[d].approval = "evaluated_pass"
  PROVE  GenerationProgress'
<1>1. ASSUME NEW s \in Runs PROVE RunProgress(s)'
  <2>1. CASE s # r
    BY <2>1 DEF GenerationProgress, RunProgress, Written, Active
  <2> QED BY <2>1
<1>2. RestingVerdictIsSound'
  BY DEF RestingVerdictIsSound, NoRunInFlight, Active
<1> QED BY <1>1, <1>2 DEF GenerationProgress

(* Every step of the loop keeps it.                                         *)
LEMMA GenerationProgressStep ==
  ASSUME GenerationInv, GenerationProgress, NEW r \in Runs,
         RequestGeneration(r) \/ LoopStep(r)
  PROVE  GenerationProgress'
<1>run. run \in [Runs -> RunRecords]
  BY DEF GenerationInv, GenerationTypeOK
<1>idle. IdleRun.at = "idle"
  BY DEF IdleRun
<1>1. CASE RequestGeneration(r) \/ AcceptGeneration(r) \/ LoopRaises(r)
  <2>1. /\ UNCHANGED section
        /\ \A s \in Runs \ {r} : run'[s] = run[s]
        /\ run'[r].at \in {"accepted", "queued", "failing"}
    BY <1>1, <1>run
    DEF RequestGeneration, AcceptGeneration, LoopRaises, Move, storeVars,
        RunRecords
  <2> QED BY <2>1, RunProgressFrame DEF RunProgress
<1>2. CASE LoadTicket(r)
  <2> DEFINE record == [run[r] EXCEPT
                          !.at = IF status \in Generable THEN "begin"
                                 ELSE "failing",
                          !.todo = Active]
  <2>1. /\ run' = [run EXCEPT ![r] = record]
        /\ UNCHANGED <<section, status>>
    BY <1>2 DEF LoadTicket, storeVars
  <2>2. record.at \in {"begin", "failing"} /\ record.todo = Active
    BY <1>run DEF RunRecords
  <2>3. run'[r] = record /\ \A s \in Runs \ {r} : run'[s] = run[s]
    BY <1>run, <2>1
  <2> HIDE DEF record
  <2>4. UNCHANGED Active
    BY <2>1 DEF Active
  <2> QED BY <2>1, <2>2, <2>3, <2>4, RunProgressFrame DEF RunProgress
<1>3. CASE BeginDrafting(r)
  <2>1. CASE run[r].todo = {}
    <3>1. /\ UNCHANGED section /\ status' # "en_evaluacion"
          /\ \A s \in Runs \ {r} : run'[s] = run[s]
          /\ run'[r].at = "idle"
      BY <1>3, <1>run, <1>idle, <2>1 DEF BeginDrafting, EndRun, SetStatus
    <3> QED BY <3>1, RunProgressFrame DEF RunProgress
  <2>2. CASE run[r].todo # {}
    <3>1. /\ UNCHANGED section
          /\ \A s \in Runs \ {r} : run'[s] = run[s]
          /\ run'[r].at = "draft" /\ run'[r].todo = Active
      BY <1>3, <1>run, <2>2
      DEF BeginDrafting, Move, GenerationProgress, RunProgress, RunRecords
    <3>2. Active' \ run'[r].todo = {}
      BY <3>1 DEF Active
    <3> QED BY <3>1, <3>2, RunProgressFrame DEF RunProgress
  <2> QED BY <2>1, <2>2
<1>4. CASE Evaluate(r) \/ Retry(r)
  <2>1. /\ UNCHANGED section
        /\ \A s \in Runs \ {r} : run'[s] = run[s]
        /\ run[r].at \in {"draft", "evaluated"}
        /\ run'[r].at \in {"draft", "evaluated"}
        /\ run'[r].todo = run[r].todo
        /\ run'[r].anyFailed = run[r].anyFailed
    BY <1>4, <1>run DEF Evaluate, Retry, Move, storeVars, RunRecords
  <2>2. RunProgress(r)'
    BY <2>1 DEF GenerationProgress, RunProgress, Written, Verdict, Active
  <2> QED BY <2>1, <2>2, RunProgressFrame
<1>5. CASE KeepDraft(r)
  <2> PICK d \in Dept : d = Current(r) /\ d \in run[r].todo
    BY <1>5, <1>run
    DEF KeepDraft, GenerationInv, AttemptsBounded, Current, RunRecords
  <2>1. \A e \in Dept :
           section'[e] = IF e = d /\ section[d] # Absent
                         THEN [draft |-> "evaluated", approval |-> Verdict(d)]
                         ELSE section[e]
    BY <1>5
    DEF KeepDraft, WriteDraft, GenerationInv, GenerationTypeOK, StoreTypeOK,
        Sections, Verdict, Passes
  <2>2. Active' = Active
    BY <2>1 DEF Active, Absent
  <2>3. \A e \in Active : Written(e) \/ e = d => Written(e)'
    BY <2>1 DEF Written, Active, Verdict
  <2>4. /\ run'[r].at = "draft" /\ run'[r].todo = run[r].todo \ {d}
        /\ run'[r].anyFailed = (run[r].anyFailed \/ d \notin Compliant)
        /\ \A s \in Runs \ {r} : run'[s] = run[s]
    BY <1>5, <1>run DEF KeepDraft, Passes
  <2>5. ASSUME NEW s \in Runs PROVE RunProgress(s)'
    <3>1. CASE s # r
      BY <2>2, <2>3, <2>4, <3>1 DEF GenerationProgress, RunProgress
    <3>2. CASE s = r
      <4>1. run[r].at = "evaluated"
        BY <1>5 DEF KeepDraft
      <4>2. /\ \A e \in Active \ run[r].todo : Written(e)
            /\ ~run[r].anyFailed => Active \ run[r].todo \subseteq Compliant
        BY <4>1 DEF GenerationProgress, RunProgress
      <4>3. \A e \in Active \ run'[r].todo : Written(e)'
        BY <2>3, <2>4, <4>2
      <4>4. ~run'[r].anyFailed => ~run[r].anyFailed /\ d \in Compliant
        BY <2>4, Zenon
      <4>5. ~run'[r].anyFailed => Active \ run'[r].todo \subseteq Compliant
        BY <2>4, <4>2, <4>4
      <4> QED BY <2>2, <2>4, <3>2, <4>3, <4>5 DEF RunProgress
    <3> QED BY <3>1, <3>2
  <2> QED BY <2>4, <2>5
          DEF GenerationProgress, RestingVerdictIsSound, NoRunInFlight
<1>6. CASE FinishGeneration(r)
  <2>1. /\ UNCHANGED section
        /\ \A s \in Runs \ {r} : run'[s] = run[s]
        /\ run'[r].at = "idle"
        /\ status' = IF run[r].anyFailed THEN "needs_human_review"
                     ELSE "en_evaluacion"
    BY <1>6, <1>run, <1>idle DEF FinishGeneration, EndRun, SetStatus
  <2>2. ASSUME ~run[r].anyFailed, NEW d \in Active
        PROVE  section[d].approval = "evaluated_pass"
    <3>1. run[r].at = "draft" /\ Active \ run[r].todo = Active
      BY <1>6 DEF FinishGeneration
    <3>2. Written(d) /\ d \in Compliant
      BY <2>2, <3>1, Zenon DEF GenerationProgress, RunProgress
    <3> QED BY <3>2 DEF Written, Verdict
  <2> QED BY <2>1, <2>2, RunProgressFrame DEF RunProgress
<1>7. CASE HandleLoopError(r)
  <2>1. /\ UNCHANGED section /\ status' # "en_evaluacion"
        /\ \A s \in Runs \ {r} : run'[s] = run[s]
        /\ run'[r].at = "idle"
    BY <1>7, <1>run, <1>idle DEF HandleLoopError, EndRun, SetStatus
  <2> QED BY <2>1, RunProgressFrame DEF RunProgress
<1> QED BY <1>1, <1>2, <1>3, <1>4, <1>5, <1>6, <1>7 DEF LoopStep

(* Nothing happens to the ticket or to a run.                               *)
LEMMA GenerationStutter ==
  ASSUME GenerationInv, GenerationProgress, UNCHANGED generationVars
  PROVE  GenerationInv' /\ GenerationProgress'
  BY DEF generationVars, storeVars, GenerationInv, GenerationTypeOK, StoreTypeOK,
         Sections, AttemptsBounded, GenerationProgress, RunProgress, Written,
         Active, RestingVerdictIsSound, NoRunInFlight

(* An analysed ticket nobody works on.                                      *)
LEMMA GenerationInvInit == GenerationInit => GenerationInv /\ GenerationProgress
<1> SUFFICES ASSUME GenerationInit PROVE GenerationInv /\ GenerationProgress
  OBVIOUS
<1>1. StoreTypeOK
  BY NoDocType DEF GenerationInit, StoreTypeOK, Sections, SectionRow, FreshRow,
                   Absent, DraftKind, ApprovalStatus, Statuses
<1>2. IdleRun \in RunRecords /\ IdleRun.at = "idle" /\ IdleRun.iteration = 0
  BY GenerationAssumption DEF IdleRun, RunRecords, RunSteps
<1> QED BY <1>1, <1>2
        DEF GenerationInit, GenerationInv, GenerationTypeOK, AttemptsBounded,
            GenerationProgress, RunProgress, RestingVerdictIsSound

(* What part 2 keeps, of every behaviour.                                   *)
LEMMA GenerationCorrect ==
  GenerationSpec => [](GenerationInv /\ GenerationProgress)
<1>1. ASSUME GenerationInv, GenerationProgress, [GenerationNext]_generationVars
      PROVE  GenerationInv' /\ GenerationProgress'
  BY <1>1, GenerationStep, GenerationProgressStep, GenerationStutter
  DEF GenerationNext
<1> QED BY <1>1, GenerationInvInit, PTL DEF GenerationSpec

(* The ticket, its sections and every run keep their types.                 *)
THEOREM GenerationTyped == GenerationSpec => []GenerationTypeOK
<1>1. GenerationInv => GenerationTypeOK
  BY DEF GenerationInv
<1> QED BY <1>1, GenerationCorrect, PTL

(* A ticket that rests in "en_evaluacion" has passed in every section.       *)
THEOREM GenerationRestingVerdictIsSound ==
  GenerationSpec => []RestingVerdictIsSound
<1>1. GenerationProgress => RestingVerdictIsSound
  BY DEF GenerationProgress
<1> QED BY <1>1, GenerationCorrect, PTL
=============================================================================

------------------------ MODULE BackgroundJobsProofs ------------------------
(***************************************************************************)
(* The nightly export for any launches and dates, and the background tasks *)
(* for any tasks, events and limit on the retries.                         *)
(***************************************************************************)
EXTENDS MCBackgroundJobs, FiniteSetTheorems, TLAPS

(***************************************************************************)
(* The nightly export: what every launch, dead or alive, leaves true.      *)
(***************************************************************************)

(* A launch has a row once it is at work, and none before.                  *)
RowsFollow ==
    \A l \in Launch :
        /\ launch[l].at \in {"idle", "lock", "idem", "insert"} => job[l] = "none"
        /\ launch[l].at \in Guarded => job[l] = "processing"
        /\ launch[l].at = "fail" => job[l] \in {"processing", "completed"}

(* A file is there once it was opened, and a part of one has its writer.     *)
FilesFollow ==
    /\ \A d \in Date : csv[d] = "partial" =>
          \E k \in Launch : /\ launch[k].date = d
                            /\ launch[k].at \in {"writing", "fail", "failed", "killed"}
    /\ \A l \in Launch :
          launch[l].at \in {"writing", "kpi", "finish"} \/ job[l] = "completed" =>
              csv[launch[l].date] # "absent"

NightlyInv == NightlyTypeOK /\ RowsFollow /\ FilesFollow /\ ProcessingHasOwner

USE DEF Guarded, Working, Outcomes, LaunchSteps

(* No launch has begun.                                                      *)
LEMMA NightlyInitOK == NightlyInit => NightlyInv
BY DEF NightlyInit, NightlyInv, NightlyTypeOK, RowsFollow, FilesFollow, ProcessingHasOwner

(* Dates never change, and each launch keeps its row to itself.              *)
LEMMA NightlyTypeStep ==
  ASSUME NightlyInv, NightlyNext
  PROVE  /\ NightlyTypeOK'
         /\ \A l \in Launch : launch'[l].date = launch[l].date
<1> PICK l \in Launch : Start(l) \/ LaunchStep(l) \/ Killed(l)
  BY DEF NightlyNext
<1> USE DEF NightlyInv, NightlyTypeOK, LaunchGoes, RowIs
<1>1. CASE Start(l) \/ Killed(l)
  BY <1>1 DEF Start, Killed
<1>2. CASE CheckLock(l) \/ CheckCompleted(l)
  BY <1>2 DEF CheckLock, CheckCompleted
<1>3. CASE CreateRow(l)
  BY <1>3 DEF CreateRow
<1>4. CASE MarkCompleted(l) \/ CompletedThenRaises(l)
  BY <1>4, SMTT(30) DEF MarkCompleted, CompletedThenRaises
<1>5. CASE MarkFailed(l)
  BY <1>5 DEF MarkFailed
<1>6. CASE LookForCsv(l) \/ RunKpiPipeline(l) \/ Raises(l)
  BY <1>6 DEF LookForCsv, RunKpiPipeline, Raises
<1>7. CASE OpenCsv(l) \/ FillCsv(l)
  BY <1>7 DEF OpenCsv, FillCsv
<1> QED BY <1>1, <1>2, <1>3, <1>4, <1>5, <1>6, <1>7 DEF LaunchStep

(* The row of a launch says what the launch is doing.                        *)
LEMMA RowsStep ==
  ASSUME NightlyInv, NightlyNext
  PROVE  RowsFollow' /\ ProcessingHasOwner'
<1> PICK l \in Launch : Start(l) \/ LaunchStep(l) \/ Killed(l)
  BY DEF NightlyNext
<1> USE DEF NightlyInv, NightlyTypeOK, RowsFollow, ProcessingHasOwner, LaunchGoes, RowIs
<1>1. CASE Start(l) \/ Killed(l)
  BY <1>1, SMTT(30) DEF Start, Killed
<1>2. CASE CheckLock(l) \/ CheckCompleted(l)
  BY <1>2, SMTT(30) DEF CheckLock, CheckCompleted
<1>3. CASE CreateRow(l)
  BY <1>3, SMTT(30) DEF CreateRow
<1>4. CASE MarkCompleted(l) \/ CompletedThenRaises(l)
  BY <1>4, SMTT(30) DEF MarkCompleted, CompletedThenRaises
<1>5. CASE MarkFailed(l)
  BY <1>5, SMTT(30) DEF MarkFailed
<1>6. CASE LookForCsv(l) \/ RunKpiPipeline(l) \/ Raises(l)
  BY <1>6, SMTT(30) DEF LookForCsv, RunKpiPipeline, Raises
<1>7. CASE OpenCsv(l) \/ FillCsv(l)
  BY <1>7, SMTT(30) DEF OpenCsv, FillCsv
<1> QED BY <1>1, <1>2, <1>3, <1>4, <1>5, <1>6, <1>7 DEF LaunchStep

(* A backup that is half written has a launch that writes it or has failed.  *)
LEMMA FilesStep ==
  ASSUME NightlyInv, NightlyNext
  PROVE  FilesFollow'
<1> PICK l \in Launch : Start(l) \/ LaunchStep(l) \/ Killed(l)
  BY DEF NightlyNext
<1> USE DEF NightlyInv, NightlyTypeOK, RowsFollow, FilesFollow, LaunchGoes, RowIs
<1>1. CASE Start(l) \/ Killed(l)
  BY <1>1, SMTT(30) DEF Start, Killed
<1>2. CASE CheckLock(l) \/ CheckCompleted(l)
  BY <1>2, SMTT(30) DEF CheckLock, CheckCompleted
<1>3. CASE CreateRow(l)
  BY <1>3, SMTT(30) DEF CreateRow
<1>4. CASE MarkCompleted(l) \/ CompletedThenRaises(l)
  BY <1>4, SMTT(30) DEF MarkCompleted, CompletedThenRaises
<1>5. CASE MarkFailed(l)
  BY <1>5, SMTT(30) DEF MarkFailed
<1>6. CASE LookForCsv(l) \/ RunKpiPipeline(l) \/ Raises(l)
  BY <1>6, SMTT(30) DEF LookForCsv, RunKpiPipeline, Raises
<1>7. CASE OpenCsv(l)
  BY <1>7, SMTT(30) DEF OpenCsv
<1>8. CASE FillCsv(l)
  BY <1>8, SMTT(30) DEF FillCsv
<1> QED BY <1>1, <1>2, <1>3, <1>4, <1>5, <1>6, <1>7, <1>8 DEF LaunchStep

(* The invariant of the export survives every step.                          *)
LEMMA NightlyInvStep == NightlyInv /\ [NightlyNext]_nightlyVars => NightlyInv'
<1> SUFFICES ASSUME NightlyInv, [NightlyNext]_nightlyVars PROVE NightlyInv'
  OBVIOUS
<1>1. CASE NightlyNext
  BY <1>1, NightlyTypeStep, RowsStep, FilesStep DEF NightlyInv
<1>2. CASE UNCHANGED nightlyVars
  BY <1>2 DEF nightlyVars, NightlyInv, NightlyTypeOK, RowsFollow, FilesFollow,
              ProcessingHasOwner
<1> QED BY <1>1, <1>2

(* A row that keeps the lock belongs to a launch at work or to a dead one    *)
(* (the handlers of run_nightly_export).                                     *)
THEOREM NightlyProcessingHasOwner == NightlySpec => []ProcessingHasOwner
<1>1. NightlyInv => ProcessingHasOwner
  BY DEF NightlyInv
<1> QED BY NightlyInitOK, NightlyInvStep, <1>1, PTL DEF NightlySpec

(* A date closed as exported has its backup file, whole or still in the hands*)
(* of whoever was writing it (export_telemetry_csv).                         *)
THEOREM NightlyCompletedHasBackup == NightlySpec => []CompletedHasBackup
<1>1. NightlyInv => CompletedHasBackup
  BY DEF NightlyInv, NightlyTypeOK, FilesFollow, CompletedHasBackup
<1> QED BY NightlyInitOK, NightlyInvStep, <1>1, PTL DEF NightlySpec

(***************************************************************************)
(* Launches that do not overlap between looking at the lock and inserting. *)
(***************************************************************************)
SameDate(k, l) == k # l /\ launch[k].date = launch[l].date

(* What a launch has looked at still holds when it acts on it.               *)
LooksHold ==
    /\ \A l \in Window, k \in Launch : job[k] # "processing"
    /\ \A l, k \in Launch : SameDate(k, l) =>
          /\ launch[l].at = "insert" => job[k] # "completed"
          /\ job[l] = "processing" => job[k] # "completed"

SpacedInv == NightlyInv /\ OneExport /\ LooksHold

(* While launches are spaced, what one found of the other rows is still so   *)
(* when it inserts its own.                                                  *)
LEMMA SpacedInvStep ==
  ASSUME SpacedInv, Spaced, [NightlyNext]_nightlyVars
  PROVE  SpacedInv'
<1>1. CASE UNCHANGED nightlyVars
  BY <1>1 DEF nightlyVars, SpacedInv, NightlyInv, NightlyTypeOK, RowsFollow, FilesFollow,
              ProcessingHasOwner, OneExport, LooksHold, SameDate, Window
<1>2. CASE NightlyNext
  <2>1. NightlyInv'
    BY <1>2, NightlyInvStep DEF SpacedInv
  <2>2. \A l \in Launch : launch'[l].date = launch[l].date
    BY <1>2, NightlyTypeStep DEF SpacedInv
  <2> SUFFICES OneExport' /\ LooksHold'
    BY <2>1 DEF SpacedInv
  <2> PICK l \in Launch : Start(l) \/ LaunchStep(l) \/ Killed(l)
    BY <1>2 DEF NightlyNext
  <2> USE DEF SpacedInv, NightlyInv, NightlyTypeOK, RowsFollow, OneExport, LooksHold,
              SameDate, Window, LaunchGoes, RowIs
  <2>3. CASE Start(l) \/ Killed(l)
    BY <2>3, SMTT(30) DEF Start, Killed
  <2>4. CASE CheckLock(l)
    BY <2>4 DEF CheckLock, HasProcessingLock
  <2>5. CASE CheckCompleted(l)
    BY <2>5 DEF CheckCompleted, HasCompletedForDate
  <2>6. CASE CreateRow(l)
    BY <2>6 DEF CreateRow, Spaced
  <2>7. CASE MarkCompleted(l) \/ CompletedThenRaises(l)
    <3>1. /\ launch[l].at = "finish" /\ job[l] = "processing"
          /\ job' = [job EXCEPT ![l] = "completed"]
      BY <2>7 DEF MarkCompleted, CompletedThenRaises
    <3>2. Window' = {} /\ Window = {}
      BY <3>1, <2>7 DEF MarkCompleted, CompletedThenRaises
    <3>3. \A k \in Launch : launch'[k].at # "insert"
      BY <3>2
    <3> QED BY <2>2, <3>1, <3>2, <3>3
  <2>8. CASE MarkFailed(l)
    BY <2>8 DEF MarkFailed
  <2>9. CASE LookForCsv(l) \/ RunKpiPipeline(l) \/ Raises(l) \/ OpenCsv(l) \/ FillCsv(l)
    <3>1. job' = job
      BY <2>9 DEF LookForCsv, RunKpiPipeline, Raises, OpenCsv, FillCsv
    <3>2. \A k \in Launch : launch'[k].at \in {"idem", "insert"} => launch'[k] = launch[k]
      BY <2>9 DEF LookForCsv, RunKpiPipeline, Raises, OpenCsv, FillCsv
    <3> QED BY <2>2, <3>1, <3>2
  <2> QED BY <2>3, <2>4, <2>5, <2>6, <2>7, <2>8, <2>9 DEF LaunchStep
<1> QED BY <1>1, <1>2

(* Without such an overlap one export runs at a time and no date is exported *)
(* twice, whichever launches fail or die (has_processing_lock,               *)
(* has_completed_for_date and create_job_run, each a transaction).           *)
THEOREM NightlyExportsOnce == NightlySpec => SpacedLaunchesExportOnce
<1>1. NightlyInit => SpacedInv
  BY NightlyInitOK
  DEF NightlyInit, SpacedInv, OneExport, LooksHold, Window, SameDate
<1>2. SpacedInv /\ Spaced /\ [NightlyNext]_nightlyVars => SpacedInv'
  BY SpacedInvStep
<1>3. SpacedInv => OneExport
  BY DEF SpacedInv
<1> QED BY <1>1, <1>2, <1>3, PTL DEF NightlySpec, SpacedLaunchesExportOnce

(***************************************************************************)
(* The background tasks: their types.                                      *)
(***************************************************************************)
CacheTypeOK ==
    \A n \in DOMAIN cache : n \in 0 .. Cardinality(Event) /\ cache[n] \in SUBSET Event

(* The types of everything that a task writes about itself.                  *)
Steps      == {"idle", "queued"} \cup Running \cup Ends
Statuses   == {"none", "RUNNING", "COMPLETED", "FAILED"}
TaskRecord == [kind : Kinds, at : Steps, retries : Attempts,
               got : SUBSET Event, agg : SUBSET Event]
TasksTypeOK == /\ task \in [Task -> TaskRecord]
               /\ run \in [Task -> [Attempts -> Statuses]]
               /\ dlq \in [Task -> Attempts \cup {NotBuried}]

DataTypeOK == events \in SUBSET Event /\ metrics \in SUBSET Event /\ CacheTypeOK

(* The types of the tasks and those of the data, apart.                      *)
LEMMA WeeklyTypeParts == WeeklyTypeOK <=> TasksTypeOK /\ DataTypeOK
BY DEF WeeklyTypeOK, TasksTypeOK, DataTypeOK, CacheTypeOK, TaskRecord, Steps, Statuses

(* Of n of the events of the week, n is a number the cache may be asked for. *)
LEMMA SizeInRange ==
  ASSUME NEW got \in SUBSET Event
  PROVE  IsFiniteSet(got) /\ CacheKey(got) \in 0 .. Cardinality(Event)
<1>1. /\ IsFiniteSet(got) /\ Cardinality(got) \in Nat
      /\ Cardinality(Event) \in Nat /\ Cardinality(got) <= Cardinality(Event)
  BY WeeklyAssumption, FS_Subset, FS_CardinalityType
<1> QED BY <1>1 DEF CacheKey

(* The types hold at the start.                                              *)
LEMMA WeeklyInitTypeOK == WeeklyInit => WeeklyTypeOK
BY WeeklyAssumption DEF WeeklyInit, WeeklyTypeOK, Attempts, NotBuried

(* What the transformation computes or finds is a set of events.             *)
Aggregated(got) == IF CacheKey(got) \in DOMAIN cache THEN cache[CacheKey(got)] ELSE got

(* What a transformation aggregates, and what it leaves in the cache.        *)
LEMMA TransformFacts ==
  ASSUME WeeklyTypeOK, NEW t \in Task, Transform(t)
  PROVE  LET got == task[t].got IN
         /\ task[t].at = "transform" /\ got \in SUBSET Event
         /\ Aggregated(got) \in SUBSET Event
         /\ task' = [task EXCEPT ![t].at = "load", ![t].agg = Aggregated(got)]
         /\ DOMAIN cache' = DOMAIN cache \cup {CacheKey(got)}
         /\ \A n \in DOMAIN cache' :
               cache'[n] = IF n = CacheKey(got) THEN Aggregated(got) ELSE cache[n]
         /\ UNCHANGED <<events, run, metrics, dlq>>
BY DEF WeeklyTypeOK, Transform, Aggregated

(* The end of a task that has no attempts left.                              *)
Buries(t) == Bury(t) \/ BuryFails(t) \/ FailBuried(t)

(* Steps that touch neither the events nor what is computed from them.       *)
Clerical(t) == \/ Trigger(t) \/ Receive(t) \/ RunSample(t) \/ RecordStart(t) \/ Extract(t)
               \/ Notify(t) \/ RecordCompletion(t) \/ Return(t) \/ FlowRaises(t)
               \/ RecordFailure(t) \/ TaskRaises(t) \/ Retry(t) \/ GiveUp(t) \/ Buries(t)
               \/ HardKill(t)

(* Most steps of a task touch no event, metric or cache entry.               *)
LEMMA ClericalFrame ==
  ASSUME NEW t \in Task, Clerical(t)
  PROVE  UNCHANGED <<events, cache, metrics>>
BY DEF Clerical, Trigger, Receive, RunSample, RecordStart, Extract, Notify, RecordCompletion,
       Return, FlowRaises, RecordFailure, TaskRaises, Retry, GiveUp, Buries, Bury,
       BuryFails, FailBuried, HardKill

(* Every step keeps the types of the data.                                   *)
LEMMA DataTypeStep ==
  ASSUME WeeklyTypeOK, [WeeklyNext]_weeklyVars
  PROVE  DataTypeOK'
<1>0. DataTypeOK
  BY WeeklyTypeParts
<1>1. CASE UNCHANGED <<events, cache, metrics>>
  BY <1>0, <1>1 DEF DataTypeOK, CacheTypeOK
<1>2. CASE ReceiveEvents
  BY <1>0, <1>2 DEF ReceiveEvents, DataTypeOK, CacheTypeOK
<1>3. CASE ExpireCache
  BY <1>0, <1>3 DEF ExpireCache, DataTypeOK, CacheTypeOK
<1>4. ASSUME NEW t \in Task, Load(t)
      PROVE  DataTypeOK'
  BY <1>0, <1>4 DEF Load, DataTypeOK, CacheTypeOK, WeeklyTypeOK
<1>5. ASSUME NEW t \in Task, Transform(t)
      PROVE  DataTypeOK'
  BY <1>0, <1>5, TransformFacts, SizeInRange DEF DataTypeOK, CacheTypeOK
<1> QED
  BY <1>1, <1>2, <1>3, <1>4, <1>5, ClericalFrame
  DEF WeeklyNext, TaskStep, Clerical, Buries, weeklyVars

(* A step that writes one task, its run record and its dead letter keeps     *)
(* their types.                                                              *)
LEMMA TaskFrame ==
  ASSUME TasksTypeOK, NEW t \in Task, NEW x \in TaskRecord, task' = [task EXCEPT ![t] = x],
         UNCHANGED run \/ \E status \in Statuses : Records(t, status),
         UNCHANGED dlq \/ dlq' = [dlq EXCEPT ![t] = task[t].retries]
  PROVE  TasksTypeOK'
<1> USE DEF TasksTypeOK
<1>1. task' \in [Task -> TaskRecord]
  OBVIOUS
<1>2. task[t].retries \in Attempts
  BY DEF TaskRecord
<1>3. dlq' \in [Task -> Attempts \cup {NotBuried}]
  BY <1>2
<1>4. ASSUME NEW status \in Statuses, Records(t, status)
      PROVE  run' \in [Task -> [Attempts -> Statuses]]
  <2>1. run' = [run EXCEPT ![t] = [run[t] EXCEPT ![task[t].retries] = status]]
    BY <1>4 DEF Records
  <2> QED BY <2>1
<1> QED BY <1>1, <1>3, <1>4

(* A task that only goes on, with or without its data frames.                *)
LEMMA GoesFrame ==
  ASSUME TasksTypeOK, NEW t \in Task, NEW step \in Steps,
         TaskGoes(t, step) \/ Leaves(t, step),
         UNCHANGED run \/ \E status \in Statuses : Records(t, status),
         UNCHANGED dlq \/ dlq' = [dlq EXCEPT ![t] = task[t].retries]
  PROVE  TasksTypeOK'
<1>1. task[t] \in TaskRecord
  BY DEF TasksTypeOK
<1> DEFINE x == [task[t] EXCEPT !.at = step]
           y == [task[t] EXCEPT !.at = step, !.got = {}, !.agg = {}]
<1>2. x \in TaskRecord /\ y \in TaskRecord
  BY <1>1 DEF TaskRecord
<1>3. task' = [task EXCEPT ![t] = x] \/ task' = [task EXCEPT ![t] = y]
  BY DEF TaskGoes, Leaves
<1> HIDE DEF x, y
<1> QED BY <1>2, <1>3, TaskFrame

(* Steps that only move a task on, and those that count or read as well.     *)
Move(t) == \/ Trigger(t) \/ Receive(t) \/ RunSample(t) \/ RecordStart(t) \/ Load(t)
           \/ Notify(t) \/ RecordCompletion(t) \/ Return(t) \/ FlowRaises(t)
           \/ RecordFailure(t) \/ TaskRaises(t) \/ GiveUp(t) \/ Buries(t) \/ HardKill(t)

(* A plain move sends a task to a step and writes no more than its own       *)
(* records.                                                                  *)
LEMMA MoveFrame ==
  ASSUME NEW t \in Task, Move(t)
  PROVE  /\ \E step \in Steps : TaskGoes(t, step) \/ Leaves(t, step)
         /\ UNCHANGED run \/ \E status \in Statuses : Records(t, status)
         /\ UNCHANGED dlq \/ dlq' = [dlq EXCEPT ![t] = task[t].retries]
<1> USE DEF Steps, Statuses, Running, FlowSteps, Ends
<1>1. CASE Trigger(t) \/ Receive(t) \/ RunSample(t)
  BY <1>1 DEF Trigger, Receive, RunSample
<1>2. CASE RecordStart(t) \/ RecordCompletion(t) \/ RecordFailure(t)
  BY <1>2 DEF RecordStart, RecordCompletion, RecordFailure
<1>3. CASE Load(t) \/ Notify(t) \/ Return(t)
  BY <1>3 DEF Load, Notify, Return
<1>4. CASE FlowRaises(t) \/ TaskRaises(t) \/ HardKill(t)
  BY <1>4 DEF FlowRaises, TaskRaises, HardKill
<1>5. CASE GiveUp(t) \/ Buries(t)
  BY <1>5 DEF GiveUp, Buries, Bury, BuryFails, FailBuried
<1> QED BY <1>1, <1>2, <1>3, <1>4, <1>5 DEF Move

(* Every step keeps the types.                                               *)
LEMMA WeeklyTypeStep ==
  ASSUME WeeklyTypeOK, [WeeklyNext]_weeklyVars
  PROVE  WeeklyTypeOK'
<1> SUFFICES TasksTypeOK'
  BY DataTypeStep, WeeklyTypeParts, PTL
<1>0. TasksTypeOK
  BY WeeklyTypeParts
<1>1. CASE UNCHANGED <<task, run, dlq>>
  BY <1>0, <1>1 DEF TasksTypeOK
<1>2. ASSUME NEW t \in Task, Move(t)
      PROVE  TasksTypeOK'
  BY <1>0, <1>2, MoveFrame, GoesFrame
<1>3. ASSUME NEW t \in Task, Transform(t)
      PROVE  TasksTypeOK'
  <2> DEFINE x == [task[t] EXCEPT !.at = "load", !.agg = Aggregated(task[t].got)]
  <2>0. task[t] \in TaskRecord /\ Aggregated(task[t].got) \in SUBSET Event
    BY <1>0, <1>3, TransformFacts DEF TasksTypeOK
  <2>1. x \in TaskRecord
    BY <2>0 DEF TaskRecord, Steps, Running, FlowSteps
  <2>2. task' = [task EXCEPT ![t] = x] /\ UNCHANGED <<run, dlq>>
    BY <1>3, ZenonT(60) DEF Transform, Aggregated
  <2> HIDE DEF x
  <2> QED BY <1>0, <2>1, <2>2, TaskFrame
<1>4. ASSUME NEW t \in Task, Extract(t)
      PROVE  TasksTypeOK'
  <2> DEFINE x == [task[t] EXCEPT !.at = "transform", !.got = events]
  <2>1. x \in TaskRecord
    BY <1>0, ZenonT(60) DEF TasksTypeOK, TaskRecord, Steps, Running, FlowSteps, WeeklyTypeOK
  <2>2. task' = [task EXCEPT ![t] = x] /\ UNCHANGED <<run, dlq>>
    BY <1>4 DEF Extract
  <2> HIDE DEF x
  <2> QED BY <1>0, <2>1, <2>2, TaskFrame
<1>5. ASSUME NEW t \in Task, Retry(t)
      PROVE  TasksTypeOK'
  <2> DEFINE x == [task[t] EXCEPT !.at = "queued", !.retries = @ + 1]
  <2>1. RetriesLeft(t) /\ UNCHANGED <<run, dlq>>
    BY <1>5 DEF Retry
  <2>0. task[t] \in TaskRecord
    BY <1>0 DEF TasksTypeOK
  <2>4. task[t].retries + 1 \in Attempts
    BY <2>0, <2>1, WeeklyAssumption DEF TaskRecord, RetriesLeft, Attempts
  <2>2. x \in TaskRecord
    BY <2>0, <2>4 DEF TaskRecord, Steps
  <2>3. \/ task' = [task EXCEPT ![t] = x]
        \/ \E step \in Steps : TaskGoes(t, step)
    BY <1>5 DEF Retry, Steps, Ends
  <2> HIDE DEF x
  <2> QED BY <1>0, <2>1, <2>2, <2>3, TaskFrame, GoesFrame
<1>6. CASE ReceiveEvents \/ ExpireCache
  BY <1>1, <1>6 DEF ReceiveEvents, ExpireCache
<1> QED
  BY <1>1, <1>2, <1>3, <1>4, <1>5, <1>6 DEF WeeklyNext, TaskStep, Move, Buries, weeklyVars

(***************************************************************************)
(* What is on record about a task.                                         *)
(***************************************************************************)
FromFlow(t) == task[t].kind \in {"weekly", "sync"}

RecordFollows(t) ==
    /\ task[t].at = "bury" => task[t].kind # "sync" /\ task[t].retries = MaxRetries
    /\ task[t].at \in {"return", "success"} /\ FromFlow(t) =>
          run[t][task[t].retries] = "COMPLETED"
    /\ \A i \in Attempts : i > task[t].retries => run[t][i] = "none"
    /\ task[t].at = "buried" => task[t].kind # "sync" /\ dlq[t] = MaxRetries
    /\ task[t].at = "failure" /\ task[t].kind # "sync" => dlq[t] = MaxRetries
    /\ dlq[t] # NotBuried =>
          /\ dlq[t] = MaxRetries /\ task[t].retries = MaxRetries
          /\ task[t].at \in {"buried", "failure", "killed"}

RecordsInv == WeeklyTypeOK /\ \A t \in Task : RecordFollows(t)

(* A step of one task says nothing of the others.                            *)
Alone(t) == \A u \in Task \ {t} : /\ task'[u] = task[u]
                                   /\ run'[u] = run[u]
                                   /\ dlq'[u] = dlq[u]

(* What a step leaves alone follows its record still.                        *)
LEMMA AloneSuffices ==
  ASSUME RecordsInv, NEW t \in Task, Alone(t), RecordFollows(t)'
  PROVE  \A u \in Task : RecordFollows(u)'
BY DEF RecordsInv, Alone, RecordFollows, FromFlow

(* A task goes on, and its record is written or not.                         *)
LEMMA GoesFacts ==
  ASSUME TasksTypeOK, NEW t \in Task, NEW step \in Steps,
         TaskGoes(t, step) \/ Leaves(t, step),
         UNCHANGED dlq, UNCHANGED run \/ \E status \in Statuses : Records(t, status)
  PROVE  /\ Alone(t)
         /\ task'[t].at = step
         /\ task'[t].kind = task[t].kind /\ task'[t].retries = task[t].retries
         /\ \A i \in Attempts : i > task[t].retries => run'[t][i] = run[t][i]
<1> USE DEF TasksTypeOK
<1>1. task[t] \in TaskRecord /\ task[t].retries \in Nat
  BY WeeklyAssumption DEF TaskRecord, Attempts
<1>2. CASE UNCHANGED run
  BY <1>1, <1>2, ZenonT(60) DEF TaskGoes, Leaves, Alone, TaskRecord
<1>3. ASSUME NEW status \in Statuses, Records(t, status)
      PROVE  /\ \A u \in Task \ {t} : run'[u] = run[u]
             /\ \A i \in Attempts : i > task[t].retries => run'[t][i] = run[t][i]
  BY <1>1, <1>3, WeeklyAssumption DEF Records, Attempts
<1> QED BY <1>1, <1>2, <1>3, ZenonT(60) DEF TaskGoes, Leaves, Alone, TaskRecord

(* The end of a task follows from its run record and its dead letter.        *)
LEMMA RecordsStep ==
  ASSUME RecordsInv, [WeeklyNext]_weeklyVars
  PROVE  \A t \in Task : RecordFollows(t)'
<1> USE WeeklyAssumption DEF FromFlow
<1>0. TasksTypeOK /\ \A t \in Task : RecordFollows(t)
  BY WeeklyTypeParts DEF RecordsInv
<1>1. CASE UNCHANGED <<task, run, dlq>>
  BY <1>0, <1>1 DEF RecordFollows
<1>2. CASE ReceiveEvents \/ ExpireCache
  BY <1>1, <1>2 DEF ReceiveEvents, ExpireCache
<1>3. ASSUME NEW t \in Task, NEW step \in Steps \ {"return", "bury", "buried", "success", "failure"},
             task[t].at \notin {"buried", "failure", "killed"} \/ step = "killed",
             TaskGoes(t, step) \/ Leaves(t, step),
             UNCHANGED dlq, UNCHANGED run \/ \E status \in Statuses : Records(t, status)
      PROVE  \A u \in Task : RecordFollows(u)'
  <2>1. RecordFollows(t)'
    BY <1>0, <1>3, GoesFacts DEF RecordFollows
  <2> QED BY <1>0, <1>3, <2>1, GoesFacts, AloneSuffices
<1>4. ASSUME NEW t \in Task, \/ Trigger(t) \/ Receive(t) \/ RecordStart(t) \/ Load(t)
                               \/ Notify(t) \/ FlowRaises(t) \/ RecordFailure(t)
                               \/ TaskRaises(t) \/ BuryFails(t) \/ HardKill(t)
      PROVE  \A u \in Task : RecordFollows(u)'
  <2> USE DEF Steps, Running, FlowSteps, Ends, Statuses
  <2>1. CASE Trigger(t) \/ Receive(t)
    BY <1>3, <2>1 DEF Trigger, Receive
  <2>2. CASE RecordStart(t) \/ RecordFailure(t)
    BY <1>3, <2>2 DEF RecordStart, RecordFailure
  <2>3. CASE Load(t) \/ Notify(t) \/ FlowRaises(t)
    BY <1>3, <2>3 DEF Load, Notify, FlowRaises
  <2>4. CASE TaskRaises(t) \/ BuryFails(t) \/ HardKill(t)
    BY <1>3, <2>4 DEF TaskRaises, BuryFails, HardKill
  <2> QED BY <1>4, <2>1, <2>2, <2>3, <2>4
<1>5. ASSUME NEW t \in Task, Transform(t) \/ Extract(t)
      PROVE  \A u \in Task : RecordFollows(u)'
  <2>1. /\ task[t].at \in {"transform", "extract"} /\ task'[t].at \in {"load", "transform"}
        /\ task'[t].kind = task[t].kind /\ task'[t].retries = task[t].retries
        /\ Alone(t) /\ UNCHANGED <<run, dlq>>
    <3>1. task \in [Task -> TaskRecord]
      BY <1>0 DEF TasksTypeOK
    <3>2. CASE Transform(t)
      <4>1. /\ task[t].at = "transform" /\ UNCHANGED <<run, dlq>>
            /\ task' = [task EXCEPT ![t].at = "load",
                                    ![t].agg = Aggregated(task[t].got)]
        BY <3>2, TransformFacts DEF RecordsInv
      <4> QED BY <3>1, <4>1 DEF Alone, TaskRecord
    <3>3. CASE Extract(t)
      BY <3>1, <3>3 DEF Extract, Alone, TaskRecord
    <3> QED BY <1>5, <3>2, <3>3
  <2> QED BY <1>0, <2>1, AloneSuffices DEF RecordFollows
<1>6. ASSUME NEW t \in Task, RunSample(t) \/ Return(t) \/ RecordCompletion(t) \/ GiveUp(t)
      PROVE  \A u \in Task : RecordFollows(u)'
  <2> USE DEF Steps, Running, FlowSteps, Ends, Statuses
  <2>1. CASE RunSample(t)
    BY <1>0, <2>1, GoesFacts, AloneSuffices DEF RunSample, RecordFollows
  <2>2. CASE Return(t)
    BY <1>0, <2>2, GoesFacts, AloneSuffices DEF Return, RecordFollows
  <2>0. task[t] \in TaskRecord /\ task[t].retries \in Attempts
    BY <1>0 DEF TasksTypeOK, TaskRecord
  <2>3. CASE RecordCompletion(t)
    <3>1. /\ task[t].at = "complete" /\ Alone(t)
          /\ task'[t].at = "return" /\ UNCHANGED dlq
          /\ task'[t].kind = task[t].kind /\ task'[t].retries = task[t].retries
          /\ \A i \in Attempts : i > task[t].retries => run'[t][i] = run[t][i]
      BY <1>0, <2>3, GoesFacts DEF RecordCompletion, RecordFollows
    <3>2. run'[t][task[t].retries] = "COMPLETED"
      BY <1>0, <2>0, <2>3 DEF RecordCompletion, Records, TasksTypeOK
    <3> QED BY <1>0, <3>1, <3>2, AloneSuffices DEF RecordFollows
  <2>4. CASE GiveUp(t)
    <3>1. task[t].kind # "sync" => task[t].retries = MaxRetries
      BY <2>0, <2>4 DEF GiveUp, RetriesLeft, Attempts
    <3>2. /\ task[t].at = "task_failed" /\ Alone(t) /\ UNCHANGED <<run, dlq>>
          /\ task'[t].at = IF task[t].kind = "sync" THEN "failure" ELSE "bury"
          /\ task'[t].kind = task[t].kind /\ task'[t].retries = task[t].retries
      BY <1>0, <2>4, GoesFacts DEF GiveUp
    <3> QED BY <1>0, <3>1, <3>2, AloneSuffices DEF RecordFollows
  <2> QED BY <1>6, <2>1, <2>2, <2>3, <2>4
<1>7. ASSUME NEW t \in Task, Bury(t)
      PROVE  \A u \in Task : RecordFollows(u)'
  <2>1. /\ task[t].at = "bury" /\ task[t].retries = MaxRetries /\ Alone(t)
        /\ UNCHANGED run
        /\ task'[t].kind = task[t].kind /\ task'[t].retries = task[t].retries
        /\ task[t].kind # "sync" /\ task'[t].at = "buried" /\ dlq'[t] = MaxRetries
    BY <1>0, <1>7 DEF Bury, RecordFollows, TaskGoes, TasksTypeOK, Alone, TaskRecord
  <2> QED BY <1>0, <2>1, AloneSuffices DEF RecordFollows, NotBuried
<1>9. ASSUME NEW t \in Task, FailBuried(t)
      PROVE  \A u \in Task : RecordFollows(u)'
  <2>1. /\ task[t].at = "buried" /\ Alone(t) /\ UNCHANGED <<run, dlq>>
        /\ task'[t].at = "failure"
        /\ task'[t].kind = task[t].kind /\ task'[t].retries = task[t].retries
    BY <1>0, <1>9, GoesFacts DEF FailBuried, Steps, Ends
  <2> QED BY <1>0, <2>1, AloneSuffices DEF RecordFollows
<1>8. ASSUME NEW t \in Task, Retry(t)
      PROVE  \A u \in Task : RecordFollows(u)'
  <2>1. /\ task[t].at = "task_failed" /\ task[t].retries < MaxRetries
        /\ UNCHANGED <<run, dlq>>
        /\ \/ task' = [task EXCEPT ![t].at = "queued", ![t].retries = @ + 1]
           \/ TaskGoes(t, "lost")
    BY <1>8 DEF Retry, RetriesLeft
  <2>2. CASE TaskGoes(t, "lost")
    BY <1>3, <2>1, <2>2 DEF Steps, Ends
  <2>3. CASE task' = [task EXCEPT ![t].at = "queued", ![t].retries = @ + 1]
    <3>1. task[t] \in TaskRecord /\ task[t].retries \in Nat
      BY <1>0 DEF TasksTypeOK, TaskRecord, Attempts
    <3>2. /\ Alone(t) /\ task'[t].at = "queued" /\ task'[t].kind = task[t].kind
          /\ task'[t].retries = task[t].retries + 1
      BY <1>0, <2>1, <2>3, <3>1 DEF TasksTypeOK, Alone, TaskRecord
    <3>3. RecordFollows(t)'
      BY <1>0, <2>1, <3>1, <3>2 DEF RecordFollows, Attempts
    <3> QED BY <3>2, <3>3, AloneSuffices
  <2> QED BY <2>1, <2>2, <2>3
<1> QED
  BY <1>1, <1>2, <1>4, <1>5, <1>6, <1>7, <1>8, <1>9 DEF WeeklyNext, TaskStep, weeklyVars

(* A task reported as failed is buried with all its attempts, and one        *)
(* reported as done has its completed run on record, whichever step of which *)
(* attempt failed and wherever a worker was killed, also between the commit  *)
(* of the dead letter and the failure (tasks.py, pipeline.py and dlq.py).    *)
THEOREM WeeklyReportsAreOnRecord == WeeklySpec => []ReportedEndsAreOnRecord
<1>1. WeeklyInit => RecordsInv
  BY WeeklyInitTypeOK, WeeklyAssumption
  DEF WeeklyInit, RecordsInv, RecordFollows, FromFlow, NotBuried
<1>2. RecordsInv /\ [WeeklyNext]_weeklyVars => RecordsInv'
  BY WeeklyTypeStep, RecordsStep DEF RecordsInv
<1>3. RecordsInv => ReportedEndsAreOnRecord
  BY DEF RecordsInv, RecordFollows, ReportedEndsAreOnRecord, SuccessIsRecorded,
         FailureIsBuried, FromFlow
<1> QED BY <1>1, <1>2, <1>3, PTL DEF WeeklySpec

(***************************************************************************)
(* Runs of the pipeline that do not overlap.                               *)
(***************************************************************************)

(* The cache knows sets of stored events by their number, the week's row     *)
(* counts stored events, and a run in flow has at least those in hand.       *)
CacheSound == \A n \in DOMAIN cache : cache[n] \subseteq events /\ CacheKey(cache[n]) = n
InHand(t) ==
    /\ task[t].at = "transform" =>
          /\ task[t].got \subseteq events
          /\ metrics \subseteq task[t].got
          /\ CacheKey(task[t].got) \in DOMAIN cache =>
                cache[CacheKey(task[t].got)] = task[t].got
    /\ task[t].at = "load" => /\ task[t].agg \subseteq events
                              /\ metrics \subseteq task[t].agg

SerialInv == /\ WeeklyTypeOK
             /\ CacheSound
             /\ metrics \subseteq events
             /\ \A t \in Task : InHand(t)

(* As many stored events as there are: all of them.                          *)
LEMMA CachedIsAll ==
  ASSUME SerialInv, CacheKey(events) \in DOMAIN cache
  PROVE  cache[CacheKey(events)] = events
<1> DEFINE known == cache[CacheKey(events)]
<1>1. known \in SUBSET events /\ Cardinality(known) = Cardinality(events)
  BY DEF SerialInv, CacheSound, CacheKey
<1>2. IsFiniteSet(events)
  BY SizeInRange DEF SerialInv, WeeklyTypeOK
<1> HIDE DEF known
<1>3. known = events
  BY <1>1, <1>2, FS_Subset
<1> QED BY <1>3 DEF known

(* A step that takes no task into the flow leaves in hand what was.          *)
LEMMA OutOfFlow ==
  ASSUME SerialInv, NEW t \in Task, Clerical(t), ~Extract(t)
  PROVE  \A u \in Task : InHand(u)'
<1>1. UNCHANGED <<events, cache, metrics>>
  BY ClericalFrame
<1>2. /\ task'[t].at \notin {"transform", "load"}
      /\ \A u \in Task \ {t} : task'[u] = task[u]
  <2>1. task \in [Task -> TaskRecord]
    BY WeeklyTypeParts DEF SerialInv, TasksTypeOK
  <2>2. \A step \in {"queued", "unsent", "start", "extract", "complete", "return", "success",
                    "record_failed", "task_failed", "lost", "failure", "bury",
                    "buried", "unburied", "killed"} :
           TaskGoes(t, step) \/ Leaves(t, step) =>
              /\ task'[t].at \notin {"transform", "load"}
              /\ \A u \in Task \ {t} : task'[u] = task[u]
    BY <2>1 DEF TaskGoes, Leaves, TaskRecord
  <2>3. CASE Retry(t)
    BY <2>1, <2>2, <2>3 DEF Retry, TaskRecord
  <2>4. CASE Trigger(t) \/ Receive(t) \/ RunSample(t) \/ RecordStart(t)
    BY <2>2, <2>4 DEF Trigger, Receive, RunSample, RecordStart
  <2>5. CASE Notify(t) \/ RecordCompletion(t) \/ Return(t) \/ FlowRaises(t)
    BY <2>2, <2>5 DEF Notify, RecordCompletion, Return, FlowRaises
  <2>6. CASE RecordFailure(t) \/ TaskRaises(t) \/ HardKill(t)
    BY <2>2, <2>6 DEF RecordFailure, TaskRaises, HardKill
  <2>7. CASE GiveUp(t) \/ Buries(t)
    BY <2>2, <2>7 DEF GiveUp, Buries, Bury, BuryFails, FailBuried
  <2> QED BY <2>3, <2>4, <2>5, <2>6, <2>7 DEF Clerical
<1> QED BY <1>1, <1>2 DEF SerialInv, InHand

(* While flows come one at a time, a cached result is made of as many       *)
(* stored events as its key says, and no metric counts anything else.        *)
LEMMA SerialStep ==
  ASSUME SerialInv, OneFlow, [WeeklyNext]_weeklyVars
  PROVE  SerialInv'
<1> SUFFICES CacheSound' /\ metrics' \subseteq events' /\ \A u \in Task : InHand(u)'
  BY WeeklyTypeStep DEF SerialInv
<1>0. task \in [Task -> TaskRecord] /\ IsFiniteSet(events)
  BY WeeklyTypeParts, SizeInRange DEF SerialInv, TasksTypeOK, DataTypeOK
<1>1. CASE UNCHANGED weeklyVars
  BY <1>1 DEF weeklyVars, SerialInv, CacheSound, InHand
<1>2. ASSUME NEW t \in Task, Clerical(t), ~Extract(t)
      PROVE  CacheSound' /\ metrics' \subseteq events' /\ \A u \in Task : InHand(u)'
  BY <1>2, OutOfFlow, ClericalFrame DEF SerialInv, CacheSound
<1>3. ASSUME NEW t \in Task, Extract(t)
      PROVE  CacheSound' /\ metrics' \subseteq events' /\ \A u \in Task : InHand(u)'
  <2>1. /\ task'[t].at = "transform" /\ task'[t].got = events
        /\ \A u \in Task \ {t} : task'[u] = task[u]
        /\ UNCHANGED <<events, cache, metrics>>
    BY <1>0, <1>3 DEF Extract, TaskRecord
  <2>2. InHand(t)'
    BY <2>1, CachedIsAll DEF SerialInv, InHand
  <2> QED BY <2>1, <2>2 DEF SerialInv, CacheSound, InHand
<1>4. ASSUME NEW t \in Task, Transform(t)
      PROVE  CacheSound' /\ metrics' \subseteq events' /\ \A u \in Task : InHand(u)'
  <2> DEFINE got == task[t].got
  <2>1. Aggregated(got) = got /\ got \subseteq events /\ metrics \subseteq got
    BY <1>4 DEF SerialInv, InHand, Transform, Aggregated
  <2>2. /\ DOMAIN cache' = DOMAIN cache \cup {CacheKey(got)}
        /\ \A n \in DOMAIN cache' : cache'[n] = IF n = CacheKey(got) THEN got ELSE cache[n]
        /\ task' = [task EXCEPT ![t].at = "load", ![t].agg = got]
        /\ UNCHANGED <<events, metrics>>
    BY <1>4, <2>1, TransformFacts DEF SerialInv
  <2>3. \A u \in Task \ {t} : task'[u] = task[u] /\ task[u].at \notin {"transform", "load"}
    BY <1>0, <1>4, <2>2 DEF OneFlow, InFlow, Transform
  <2>4. task'[t].at = "load" /\ task'[t].agg = got
    BY <1>0, <2>2 DEF TaskRecord
  <2>5. CacheSound'
    BY <2>1, <2>2 DEF SerialInv, CacheSound
  <2> HIDE DEF got
  <2> QED BY <2>1, <2>2, <2>3, <2>4, <2>5 DEF SerialInv, InHand
<1>5. ASSUME NEW t \in Task, Load(t)
      PROVE  CacheSound' /\ metrics' \subseteq events' /\ \A u \in Task : InHand(u)'
  <2>1. /\ task'[t].at = "notify" /\ UNCHANGED <<events, cache>>
        /\ \A u \in Task \ {t} : task'[u] = task[u] /\ task[u].at \notin {"transform", "load"}
        /\ metrics' = metrics \/ metrics' = task[t].agg
    BY <1>0, <1>5 DEF Load, Leaves, OneFlow, InFlow, TaskRecord
  <2>2. metrics' \subseteq events
    BY <1>5, <2>1 DEF Load, SerialInv, InHand
  <2> QED BY <2>1, <2>2 DEF SerialInv, CacheSound, InHand
<1>6. CASE ReceiveEvents
  BY <1>6 DEF ReceiveEvents, SerialInv, CacheSound, InHand
<1>7. CASE ExpireCache
  BY <1>7 DEF ExpireCache, SerialInv, CacheSound, InHand
<1> QED
  BY <1>1, <1>2, <1>3, <1>4, <1>5, <1>6, <1>7 DEF WeeklyNext, TaskStep, Clerical, Buries

(* Runs that do not overlap never take an event out of the week's row again, *)
(* although the transformation is cached under the number of its rows        *)
(* (_transformation_cache_key): events are only added, so that as many       *)
(* stored events are the same events.                                        *)
THEOREM WeeklySerialRunsOnlyAdd == WeeklySpec => SerialRunsOnlyAdd
<1>1. WeeklyInit => SerialInv
  BY WeeklyInitTypeOK DEF WeeklyInit, SerialInv, CacheSound, InHand
<1>2. SerialInv /\ OneFlow /\ [WeeklyNext]_weeklyVars => SerialInv'
  BY SerialStep
<1>3. SerialInv => LoadsAdd
  BY DEF SerialInv, InHand, LoadsAdd
<1> QED BY <1>1, <1>2, <1>3, PTL DEF WeeklySpec, SerialRunsOnlyAdd

(* Whichever part a behaviour follows, its rows, files, tasks and caches keep*)
(* their types: every entry of the cache of the weekly pipeline is a set of  *)
(* events under a number of events that there are.                           *)
THEOREM JobsTyped == MCSpec => []JobsTypeOK
<1> DEFINE Inv == NightlyInv /\ WeeklyTypeOK
<1>1. MCInit => Inv
  BY NightlyInitOK, WeeklyInitTypeOK DEF MCInit
<1>2. Inv /\ [MCNext]_jobVars => Inv'
  <2> SUFFICES ASSUME Inv, [MCNext]_jobVars PROVE Inv'
    OBVIOUS
  <2>1. [NightlyNext]_nightlyVars /\ [WeeklyNext]_weeklyVars
    BY DEF MCNext, jobVars
  <2> QED BY <2>1, NightlyInvStep, WeeklyTypeStep
<1>3. Inv => JobsTypeOK
  BY DEF NightlyInv, JobsTypeOK
<1> QED BY <1>1, <1>2, <1>3, PTL DEF MCSpec
=============================================================================

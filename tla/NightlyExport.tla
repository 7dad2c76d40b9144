---------------------------- MODULE NightlyExport ----------------------------
(***************************************************************************)
(* The nightly export of telemetry (scripts/nightly_export.py) over the    *)
(* table job_runs (services/job_runner.py).  A launch is one process of the*)
(* script, started by cron or by hand; its steps are the transactions and  *)
(* file operations between which other launches run.                       *)
(***************************************************************************)
EXTENDS FiniteSets, Naturals

CONSTANTS
    Launch,   \* the processes that will ever be started
    Date      \* the dates they may be asked to export

VARIABLES
    job,      \* job[l]: status of the job_runs row launch l inserted
    launch,   \* launch[l]: where launch l is, and the date it exports
    csv       \* csv[d]: the backup file of date d

nightlyVars == <<job, launch, csv>>

(* Steps inside the try block, with the handler that ends the row.          *)
Guarded  == {"export", "query", "writing", "kpi", "finish"}
Working  == Guarded \cup {"fail"}
Outcomes == {"locked", "skipped", "completed", "failed"}
LaunchSteps    == {"idle", "lock", "idem", "insert", "killed"} \cup Working \cup Outcomes

NightlyTypeOK ==
    /\ job \in [Launch -> {"none", "processing", "completed", "failed"}]
    /\ launch \in [Launch -> [at : LaunchSteps, date : Date]]
    /\ csv \in [Date -> {"absent", "partial", "written"}]

NightlyInit == /\ job = [l \in Launch |-> "none"]
               /\ launch \in [Launch -> [at : {"idle"}, date : Date]]
               /\ csv = [d \in Date |-> "absent"]

LaunchGoes(l, step) == launch' = [launch EXCEPT ![l].at = step]
RowIs(l, status) == job' = [job EXCEPT ![l] = status]

(***************************************************************************)
(* Lock, idempotency and row: three transactions.                          *)
(***************************************************************************)
Start(l) == /\ launch[l].at = "idle"
            /\ LaunchGoes(l, "lock")
            /\ UNCHANGED <<job, csv>>

(* has_processing_lock: any date counts.                                     *)
HasProcessingLock == \E k \in Launch : job[k] = "processing"

CheckLock(l) == /\ launch[l].at = "lock"
                /\ LaunchGoes(l, IF HasProcessingLock THEN "locked" ELSE "idem")
                /\ UNCHANGED <<job, csv>>

\* Faulty variant: nothing counts as done.
NeverCompleted(d)      == FALSE
HasCompletedForDate(d) == \E k \in Launch : /\ launch[k].date = d
                                            /\ job[k] = "completed"

CheckCompleted(l) ==
    /\ launch[l].at = "idem"
    /\ LaunchGoes(l, IF HasCompletedForDate(launch[l].date) THEN "skipped" ELSE "insert")
    /\ UNCHANGED <<job, csv>>

\* Faulty variant: the row is created with the default status of its table.
CreateRowPending(l) == /\ launch[l].at = "insert"
                       /\ RowIs(l, "pending")
                       /\ LaunchGoes(l, "export")
                       /\ UNCHANGED csv
CreateRow(l) == /\ launch[l].at = "insert"
                /\ RowIs(l, "processing")
                /\ LaunchGoes(l, "export")
                /\ UNCHANGED csv

(***************************************************************************)
(* The guarded work.                                                       *)
(***************************************************************************)

(* An existing file is taken as it is, complete or not.                      *)
LookForCsv(l) == /\ launch[l].at = "export"
                 /\ LaunchGoes(l, IF csv[launch[l].date] = "absent" THEN "query" ELSE "kpi")
                 /\ UNCHANGED <<job, csv>>

(* to_csv truncates the file, then fills it.                                 *)
OpenCsv(l) == /\ launch[l].at = "query"
              /\ csv' = [csv EXCEPT ![launch[l].date] = "partial"]
              /\ LaunchGoes(l, "writing")
              /\ UNCHANGED job

FillCsv(l) == /\ launch[l].at = "writing"
              /\ csv' = [csv EXCEPT ![launch[l].date] = "written"]
              /\ LaunchGoes(l, "kpi")
              /\ UNCHANGED job

(* The pipeline in a subprocess reads the events and stores nothing.         *)
RunKpiPipeline(l) == /\ launch[l].at = "kpi"
                     /\ LaunchGoes(l, "finish")
                     /\ UNCHANGED <<job, csv>>

MarkCompleted(l) == /\ launch[l].at = "finish"
                    /\ RowIs(l, "completed")
                    /\ LaunchGoes(l, "completed")
                    /\ UNCHANGED csv

(***************************************************************************)
(* Failures.                                                               *)
(***************************************************************************)
\* Faulty variant: a pipeline that exits with an error is only logged.
RaisesUnlessKpi(l) == /\ launch[l].at \in Guarded
                      /\ LaunchGoes(l, IF launch[l].at = "kpi" THEN "failed" ELSE "fail")
                      /\ UNCHANGED <<job, csv>>
\* Faulty variant: a launch that fails to export closes its row as done.
RaisesDone(l) == /\ launch[l].at \in Guarded
                 /\ RowIs(l, "completed")
                 /\ LaunchGoes(l, "completed")
                 /\ UNCHANGED csv
Raises(l) == /\ launch[l].at \in Guarded
             /\ LaunchGoes(l, "fail")
             /\ UNCHANGED <<job, csv>>

(* mark_as_completed commits and then refreshes the row, which may raise.    *)
CompletedThenRaises(l) == /\ launch[l].at = "finish"
                          /\ RowIs(l, "completed")
                          /\ LaunchGoes(l, "fail")
                          /\ UNCHANGED csv

MarkFailed(l) == /\ launch[l].at = "fail"
                 /\ RowIs(l, "failed")
                 /\ LaunchGoes(l, "failed")
                 /\ UNCHANGED csv

(* The process is killed, or it exits without having written its failure:   *)
(* mark_as_failed raises, or create_job_run does after its commit.          *)
Killed(l) == /\ launch[l].at \in Working \cup {"lock", "idem", "insert"}
             /\ LaunchGoes(l, "killed")
             /\ UNCHANGED <<job, csv>>

LaunchStep(l) == \/ CheckLock(l) \/ CheckCompleted(l) \/ CreateRow(l)
                 \/ LookForCsv(l) \/ OpenCsv(l) \/ FillCsv(l)
                 \/ RunKpiPipeline(l) \/ MarkCompleted(l)
                 \/ Raises(l) \/ CompletedThenRaises(l) \/ MarkFailed(l)

NightlyNext == \E l \in Launch : Start(l) \/ LaunchStep(l) \/ Killed(l)

NightlySpec == NightlyInit /\ [][NightlyNext]_nightlyVars

(***************************************************************************)
(* Properties.                                                             *)
(***************************************************************************)

(* The "anti-zombie" claim of run_nightly_export, as far as it goes: a row   *)
(* that keeps the lock belongs to a launch still at work, whichever step of *)
(* the work raises - or to one that died, and then nothing releases it.      *)
ProcessingHasOwner ==
    \A l \in Launch : job[l] = "processing" => launch[l].at \in Working \cup {"killed"}

(* A date shown as exported has a backup file, and the file is whole unless  *)
(* a launch for the date is writing it or was stopped while it wrote.        *)
CompletedHasBackup ==
    \A l \in Launch : job[l] = "completed" =>
        LET d == launch[l].date
        IN  \/ csv[d] = "written"
            \/ /\ csv[d] = "partial"
               /\ \E k \in Launch : /\ launch[k].date = d
                                    /\ launch[k].at \in {"writing", "fail", "failed", "killed"}

(* Launches that have looked at the lock and inserted no row yet.            *)
Window == {l \in Launch : launch[l].at \in {"idem", "insert"}}
Spaced == \A k, l \in Window : k = l

OneExport ==
    \A k, l \in Launch : k # l =>
        /\ ~(job[k] = "processing" /\ job[l] = "processing")
        /\ launch[k].date = launch[l].date =>
              ~(job[k] = "completed" /\ job[l] = "completed")

(* What the rows of job_runs give although looking and inserting are apart:  *)
(* as long as no two launches are between the two at once, one export runs   *)
(* at a time and a date is exported once.                                    *)
SpacedLaunchesExportOnce == ([]Spaced) => []OneExport
=============================================================================

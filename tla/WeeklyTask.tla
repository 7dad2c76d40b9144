----------------------------- MODULE WeeklyTask ------------------------------
(***************************************************************************)
(* Background tasks of the API (tasks.py, dlq.py, routes/tasks.py,         *)
(* routes/reporting.py) and the weekly performance pipeline they run       *)
(* (data/pipelines/pipeline.py): retries, the run record, the cache of the *)
(* transformation, the upsert, the dead letter queue.  One week and one    *)
(* warehouse and client, so that the metrics are one row.                  *)
(***************************************************************************)
EXTENDS FiniteSets, Naturals

CONSTANTS
    Task,        \* the requests for a run that will ever be made
    Event,       \* telemetry events of the week
    MaxRetries   \* max_retries of the task decorator

ASSUME WeeklyAssumption == MaxRetries \in Nat /\ IsFiniteSet(Event)

VARIABLES
    events,    \* the rows of telemetry_events
    task,      \* task[t]: kind, where it is, its retry count and its data frames
    run,       \* run[t][i]: execution_status of the record of attempt i
    cache,     \* cache[n]: what the transformation of n rows is known to give
    metrics,   \* the events counted in the row of the weekly table
    dlq        \* dlq[t]: the retry count it was buried with, or NotBuried

weeklyVars == <<events, task, run, cache, metrics, dlq>>

Kinds == {"weekly", "sync", "sample", "doomed"}
Attempts == 0 .. MaxRetries
NotBuried == MaxRetries + 1

(* Steps in the flow's try block, and those of the task around the flow.     *)
FlowSteps == {"extract", "transform", "load", "notify", "complete"}
Running   == {"start", "record_failed", "return", "task_failed", "bury", "buried"} \cup FlowSteps
Ends      == {"unsent", "success", "failure", "unburied", "lost", "killed"}

WeeklyTypeOK ==
    /\ events \in SUBSET Event
    /\ task \in [Task -> [kind : Kinds, at : {"idle", "queued"} \cup Running \cup Ends,
                          retries : Attempts, got : SUBSET Event, agg : SUBSET Event]]
    /\ run \in [Task -> [Attempts -> {"none", "RUNNING", "COMPLETED", "FAILED"}]]
    /\ \A n \in DOMAIN cache : n \in 0 .. Cardinality(Event) /\ cache[n] \in SUBSET Event
    /\ metrics \in SUBSET Event
    /\ dlq \in [Task -> Attempts \cup {NotBuried}]

WeeklyInit ==
    /\ events = {}
    /\ task \in [Task -> [kind : Kinds, at : {"idle"}, retries : {0},
                          got : {{}}, agg : {{}}]]
    /\ run = [t \in Task |-> [i \in Attempts |-> "none"]]
    /\ cache = [n \in {} |-> {}]
    /\ metrics = {}
    /\ dlq = [t \in Task |-> NotBuried]

TaskGoes(t, step) == task' = [task EXCEPT ![t].at = step]
(* Goes on without the data frames, which nothing reads any more.            *)
Leaves(t, step) ==
    task' = [task EXCEPT ![t] = [@ EXCEPT !.at = step, !.got = {}, !.agg = {}]]
Records(t, status) == run' = [run EXCEPT ![t][task[t].retries] = status]

(***************************************************************************)
(* The clients.                                                            *)
(***************************************************************************)

(* POST /telemetry/events: the valid events of a batch are one transaction;  *)
(* an event that is stored already makes the whole batch fail.               *)
ReceiveEvents == \E batch \in SUBSET Event \ {{}} :
                    /\ batch \cap events = {}
                    /\ events' = events \cup batch
                    /\ UNCHANGED <<task, run, cache, metrics, dlq>>

(* The task goes to the broker, or, if that cannot be reached, nowhere under *)
(* an id made up for the answer; sync runs the pipeline in the request.      *)
Trigger(t) == /\ task[t].at = "idle"
              /\ \E step \in IF task[t].kind = "sync" THEN {"start"}
                                                      ELSE {"queued", "unsent"} :
                    TaskGoes(t, step)
              /\ UNCHANGED <<events, run, cache, metrics, dlq>>

(* A worker takes the message, which the broker forgets.                     *)
Receive(t) == /\ task[t].at = "queued"
              /\ TaskGoes(t, "start")
              /\ UNCHANGED <<events, run, cache, metrics, dlq>>

(* execute_sample_heavy_task does nothing, or fails.                         *)
RunSample(t) == /\ task[t].at = "start"
                /\ task[t].kind \in {"sample", "doomed"}
                /\ TaskGoes(t, IF task[t].kind = "doomed" THEN "task_failed" ELSE "success")
                /\ UNCHANGED <<events, run, cache, metrics, dlq>>

(***************************************************************************)
(* The flow.                                                               *)
(***************************************************************************)
RecordStart(t) == /\ task[t].at = "start"
                  /\ task[t].kind \in {"weekly", "sync"}
                  /\ Records(t, "RUNNING")
                  /\ TaskGoes(t, "extract")
                  /\ UNCHANGED <<events, cache, metrics, dlq>>

\* Faulty variant: only the events that no run has counted yet.
ExtractNew(t) == /\ task[t].at = "extract"
                 /\ task' = [task EXCEPT ![t].at = "transform", ![t].got = events \ metrics]
                 /\ UNCHANGED <<events, run, cache, metrics, dlq>>
Extract(t) == /\ task[t].at = "extract"
              /\ task' = [task EXCEPT ![t].at = "transform", ![t].got = events]
              /\ UNCHANGED <<events, run, cache, metrics, dlq>>

(* _transformation_cache_key: of the rows, only their number.                *)
CacheKey(got) == Cardinality(got)

Transform(t) ==
    LET got == task[t].got
        key == CacheKey(got)
        agg == IF key \in DOMAIN cache THEN cache[key] ELSE got
    IN  /\ task[t].at = "transform"
        /\ task' = [task EXCEPT ![t].at = "load", ![t].agg = agg]
        /\ cache' = [n \in DOMAIN cache \cup {key} |-> IF n = key THEN agg ELSE cache[n]]
        /\ UNCHANGED <<events, run, metrics, dlq>>

(* A cached result lasts fifteen minutes.                                    *)
ExpireCache == \E n \in DOMAIN cache :
                  /\ cache' = [k \in DOMAIN cache \ {n} |-> cache[k]]
                  /\ UNCHANGED <<events, task, run, metrics, dlq>>

(* An upsert of what was computed, which overwrites; no rows, no upsert.     *)
Load(t) == /\ task[t].at = "load"
           /\ metrics' = IF task[t].agg = {} THEN metrics ELSE task[t].agg
           /\ Leaves(t, "notify")
           /\ UNCHANGED <<events, run, cache, dlq>>

(* The failure of a notification is looked at and dropped.                   *)
Notify(t) == /\ task[t].at = "notify"
             /\ TaskGoes(t, "complete")
             /\ UNCHANGED <<events, run, cache, metrics, dlq>>

RecordCompletion(t) == /\ task[t].at = "complete"
                       /\ Records(t, "COMPLETED")
                       /\ TaskGoes(t, "return")
                       /\ UNCHANGED <<events, cache, metrics, dlq>>

Return(t) == /\ task[t].at = "return"
             /\ TaskGoes(t, "success")
             /\ UNCHANGED <<events, run, cache, metrics, dlq>>

(***************************************************************************)
(* Failures: an exception, the soft time limit among them.                 *)
(***************************************************************************)

(* Inside the flow it is recorded first; the record may fail too.            *)
FlowRaises(t) == /\ task[t].at \in FlowSteps
                 /\ Leaves(t, "record_failed")
                 /\ UNCHANGED <<events, run, cache, metrics, dlq>>

RecordFailure(t) == /\ task[t].at = "record_failed"
                    /\ Records(t, "FAILED") \/ UNCHANGED run
                    /\ TaskGoes(t, "task_failed")
                    /\ UNCHANGED <<events, cache, metrics, dlq>>

(* Outside it, before the record is made or after the flow has returned.     *)
TaskRaises(t) == /\ task[t].at \in {"start", "return"}
                 /\ task[t].kind \in {"weekly", "sync"}
                 /\ TaskGoes(t, "task_failed")
                 /\ UNCHANGED <<events, run, cache, metrics, dlq>>

\* Faulty variant: self.retry is asked once too often, and fails the task.
RetriesLeftOrLast(t) == task[t].retries <= MaxRetries
RetriesLeft(t) == task[t].retries < MaxRetries

\* Faulty variant: the attempt is queued again as it is.
RetryUncounted(t) == /\ task[t].at = "task_failed"
                     /\ task[t].kind # "sync"
                     /\ RetriesLeft(t)
                     /\ TaskGoes(t, "queued")
                     /\ UNCHANGED <<events, run, cache, metrics, dlq>>
(* self.retry sends a new message; the broker may refuse it, or the soft      *)
(* limit strike first.  Beyond the limit of attempts it raises instead, and  *)
(* nothing has been buried.                                                 *)
Retry(t) == /\ task[t].at = "task_failed"
            /\ task[t].kind # "sync"
            /\ RetriesLeft(t)
            /\ IF task[t].retries < MaxRetries
                  THEN \/ task' = [task EXCEPT ![t].at = "queued", ![t].retries = @ + 1]
                       \/ TaskGoes(t, "lost")
                  ELSE TaskGoes(t, "failure")
            /\ UNCHANGED <<events, run, cache, metrics, dlq>>

(* A synchronous run answers 500; the last attempt of a task is buried.      *)
GiveUp(t) == /\ task[t].at = "task_failed"
             /\ task[t].kind = "sync" \/ ~RetriesLeft(t)
             /\ TaskGoes(t, IF task[t].kind = "sync" THEN "failure" ELSE "bury")
             /\ UNCHANGED <<events, run, cache, metrics, dlq>>

(* The dead letter is committed, in a new row or over that of the same id.   *)
Bury(t) == /\ task[t].at = "bury"
           /\ dlq' = [dlq EXCEPT ![t] = task[t].retries]
           /\ TaskGoes(t, "buried")
           /\ UNCHANGED <<events, run, cache, metrics>>

(* save_to_dlq raises before its commit: the task fails with no dead letter. *)
BuryFails(t) == /\ task[t].at = "bury"
                /\ TaskGoes(t, "unburied")
                /\ UNCHANGED <<events, run, cache, metrics, dlq>>

(* After the commit the task raises MaxRetriesExceededError, or whatever     *)
(* reading the committed row again raises: it fails either way.              *)
FailBuried(t) == /\ task[t].at = "buried"
                 /\ TaskGoes(t, "failure")
                 /\ UNCHANGED <<events, run, cache, metrics, dlq>>

(* The hard time limit or a dead worker: no handler runs, and the message is *)
(* gone.                                                                     *)
HardKill(t) == /\ task[t].at \in Running
               /\ Leaves(t, "killed")
               /\ UNCHANGED <<events, run, cache, metrics, dlq>>

TaskStep(t) == \/ Receive(t) \/ RunSample(t) \/ RecordStart(t) \/ Extract(t)
               \/ Transform(t) \/ Load(t) \/ Notify(t) \/ RecordCompletion(t)
               \/ Return(t) \/ FlowRaises(t) \/ RecordFailure(t) \/ TaskRaises(t)
               \/ Retry(t) \/ GiveUp(t)
               \/ Bury(t) \/ BuryFails(t) \/ FailBuried(t)

WeeklyNext == \/ ReceiveEvents \/ ExpireCache
              \/ \E t \in Task : Trigger(t) \/ TaskStep(t) \/ HardKill(t)

WeeklySpec == WeeklyInit /\ [][WeeklyNext]_weeklyVars

(***************************************************************************)
(* Properties.                                                             *)
(***************************************************************************)

(* A task that fails after giving up is in the dead letter queue, unless it  *)
(* was the saving of the dead letter that failed; and what is in the queue   *)
(* had all its attempts, and failed or was killed before it could say so.    *)
FailureIsBuried ==
    \A t \in Task :
        /\ task[t].at = "failure" /\ task[t].kind # "sync" => dlq[t] = MaxRetries
        /\ dlq[t] # NotBuried =>
              /\ dlq[t] = MaxRetries /\ task[t].retries = MaxRetries
              /\ task[t].at \in {"buried", "failure", "killed"}

(* A task reported as done has a completed run on record, that of its last   *)
(* attempt.                                                                  *)
SuccessIsRecorded ==
    \A t \in Task : task[t].at = "success" /\ task[t].kind \in {"weekly", "sync"} =>
        /\ run[t][task[t].retries] = "COMPLETED"
        /\ \A i \in Attempts : i > task[t].retries => run[t][i] = "none"

(* What a worker reports of a task, a success or a failure, agrees with the  *)
(* run records and the dead letters.  Nothing is said of the ends that no    *)
(* handler sees: a message never sent or lost, a killed worker; nor of a     *)
(* failure to save the dead letter itself.                                   *)
ReportedEndsAreOnRecord == FailureIsBuried /\ SuccessIsRecorded

(* No two runs of the flow between reading the events and loading them.      *)
InFlow == {t \in Task : task[t].at \in {"transform", "load"}}
OneFlow == \A s, t \in InFlow : s = t
LoadsAdd == \A t \in Task : task[t].at = "load" /\ task[t].agg # {} =>
                               metrics \subseteq task[t].agg

(* A load overwrites what is there.  Runs that do not overlap never take an  *)
(* event out of the metrics again, however often they fail and are repeated. *)
SerialRunsOnlyAdd == ([]OneFlow) => []LoadsAdd

(* A task that was sent comes to an end while workers live: the number of    *)
(* attempts is limited, whichever step fails.                                *)
TasksSettle == \A t \in Task : (task[t].at = "queued") ~> (task[t].at \in Ends)
=============================================================================

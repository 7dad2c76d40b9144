-------------------------- MODULE MCBackgroundJobs ---------------------------
(***************************************************************************)
(* The nightly export and the background tasks for the model checker.  They*)
(* write different tables and share no step, so a behaviour follows one of *)
(* them (focus) and leaves the other in its initial state: TLC explores the*)
(* sum of the two state spaces and not their product.                      *)
(***************************************************************************)
EXTENDS NightlyExport, WeeklyTask

CONSTANT Weekly  \* the tasks that run the weekly pipeline from the queue

VARIABLE focus

jobVars == <<nightlyVars, weeklyVars, focus>>

MCInit == /\ NightlyInit /\ WeeklyInit
          /\ \A t \in Task : (task[t].kind = "weekly") <=> (t \in Weekly)
          /\ \/ focus = "nightly" /\ \A t \in Task \ Weekly : task[t].kind = "sync"
             \/ focus = "weekly" /\ \A l \in Launch : launch[l].date = (CHOOSE d \in Date : TRUE)

MCNext == /\ UNCHANGED focus
          /\ \/ focus = "nightly" /\ NightlyNext /\ UNCHANGED weeklyVars
             \/ focus = "weekly" /\ WeeklyNext /\ UNCHANGED nightlyVars

(* Workers and requests go on with what they have begun.                     *)
TasksRun ==
    \A t \in Task : WF_jobVars(/\ focus = "weekly" /\ TaskStep(t)
                               /\ UNCHANGED <<nightlyVars, focus>>)

MCSpec == MCInit /\ [][MCNext]_jobVars /\ TasksRun

(* The types of both parts.                                                  *)
JobsTypeOK == NightlyTypeOK /\ WeeklyTypeOK
=============================================================================

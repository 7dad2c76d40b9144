---------------------------- MODULE ApprovalGate -----------------------------
(***************************************************************************)
(* The human approval gate of services/security/hitl.py: engines and agents*)
(* submit critical actions, people decide on them, and a caller executes   *)
(* them.  The lock of the gate covers single assignments; the status is    *)
(* read before it, so calls of several threads interleave between the check*)
(* and the change.                                                         *)
(***************************************************************************)
EXTENDS FiniteSets, Naturals

CONSTANTS
    Action,    \* the actions that will ever be submitted
    Person,    \* people who request and decide
    Engine,    \* agents, engines and system processes
    Decision,  \* the calls of approve and reject that will ever be made
    Execution  \* the calls of execute that will ever be made

ASSUME GateAssumption == /\ Person \cap Engine = {}
                         /\ IsFiniteSet(Decision) /\ IsFiniteSet(Execution)

VARIABLES
    action,    \* action[a]: the record of the gate, if a is submitted
    decision,  \* decision[d]: a call of approve or reject
    execution  \* execution[e]: a call of execute

gateVars == <<action, decision, execution>>

Identity     == Person \cup Engine
Unconditional == {"cross_brand_data_share", "data_deletion", "external_send"}
ActionType   == {"return_approval", "high_value_dispatch", "carrier_change"}
                    \cup Unconditional
ActionStatus == {"absent", "auto_approved", "pending", "approved", "rejected", "executed"}

GateTypeOK ==
    /\ action \in [Action -> [type : ActionType, requester : Identity, human : BOOLEAN,
                              status : ActionStatus]]
    /\ decision \in [Decision -> [of : Action, by : Identity, approve : BOOLEAN,
                                  at : {"new", "checked", "decided", "denied"}]]
    /\ execution \in [Execution -> [of : Action,
                                    at : {"new", "running", "ran", "executed", "refused"}]]
    /\ \A a \in Action : action[a].status \in {"pending", "approved", "rejected"} =>
                            action[a].human

GateInit ==
    /\ action \in [Action -> [type : ActionType, requester : Identity, human : {FALSE},
                              status : {"absent"}]]
    /\ decision \in [Decision -> [of : Action, by : Identity, approve : BOOLEAN,
                                  at : {"new"}]]
    /\ execution \in [Execution -> [of : Action, at : {"new"}]]

(* evaluate_policy: high stands for an amount over its threshold, a return   *)
(* across the border, a shipment under way.                                  *)
RequiresHuman(type, high)  == high \/ type \in Unconditional

Submit(a) == /\ action[a].status = "absent"
             /\ \E high \in BOOLEAN :
                   LET human == RequiresHuman(action[a].type, high) IN
                   action' = [action EXCEPT
                       ![a].human = human,
                       ![a].status = IF human THEN "pending" ELSE "auto_approved"]
             /\ UNCHANGED <<decision, execution>>

DecisionGoes(d, from, to) == /\ decision[d].at = from
                             /\ decision' = [decision EXCEPT ![d].at = to]

\* Faulty variant: whoever asks may also decide.
AnyPerson(d) == decision[d].by \in Person
(* is_automated_actor, and the four eyes.                                    *)
Entitled(d)  == decision[d].by \in Person \ {action[decision[d].of].requester}

(* _decide, up to the lock.                                                  *)
CheckDecision(d) ==
    /\ DecisionGoes(d, "new", IF action[decision[d].of].status = "pending" /\ Entitled(d)
                              THEN "checked" ELSE "denied")
    /\ UNCHANGED <<action, execution>>

(* Under the lock: the status is not looked at again.                        *)
Decide(d) ==
    /\ DecisionGoes(d, "checked", "decided")
    /\ action' = [action EXCEPT ![decision[d].of].status =
                     IF decision[d].approve THEN "approved" ELSE "rejected"]
    /\ UNCHANGED execution

ExecutionGoes(e, from, to) == /\ execution[e].at = from
                              /\ execution' = [execution EXCEPT ![e].at = to]

Executable(e)  == action[execution[e].of].status \in {"approved", "auto_approved"}

(* execute: the check, the executor, and under the lock the status.          *)
CheckExecution(e) ==
    /\ ExecutionGoes(e, "new", IF Executable(e) THEN "running" ELSE "refused")
    /\ UNCHANGED <<action, decision>>

(* The executor finishes, or raises and leaves the status as it is.          *)
RunExecutor(e) == /\ \/ ExecutionGoes(e, "running", "ran")
                     \/ ExecutionGoes(e, "running", "refused")
                  /\ UNCHANGED <<action, decision>>

MarkExecuted(e) == /\ ExecutionGoes(e, "ran", "executed")
                   /\ action' = [action EXCEPT ![execution[e].of].status = "executed"]
                   /\ UNCHANGED decision

GateNext == \/ \E a \in Action : Submit(a)
            \/ \E d \in Decision : CheckDecision(d) \/ Decide(d)
            \/ \E e \in Execution : CheckExecution(e) \/ RunExecutor(e) \/ MarkExecuted(e)

GateSpec == GateInit /\ [][GateNext]_gateVars

(***************************************************************************)
(* Properties.                                                             *)
(***************************************************************************)
Ran(a) == {e \in Execution : execution[e].of = a /\ execution[e].at \in {"ran", "executed"}}

(* However the calls interleave, what needs a human has run only if a person *)
(* other than its requester approved it.                                     *)
HumanDecided ==
    \A a \in Action :
        Ran(a) # {} /\ action[a].human =>
            \E d \in Decision : /\ decision[d].of = a /\ decision[d].approve
                                /\ decision[d].at = "decided"
                                /\ decision[d].by \in Person \ {action[a].requester}

(* "Never executes twice" (the docstring of execute).                        *)
NeverExecutesTwice == \A a \in Action : Cardinality(Ran(a)) <= 1
=============================================================================

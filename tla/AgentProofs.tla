----------------------------- MODULE AgentProofs ------------------------------
(***************************************************************************)
(* The human approval gate, the memory of the agent and its rate limiter,  *)
(* for any calls, runs and requests in any interleaving.                   *)
(***************************************************************************)
EXTENDS MCAgent, DataInduction, FiniteSetTheorems, SequenceTheorems, TLAPS

(* Of a set with at most one member, any two are one.                        *)
LEMMA OneOfOne ==
  ASSUME NEW S, IsFiniteSet(S), Cardinality(S) <= 1, NEW a \in S, NEW b \in S
  PROVE  a = b
<1> SUFFICES ASSUME a # b PROVE FALSE
  OBVIOUS
<1>1. Cardinality({a, b}) <= Cardinality(S)
  BY FS_Subset
<1>2. IsFiniteSet({a}) /\ Cardinality({a}) = 1
  BY FS_Singleton
<1>3. Cardinality({a} \cup {b}) = 2
  BY <1>2, FS_AddElement, SMTT(30)
<1>4. {a} \cup {b} = {a, b}
  OBVIOUS
<1>5. Cardinality(S) \in Nat
  BY FS_CardinalityType
<1> QED BY <1>1, <1>3, <1>4, <1>5

(***************************************************************************)
(* The gate.                                                               *)
(***************************************************************************)
ActionRecord    == [type : ActionType, requester : Identity, human : BOOLEAN,
                    status : ActionStatus]
DecisionRecord  == [of : Action, by : Identity, approve : BOOLEAN,
                    at : {"new", "checked", "decided", "denied"}]
ExecutionRecord == [of : Action, at : {"new", "running", "ran", "executed", "refused"}]

GateRecords == /\ action \in [Action -> ActionRecord]
               /\ decision \in [Decision -> DecisionRecord]
               /\ execution \in [Execution -> ExecutionRecord]

(* A person other than the requester has approved the action.                *)
ApprovedBy(a, d) == /\ decision[d].of = a /\ decision[d].approve
                    /\ decision[d].at = "decided"
                    /\ decision[d].by \in Person \ {action[a].requester}
HumanApproved(a) == \E d \in Decision : ApprovedBy(a, d)

(* A decision past its check is entitled; an action that needs a human is    *)
(* never approved by the policy, and neither approved nor executed without   *)
(* the approval; and the same holds of an execution past its check, whatever *)
(* the status has become since.                                              *)
EntitledOnce(d)  == decision[d].at \in {"checked", "decided"} => Entitled(d)
ActionRight(a)   == action[a].human =>
                       /\ action[a].status \notin {"absent", "auto_approved"}
                       /\ action[a].status \in {"approved", "executed"} => HumanApproved(a)
Admitted(e)      == execution[e].at \in {"running", "ran", "executed"} =>
                       /\ action[execution[e].of].status # "absent"
                       /\ action[execution[e].of].human => HumanApproved(execution[e].of)

GateInv == /\ GateRecords
           /\ \A d \in Decision : EntitledOnce(d)
           /\ \A a \in Action : ActionRight(a)
           /\ \A e \in Execution : Admitted(e)

(* Every step of the gate keeps the types.                                   *)
LEMMA GateRecordsStep ==
  ASSUME GateRecords, [GateNext]_gateVars
  PROVE  GateRecords'
<1> USE DEF GateRecords
<1>1. CASE UNCHANGED gateVars
  BY <1>1 DEF gateVars
<1>2. ASSUME NEW a \in Action, Submit(a)
      PROVE  GateRecords'
  <2>1. PICK high \in BOOLEAN :
           action' = [action EXCEPT
               ![a].human = RequiresHuman(action[a].type, high),
               ![a].status = IF RequiresHuman(action[a].type, high) THEN "pending"
                             ELSE "auto_approved"]
    BY <1>2 DEF Submit
  <2>2. RequiresHuman(action[a].type, high) \in BOOLEAN
    BY DEF RequiresHuman
  <2>3. action' \in [Action -> ActionRecord]
    BY <2>1, <2>2, ZenonT(60) DEF ActionRecord, ActionStatus
  <2> QED BY <1>2, <2>3 DEF Submit
<1>3. ASSUME NEW d \in Decision, CheckDecision(d)
      PROVE  GateRecords'
  BY <1>3 DEF CheckDecision, DecisionGoes, DecisionRecord
<1>4. ASSUME NEW d \in Decision, Decide(d)
      PROVE  GateRecords'
  <2>1. decision' \in [Decision -> DecisionRecord]
    BY <1>4 DEF Decide, DecisionGoes, DecisionRecord
  <2>2. action' \in [Action -> ActionRecord]
    BY <1>4, ZenonT(60) DEF Decide, ActionRecord, ActionStatus
  <2> QED BY <1>4, <2>1, <2>2 DEF Decide
<1>5. ASSUME NEW e \in Execution, CheckExecution(e) \/ RunExecutor(e)
      PROVE  GateRecords'
  BY <1>5 DEF CheckExecution, RunExecutor, ExecutionGoes, ExecutionRecord
<1>6. ASSUME NEW e \in Execution, MarkExecuted(e)
      PROVE  GateRecords'
  <2>1. execution' \in [Execution -> ExecutionRecord]
    BY <1>6 DEF MarkExecuted, ExecutionGoes, ExecutionRecord
  <2>2. action' \in [Action -> ActionRecord]
    BY <1>6 DEF MarkExecuted, ActionRecord, ActionStatus
  <2> QED BY <1>6, <2>1, <2>2 DEF MarkExecuted
<1> QED BY <1>1, <1>2, <1>3, <1>4, <1>5, <1>6 DEF GateNext

(* What a decision, an execution and an action are about does not change.    *)
LEMMA GateFrame ==
  ASSUME GateRecords, [GateNext]_gateVars
  PROVE  /\ \A a \in Action : action'[a].requester = action[a].requester
         /\ \A d \in Decision : /\ decision'[d].of = decision[d].of
                                /\ decision'[d].by = decision[d].by
                                /\ decision'[d].approve = decision[d].approve
         /\ \A e \in Execution : execution'[e].of = execution[e].of
<1> USE DEF GateRecords
<1>1. \A a \in Action : action'[a].requester = action[a].requester
  <2> SUFFICES ASSUME NEW a \in Action
               PROVE  action'[a].requester = action[a].requester
    OBVIOUS
  <2>1. CASE UNCHANGED action
    BY <2>1
  <2>2. ASSUME NEW b \in Action, Submit(b)
        PROVE  action'[a].requester = action[a].requester
    BY <2>2 DEF Submit, ActionRecord
  <2>3. ASSUME NEW o \in Decision, Decide(o)
        PROVE  action'[a].requester = action[a].requester
    BY <2>3 DEF Decide, ActionRecord
  <2>4. ASSUME NEW e \in Execution, MarkExecuted(e)
        PROVE  action'[a].requester = action[a].requester
    BY <2>4 DEF MarkExecuted, ActionRecord
  <2> QED BY <2>1, <2>2, <2>3, <2>4
          DEF GateNext, gateVars, CheckDecision, CheckExecution, RunExecutor
<1>2. \A d \in Decision : /\ decision'[d].of = decision[d].of
                          /\ decision'[d].by = decision[d].by
                          /\ decision'[d].approve = decision[d].approve
  <2>1. \/ UNCHANGED decision
        \/ \E o \in Decision : \E from, to : DecisionGoes(o, from, to)
    BY DEF GateNext, gateVars, Submit, CheckDecision, Decide, CheckExecution, RunExecutor,
           MarkExecuted
  <2> QED BY <2>1 DEF DecisionGoes, DecisionRecord
<1>3. \A e \in Execution : execution'[e].of = execution[e].of
  <2>1. \/ UNCHANGED execution
        \/ \E x \in Execution : \E from, to : ExecutionGoes(x, from, to)
    BY DEF GateNext, gateVars, Submit, CheckDecision, Decide, CheckExecution, RunExecutor,
           MarkExecuted
  <2> QED BY <2>1 DEF ExecutionGoes, ExecutionRecord
<1> QED BY <1>1, <1>2, <1>3

(* An approval is for good.                                                  *)
LEMMA ApprovalStays ==
  ASSUME GateRecords, [GateNext]_gateVars, NEW a \in Action, HumanApproved(a)
  PROVE  HumanApproved(a)'
<1>1. PICK d \in Decision : ApprovedBy(a, d)
  BY DEF HumanApproved
<1>2. decision'[d].at = "decided"
  <2>1. ASSUME NEW o \in Decision, NEW from, NEW to, DecisionGoes(o, from, to), from # "decided"
        PROVE  decision'[d].at = "decided"
    BY <1>1, <2>1 DEF DecisionGoes, ApprovedBy, GateRecords
  <2> QED BY <1>1, <2>1 DEF ApprovedBy, GateNext, gateVars, Submit, CheckDecision, Decide,
                            CheckExecution, RunExecutor, MarkExecuted
<1> QED BY <1>1, <1>2, GateFrame DEF HumanApproved, ApprovedBy

(* A decision past its check stays entitled.                                 *)
LEMMA EntitledStep ==
  ASSUME GateInv, [GateNext]_gateVars, NEW d \in Decision
  PROVE  EntitledOnce(d)'
<1>1. Entitled(d) => Entitled(d)'
  BY GateFrame DEF GateInv, GateRecords, DecisionRecord, Entitled
<1>2. EntitledOnce(d) /\ GateRecords
  BY DEF GateInv
<1>3. CASE decision'[d].at = decision[d].at
  BY <1>1, <1>2, <1>3 DEF EntitledOnce
<1>4. ASSUME NEW o \in Decision, CheckDecision(o)
      PROVE  EntitledOnce(d)'
  BY <1>1, <1>2, <1>4 DEF CheckDecision, DecisionGoes, EntitledOnce, GateRecords, DecisionRecord
<1>5. ASSUME NEW o \in Decision, Decide(o)
      PROVE  EntitledOnce(d)'
  BY <1>1, <1>2, <1>5 DEF Decide, DecisionGoes, EntitledOnce, GateRecords, DecisionRecord
<1> QED BY <1>3, <1>4, <1>5
        DEF GateNext, gateVars, Submit, CheckExecution, RunExecutor, MarkExecuted

(* An action that needs a human is approved and executed by nothing else.    *)
LEMMA ActionStep ==
  ASSUME GateInv, [GateNext]_gateVars, NEW a \in Action
  PROVE  ActionRight(a)'
<1>1. GateRecords /\ ActionRight(a) /\ (HumanApproved(a) => HumanApproved(a)')
  BY ApprovalStays DEF GateInv
<1>2. CASE UNCHANGED action
  BY <1>1, <1>2 DEF ActionRight
<1>3. ASSUME NEW b \in Action, Submit(b)
      PROVE  ActionRight(a)'
  BY <1>1, <1>3 DEF Submit, ActionRight, GateRecords, ActionRecord
<1>4. ASSUME NEW o \in Decision, Decide(o)
      PROVE  ActionRight(a)'
  <2>1. /\ decision[o].at = "checked" /\ decision'[o].at = "decided" /\ Entitled(o)
        /\ action' = [action EXCEPT ![decision[o].of].status =
                         IF decision[o].approve THEN "approved" ELSE "rejected"]
    BY <1>1, <1>4 DEF Decide, DecisionGoes, GateInv, EntitledOnce, GateRecords, DecisionRecord
  <2>2. CASE decision[o].of = a /\ decision[o].approve
    <3>1. ApprovedBy(a, o)'
      BY <1>1, <2>1, <2>2, GateFrame DEF ApprovedBy, Entitled
    <3> QED BY <1>1, <2>1, <2>2, <3>1 DEF ActionRight, HumanApproved, GateRecords, ActionRecord
  <2>3. CASE ~(decision[o].of = a /\ decision[o].approve)
    BY <1>1, <2>1, <2>3 DEF ActionRight, GateRecords, ActionRecord
  <2> QED BY <2>2, <2>3
<1>5. ASSUME NEW e \in Execution, MarkExecuted(e)
      PROVE  ActionRight(a)'
  <2>1. /\ execution[e].at = "ran" /\ Admitted(e)
        /\ action' = [action EXCEPT ![execution[e].of].status = "executed"]
    BY <1>5 DEF MarkExecuted, ExecutionGoes, GateInv
  <2>2. execution[e].of = a /\ action[a].human => HumanApproved(a)'
    BY <1>1, <2>1 DEF Admitted
  <2> QED BY <1>1, <2>1, <2>2 DEF ActionRight, GateRecords, ActionRecord
<1> QED BY <1>2, <1>3, <1>4, <1>5
        DEF GateNext, gateVars, CheckDecision, CheckExecution, RunExecutor

(* An execution past its check runs an action that a human approved, if it   *)
(* needs one.                                                                *)
LEMMA AdmittedStep ==
  ASSUME GateInv, [GateNext]_gateVars, NEW e \in Execution
  PROVE  Admitted(e)'
<1>1. PICK a \in Action : a = execution[e].of
  BY DEF GateInv, GateRecords, ExecutionRecord
<1>2. /\ GateRecords /\ Admitted(e) /\ ActionRight(a) /\ execution'[e].of = a
      /\ HumanApproved(a) => HumanApproved(a)'
  BY <1>1, ApprovalStays, GateFrame DEF GateInv
<1>3. \/ execution[e].at \in {"running", "ran", "executed"}
      \/ execution'[e].at \in {"running", "ran", "executed"} => Executable(e)
  <2>1. ASSUME NEW x \in Execution, CheckExecution(x)
        PROVE  execution[e].at \in {"running", "ran", "executed"}
                  \/ (execution'[e].at \in {"running", "ran", "executed"} => Executable(e))
    BY <1>2, <2>1 DEF CheckExecution, ExecutionGoes, GateRecords, ExecutionRecord
  <2>2. ASSUME NEW x \in Execution, RunExecutor(x) \/ MarkExecuted(x)
        PROVE  execution[e].at \in {"running", "ran", "executed"}
                  \/ (execution'[e].at \in {"running", "ran", "executed"} => Executable(e))
    BY <1>2, <2>2 DEF RunExecutor, MarkExecuted, ExecutionGoes, GateRecords, ExecutionRecord
  <2> QED BY <2>1, <2>2 DEF GateNext, gateVars, Submit, CheckDecision, Decide
<1>4. execution'[e].at \in {"running", "ran", "executed"} =>
         action[a].status # "absent" /\ (action[a].human => HumanApproved(a)')
  BY <1>1, <1>2, <1>3 DEF Admitted, ActionRight, Executable
<1>5. action[a].status # "absent" => action'[a].status # "absent" /\ action'[a].human = action[a].human
  <2>1. ASSUME NEW b \in Action, Submit(b)
        PROVE  action[a].status # "absent" => UNCHANGED action[a]
    BY <1>2, <2>1 DEF Submit, GateRecords
  <2>2. ASSUME NEW o \in Decision, Decide(o)
        PROVE  action[a].status # "absent" =>
                  action'[a].status # "absent" /\ action'[a].human = action[a].human
    BY <1>2, <2>2 DEF Decide, GateRecords, ActionRecord
  <2>3. ASSUME NEW x \in Execution, MarkExecuted(x)
        PROVE  action'[a].status \in {action[a].status, "executed"}
                  /\ action'[a].human = action[a].human
    BY <1>2, <2>3 DEF MarkExecuted, GateRecords, ActionRecord
  <2> QED BY <2>1, <2>2, <2>3
          DEF GateNext, gateVars, CheckDecision, CheckExecution, RunExecutor
<1> QED BY <1>2, <1>4, <1>5 DEF Admitted

(* The invariant of the gate survives every step.                            *)
LEMMA GateStep == GateInv /\ [GateNext]_gateVars => GateInv'
BY GateRecordsStep, EntitledStep, ActionStep, AdmittedStep DEF GateInv

(* However decisions and executions interleave with the status they have     *)
(* read, what needs a human runs only after a person other than its requester*)
(* has approved it (HumanApprovalGate._decide, execute).                     *)
THEOREM GateNeedsItsHuman == GateSpec => []HumanDecided
<1>1. GateInit => GateInv
  BY DEF GateInit, GateInv, GateRecords, ActionRecord, DecisionRecord, ExecutionRecord,
         ActionStatus, EntitledOnce, ActionRight, Admitted
<1>2. GateInv /\ [GateNext]_gateVars => GateInv'
  BY GateStep
<1>3. GateInv => HumanDecided
  BY DEF GateInv, Admitted, HumanApproved, ApprovedBy, HumanDecided, Ran
<1> QED BY <1>1, <1>2, <1>3, PTL DEF GateSpec

(***************************************************************************)
(* The memory.                                                             *)
(***************************************************************************)
RunPlaces == {"new", "deciding", "saving", "auditing", "clearing", "asking",
              "proposing", "proposed", "ended", "failed"}
RunRecord == [thread : Thread, rule : Key \cup {Nothing}, held : Run \cup {Nothing},
              intent : Intent, asks : BOOLEAN, row : Run \cup {Nothing}, at : RunPlaces]
Row       == [proposal : Run \cup {Nothing}, lapsed : BOOLEAN,
              status : {"absent", "active", "expired", "superseded"}]

MemoryRecords == /\ pending \in [Thread -> Run \cup {Nothing}]
                 /\ memory \in [Run -> Row]
                 /\ run \in [Run -> RunRecord]

(* The run that kept a proposal, and has audited it, is about to, or failed. *)
Record(r)    == [proposal |-> run[r].held, outcome |-> run[r].intent, by |-> r]
Keeper(r, p) == /\ run[r].held = p /\ run[r].intent \notin Dropped
                /\ run[r].at \in {"auditing", "failed"} \/ Record(r) \in audit

(* Only a decision to keep is on its way to memory, and a run that has       *)
(* audited something has received its message.                               *)
Decided(r)  == /\ run[r].at \in {"deciding", "saving"} => run[r].intent \notin Dropped
               /\ Record(r) \in audit => run[r].at # "new"
HasKeeper(m) == memory[m].status # "absent" => \E r \in Run : Keeper(r, memory[m].proposal)

MemoryInv == /\ MemoryRecords
             /\ \A r \in Run : Decided(r)
             /\ \A m \in Run : HasKeeper(m)

(* A step of a run changes this run alone.                                   *)
RunMoves(r, x) == run' = [run EXCEPT ![r] = x]

(* Moving one run leaves the others alone.                                   *)
LEMMA RunMovesFacts ==
  ASSUME MemoryRecords, NEW r \in Run, NEW x \in RunRecord, RunMoves(r, x)
  PROVE  /\ run' \in [Run -> RunRecord] /\ run'[r] = x
         /\ \A q \in Run \ {r} : run'[q] = run[q]
BY DEF RunMoves, MemoryRecords

(* The steps that only move a run from one place to another.                 *)
LEMMA RunGoesFacts ==
  ASSUME MemoryRecords, NEW r \in Run, NEW from, NEW to \in RunPlaces, RunGoes(r, from, to)
  PROVE  /\ run' \in [Run -> RunRecord] /\ run[r].at = from /\ run'[r].at = to
         /\ \A q \in Run : /\ run'[q].held = run[q].held /\ run'[q].intent = run[q].intent
                           /\ q # r => run'[q] = run[q]
<1> DEFINE x == [run[r] EXCEPT !.at = to]
<1>1. x \in RunRecord /\ x.at = to /\ x.held = run[r].held /\ x.intent = run[r].intent
  BY DEF MemoryRecords, RunRecord
<1>2. RunMoves(r, x) /\ run[r].at = from
  BY DEF RunGoes, RunMoves
<1> HIDE DEF x
<1> QED BY <1>1, <1>2, RunMovesFacts

(* Every step of the memory keeps the types.                                 *)
LEMMA MemoryRecordsStep ==
  ASSUME MemoryRecords, [MemoryNext]_memoryVars
  PROVE  MemoryRecords'
<1>1. /\ pending \in [Thread -> Run \cup {Nothing}] /\ memory \in [Run -> Row]
      /\ run \in [Run -> RunRecord]
  BY DEF MemoryRecords
<1>2. CASE UNCHANGED memoryVars
  BY <1>2 DEF memoryVars, MemoryRecords
<1>3. ASSUME NEW r \in Run, Refuse(r)
      PROVE  MemoryRecords'
  BY <1>1, <1>3, RunGoesFacts DEF Refuse, MemoryRecords, RunPlaces
<1>4. ASSUME NEW r \in Run, Receive(r)
      PROVE  MemoryRecords'
  <2>1. CASE run' = [run EXCEPT ![r].at = "asking"]
    <3>1. RunGoes(r, "new", "asking")
      BY <1>4, <2>1 DEF Receive, RunGoes
    <3> QED BY <1>1, <1>4, <3>1, RunGoesFacts DEF Receive, MemoryRecords, RunPlaces
  <2>2. CASE run' # [run EXCEPT ![r].at = "asking"]
    <3>1. PICK u \in Understood :
            run' = [run EXCEPT ![r].at = IF Keeps(u.intent) THEN "deciding" ELSE "auditing",
                               ![r].held = pending[run[r].thread], ![r].intent = u.intent,
                               ![r].asks = u.asks]
      BY <1>4, <2>2 DEF Receive
    <3>2. u.intent \in Intent /\ u.asks \in BOOLEAN /\ pending[run[r].thread] \in Run \cup {Nothing}
      BY <1>1 DEF Understood, RunRecord
    <3> DEFINE x == [run[r] EXCEPT !.at = IF Keeps(u.intent) THEN "deciding" ELSE "auditing",
                                   !.held = pending[run[r].thread], !.intent = u.intent,
                                   !.asks = u.asks]
    <3>3. x \in RunRecord
      BY <1>1, <3>2, ZenonT(60) DEF RunRecord, RunPlaces
    <3>4. RunMoves(r, x)
      BY <3>1 DEF RunMoves
    <3> HIDE DEF x
    <3>5. run' \in [Run -> RunRecord]
      BY <1>1, <3>3, <3>4, RunMovesFacts DEF MemoryRecords
    <3> QED BY <1>1, <1>4, <3>5 DEF Receive, MemoryRecords
  <2> QED BY <2>1, <2>2
<1>5. ASSUME NEW r \in Run, FindActive(r)
      PROVE  MemoryRecords'
  <2>1. PICK m \in Run \cup {Nothing} : run' = [run EXCEPT ![r].at = "saving", ![r].row = m]
    BY <1>5 DEF FindActive, ActiveFor
  <2> DEFINE x == [run[r] EXCEPT !.at = "saving", !.row = m]
  <2>2. x \in RunRecord /\ RunMoves(r, x)
    BY <1>1, <2>1 DEF RunRecord, RunPlaces, RunMoves
  <2> HIDE DEF x
  <2>3. run' \in [Run -> RunRecord]
    BY <2>2, RunMovesFacts
  <2> QED BY <1>1, <1>5, <2>3 DEF FindActive, MemoryRecords
<1>6. ASSUME NEW r \in Run, WriteMemory(r)
      PROVE  MemoryRecords'
  <2>1. run' \in [Run -> RunRecord]
    BY <1>6, RunGoesFacts, MemoryRecords DEF WriteMemory, RunPlaces
  <2>2. run[r].held \in Run \cup {Nothing} /\ run[r].row \in Run \cup {Nothing}
    BY <1>1 DEF RunRecord
  <2>3. Written(r) \in [Run -> Row]
    BY <1>1, <2>2, ZenonT(60) DEF Written, Added, Row
  <2> QED BY <1>1, <1>6, <2>1, <2>3 DEF WriteMemory, MemoryRecords
<1>7. ASSUME NEW r \in Run, Audit(r)
      PROVE  MemoryRecords'
  BY <1>1, <1>7, RunGoesFacts DEF Audit, MemoryRecords, RunPlaces
<1>8. ASSUME NEW r \in Run, Clear(r)
      PROVE  MemoryRecords'
  BY <1>1, <1>8, RunGoesFacts DEF Clear, MemoryRecords, RunPlaces
<1>9. ASSUME NEW r \in Run, Answer(r)
      PROVE  MemoryRecords'
  <2>1. \/ run' = [run EXCEPT ![r].at = "ended"]
        \/ \E rule \in Key : run' = [run EXCEPT ![r].at = "proposing", ![r].rule = rule]
    BY <1>9 DEF Answer
  <2>2. run' \in [Run -> RunRecord]
    BY <1>1, <2>1 DEF RunRecord, RunPlaces
  <2> QED BY <1>1, <1>9, <2>2 DEF Answer, MemoryRecords
<1>10. ASSUME NEW r \in Run, Propose(r)
       PROVE  MemoryRecords'
  BY <1>1, <1>10, RunGoesFacts DEF Propose, MemoryRecords, RunPlaces
<1>11. ASSUME NEW r \in Run, Fail(r)
       PROVE  MemoryRecords'
  BY <1>1, <1>11 DEF Fail, MemoryRecords, RunRecord, RunPlaces
<1>12. ASSUME NEW m \in Run, Lapse(m)
       PROVE  MemoryRecords'
  BY <1>1, <1>12 DEF Lapse, MemoryRecords, Row
<1>13. CASE Consolidate
  BY <1>1, <1>13 DEF Consolidate, MemoryRecords, Row
<1> QED BY <1>2, <1>3, <1>4, <1>5, <1>6, <1>7, <1>8, <1>9, <1>10, <1>11, <1>12, <1>13
        DEF MemoryNext

(* A run that has received its message holds the same proposal and the same  *)
(* answer to it from then on.                                                *)
LEMMA RunFrame ==
  ASSUME MemoryRecords, [MemoryNext]_memoryVars, NEW q \in Run
  PROVE  /\ run[q].at # "new" => /\ run'[q].held = run[q].held
                                 /\ run'[q].intent = run[q].intent
                                 /\ run'[q].at # "new"
         /\ run'[q].at = "new" => run'[q] = run[q]
         /\ run[q].at = "failed" => run'[q].at = "failed"
         /\ run'[q].at = "saving" => run[q].at \in {"saving", "deciding"}
         /\ run'[q].at = "deciding" /\ run[q].at # "deciding" => run'[q].intent \notin Dropped
         /\ run[q].at = "auditing" =>
               \/ run'[q].at \in {"auditing", "failed"}
               \/ Audit(q)
<1> DEFINE Frame ==
      /\ run[q].at # "new" => /\ run'[q].held = run[q].held
                              /\ run'[q].intent = run[q].intent
                              /\ run'[q].at # "new"
      /\ run'[q].at = "new" => run'[q] = run[q]
      /\ run[q].at = "failed" => run'[q].at = "failed"
      /\ run'[q].at = "saving" => run[q].at \in {"saving", "deciding"}
      /\ run'[q].at = "deciding" /\ run[q].at # "deciding" => run'[q].intent \notin Dropped
      /\ run[q].at = "auditing" => run'[q].at \in {"auditing", "failed"} \/ Audit(q)
<1> SUFFICES Frame
  OBVIOUS
<1> USE DEF MemoryRecords, RunRecord
<1>1. CASE UNCHANGED run
  BY <1>1
<1>2. ASSUME NEW r \in Run, Refuse(r) \/ WriteMemory(r) \/ Clear(r) \/ Propose(r) \/ Fail(r)
      PROVE  Frame
  BY <1>2 DEF Refuse, WriteMemory, Clear, Propose, Fail, RunGoes
<1>3. ASSUME NEW r \in Run, Receive(r)
      PROVE  Frame
  <2>1. CASE q # r
    BY <1>3, <2>1 DEF Receive
  <2>2. run[r].at = "new"
    BY <1>3 DEF Receive
  <2>3. CASE q = r /\ run' = [run EXCEPT ![r].at = "asking"]
    <3>1. run'[r].at = "asking"
      BY <2>3
    <3> QED BY <2>2, <2>3, <3>1
  <2>4. ASSUME q = r, NEW u, NEW p,
               run' = [run EXCEPT ![r].at = IF Keeps(u.intent) THEN "deciding" ELSE "auditing",
                                  ![r].held = p, ![r].intent = u.intent, ![r].asks = u.asks]
        PROVE  Frame
    <3>1. /\ run'[r].at = IF Keeps(u.intent) THEN "deciding" ELSE "auditing"
          /\ run'[r].intent = u.intent
      BY <2>4
    <3> QED BY <2>2, <2>4, <3>1 DEF Keeps
  <2> QED BY <1>3, <2>1, <2>3, <2>4 DEF Receive
<1>4. ASSUME NEW r \in Run, FindActive(r)
      PROVE  Frame
  BY <1>4 DEF FindActive
<1>5. ASSUME NEW r \in Run, Audit(r)
      PROVE  Frame
  <2>1. CASE q = r
    BY <1>5, <2>1 DEF Audit, RunGoes
  <2>2. CASE q # r
    BY <1>5, <2>2 DEF Audit, RunGoes
  <2> QED BY <2>1, <2>2
<1>6. ASSUME NEW r \in Run, Answer(r)
      PROVE  Frame
  BY <1>6 DEF Answer
<1> QED BY <1>1, <1>2, <1>3, <1>4, <1>5, <1>6 DEF MemoryNext, memoryVars, Lapse, Consolidate

(* The audit only grows, by a run that has received its message.             *)
LEMMA AuditFrame ==
  ASSUME [MemoryNext]_memoryVars
  PROVE  /\ audit \subseteq audit'
         /\ \A r \in Run : Audit(r) => Record(r) \in audit'
         /\ \A x \in audit' \ audit :
               \E r \in Run : Audit(r) /\ x = Record(r)
<1>1. audit' = audit \/ \E r \in Run : Audit(r)
  BY DEF MemoryNext, memoryVars, Refuse, Receive, FindActive, WriteMemory, Clear, Answer,
         Propose, Fail, Lapse, Consolidate
<1> QED BY <1>1 DEF Audit, Record

(* Only a decision to keep is on its way to the memory.                      *)
LEMMA DecidedStep ==
  ASSUME MemoryInv, [MemoryNext]_memoryVars, NEW q \in Run
  PROVE  Decided(q)'
<1>1. Decided(q) /\ MemoryRecords
  BY DEF MemoryInv
<1>2. run'[q].at \in {"deciding", "saving"} => run'[q].intent \notin Dropped
  BY <1>1, RunFrame DEF Decided
<1>3. ASSUME Record(q)' \in audit'
      PROVE  run'[q].at # "new"
  <2>1. CASE run[q].at # "new"
    BY <1>1, <2>1, RunFrame
  <2>2. CASE run[q].at = "new" /\ run'[q].at = "new"
    <3>1. run'[q] = run[q]
      BY <1>1, <2>2, RunFrame
    <3>2. Record(q) \in audit'
      BY <1>3, <3>1 DEF Record
    <3>3. Record(q) \notin audit
      BY <1>1, <2>2 DEF Decided
    <3>4. PICK r \in Run : Audit(r) /\ Record(q) = Record(r)
      BY <3>2, <3>3, AuditFrame
    <3>5. q = r /\ run[r].at = "auditing"
      BY <3>4 DEF Record, Audit, RunGoes
    <3> QED BY <2>2, <3>5
  <2> QED BY <2>1, <2>2
<1> QED BY <1>2, <1>3 DEF Decided

(* Who has kept a proposal is its keeper for good.                           *)
LEMMA KeeperStays ==
  ASSUME MemoryInv, [MemoryNext]_memoryVars, NEW r \in Run, NEW p, Keeper(r, p)
  PROVE  Keeper(r, p)'
<1>1. Decided(r) /\ MemoryRecords
  BY DEF MemoryInv
<1>2. run[r].at # "new"
  BY <1>1 DEF Keeper, Decided
<1>3. run'[r].held = run[r].held /\ run'[r].intent = run[r].intent
  BY <1>1, <1>2, RunFrame
<1>4. Record(r)' = Record(r)
  BY <1>3 DEF Record
<1>5. run[r].at \in {"auditing", "failed"} =>
         run'[r].at \in {"auditing", "failed"} \/ Record(r) \in audit'
  BY <1>1, RunFrame, AuditFrame
<1> QED BY <1>3, <1>4, <1>5, AuditFrame DEF Keeper

(* A memory in the table keeps the run that decided to keep it.              *)
LEMMA HasKeeperStep ==
  ASSUME MemoryInv, [MemoryNext]_memoryVars, NEW m \in Run
  PROVE  HasKeeper(m)'
<1>1. HasKeeper(m) /\ MemoryRecords
  BY DEF MemoryInv
<1>2. ASSUME memory'[m].proposal = memory[m].proposal,
             memory'[m].status # "absent" => memory[m].status # "absent"
      PROVE  HasKeeper(m)'
  BY <1>1, <1>2, KeeperStays DEF HasKeeper
<1>3. ASSUME NEW r \in Run, WriteMemory(r)
      PROVE  HasKeeper(m)'
  <2>1. run[r].at = "saving" /\ run'[r].at = "auditing" /\ memory' = Written(r)
    BY <1>1, <1>3 DEF WriteMemory, RunGoes, MemoryRecords, RunRecord
  <2>2. run'[r].held = run[r].held /\ Keeper(r, run[r].held)'
    BY <1>1, <1>3, <2>1, RunFrame DEF Keeper, MemoryInv, Decided
  <2>3. \/ memory'[m] = memory[m]
        \/ memory'[m].proposal = run[r].held
    BY <1>1, <2>1 DEF Written, Added, MemoryRecords, Row
  <2> QED BY <1>2, <2>2, <2>3 DEF HasKeeper
<1>4. CASE UNCHANGED memory
  BY <1>2, <1>4
<1>5. ASSUME NEW r \in Run, Lapse(r)
      PROVE  HasKeeper(m)'
  BY <1>1, <1>2, <1>5 DEF Lapse, MemoryRecords, Row
<1>6. CASE Consolidate
  BY <1>1, <1>2, <1>6 DEF Consolidate, MemoryRecords, Row
<1> QED BY <1>3, <1>4, <1>5, <1>6
        DEF MemoryNext, memoryVars, Refuse, Receive, FindActive, Audit, Clear, Answer, Propose,
            Fail

(* Whatever fails or overlaps, nothing is in the memory that no message of   *)
(* the user has agreed to keep, and that the audit does not report, but by a *)
(* run that failed before record_audit (save_approved_memory).               *)
THEOREM MemoryIsAudited == MemorySpec => []KeptIsAudited
<1>1. MemoryInit => MemoryInv
  <2> SUFFICES ASSUME MemoryInit PROVE MemoryInv
    OBVIOUS
  <2>1. MemoryRecords
    BY DEF MemoryInit, MemoryRecords, Row, RunRecord, RunPlaces, Intent
  <2>2. \A r \in Run : Decided(r) /\ HasKeeper(r)
    BY DEF MemoryInit, Decided, HasKeeper
  <2> QED BY <2>1, <2>2 DEF MemoryInv
<1>2. MemoryInv /\ [MemoryNext]_memoryVars => MemoryInv'
  BY MemoryRecordsStep, DecidedStep, HasKeeperStep DEF MemoryInv
<1>3. MemoryInv => KeptIsAudited
  BY DEF MemoryInv, HasKeeper, Keeper, Record, KeptIsAudited
<1> QED BY <1>1, <1>2, <1>3, PTL DEF MemorySpec

(* Where a run may go, and what it keeps on the way: a proposal that was     *)
(* asked is for good.                                                        *)
LEMMA RunPath ==
  ASSUME MemoryRecords, [MemoryNext]_memoryVars, NEW q \in Run
  PROVE  /\ run[q].at = "proposed" => run'[q] = run[q]
         /\ run'[q].at = "proposing" => \/ run[q].at = "proposing" /\ run'[q].rule = run[q].rule
                                        \/ run'[q].rule \in Key
         /\ run'[q].at = "proposed" => \/ run[q].at = "proposed"
                                       \/ run[q].at = "proposing" /\ run'[q].rule = run[q].rule
         /\ run'[q].at = "deciding" => \/ run[q].at = "deciding" /\ run'[q].held = run[q].held
                                       \/ /\ run'[q].held = pending[run[q].thread]
                                          /\ pending[run[q].thread] # Nothing
         /\ run'[q].at = "saving" => \/ run'[q] = run[q]
                                     \/ run[q].at = "deciding" /\ FindActive(q)
         /\ run[q].at \notin {"new", "deciding", "saving"} =>
               run'[q].at \notin {"new", "deciding", "saving"}
<1> DEFINE Path ==
      /\ run[q].at = "proposed" => run'[q] = run[q]
      /\ run'[q].at = "proposing" => \/ run[q].at = "proposing" /\ run'[q].rule = run[q].rule
                                     \/ run'[q].rule \in Key
      /\ run'[q].at = "proposed" => \/ run[q].at = "proposed"
                                    \/ run[q].at = "proposing" /\ run'[q].rule = run[q].rule
      /\ run'[q].at = "deciding" => \/ run[q].at = "deciding" /\ run'[q].held = run[q].held
                                    \/ /\ run'[q].held = pending[run[q].thread]
                                       /\ pending[run[q].thread] # Nothing
      /\ run'[q].at = "saving" => \/ run'[q] = run[q]
                                  \/ run[q].at = "deciding" /\ FindActive(q)
      /\ run[q].at \notin {"new", "deciding", "saving"} =>
            run'[q].at \notin {"new", "deciding", "saving"}
<1> SUFFICES Path
  OBVIOUS
<1> USE DEF MemoryRecords, RunRecord
<1>1. CASE run'[q] = run[q]
  BY <1>1
<1>2. CASE UNCHANGED run
  BY <1>1, <1>2
<1>3. ASSUME NEW r \in Run, Refuse(r) \/ WriteMemory(r) \/ Audit(r) \/ Clear(r) \/ Propose(r)
                            \/ Fail(r)
      PROVE  Path
  <2>1. CASE q = r
    BY <1>3, <2>1 DEF Refuse, WriteMemory, Audit, Clear, Propose, Fail, RunGoes
  <2>2. CASE q # r
    <3>1. run'[q] = run[q]
      BY <1>3, <2>2 DEF Refuse, WriteMemory, Audit, Clear, Propose, Fail, RunGoes
    <3> QED BY <1>1, <3>1
  <2> QED BY <2>1, <2>2
<1>4. ASSUME NEW r \in Run, Receive(r)
      PROVE  Path
  <2>1. CASE q # r
    <3>1. run'[q] = run[q]
      BY <1>4, <2>1 DEF Receive
    <3> QED BY <1>1, <3>1
  <2>2. run[r].at = "new"
    BY <1>4 DEF Receive
  <2>3. CASE q = r /\ run' = [run EXCEPT ![r].at = "asking"]
    <3>1. run'[r].at = "asking"
      BY <2>3
    <3> QED BY <2>2, <2>3, <3>1
  <2>4. ASSUME q = r, NEW u, pending[run[r].thread] # Nothing,
               run' = [run EXCEPT ![r].at = IF Keeps(u.intent) THEN "deciding" ELSE "auditing",
                                  ![r].held = pending[run[r].thread], ![r].intent = u.intent,
                                  ![r].asks = u.asks]
        PROVE  Path
    <3>1. /\ run'[r].at = IF Keeps(u.intent) THEN "deciding" ELSE "auditing"
          /\ run'[r].held = pending[run[r].thread]
      BY <2>4
    <3> QED BY <2>2, <2>4, <3>1
  <2> QED BY <1>4, <2>1, <2>3, <2>4 DEF Receive
<1>5. ASSUME NEW r \in Run, FindActive(r)
      PROVE  Path
  <2>1. CASE q = r
    <3>1. run[r].at = "deciding" /\ run'[r].at = "saving"
      BY <1>5 DEF FindActive
    <3> QED BY <1>5, <2>1, <3>1
  <2>2. CASE q # r
    <3>1. run'[q] = run[q]
      BY <1>5, <2>2 DEF FindActive
    <3> QED BY <1>1, <3>1
  <2> QED BY <2>1, <2>2
<1>6. ASSUME NEW r \in Run, Answer(r)
      PROVE  Path
  <2>1. CASE q = r
    <3>1. /\ run[r].at = "asking"
          /\ \/ run'[r].at = "ended"
             \/ run'[r].at = "proposing" /\ run'[r].rule \in Key
      BY <1>6 DEF Answer
    <3> QED BY <2>1, <3>1
  <2>2. CASE q # r
    <3>1. run'[q] = run[q]
      BY <1>6, <2>2 DEF Answer
    <3> QED BY <1>1, <3>1
  <2> QED BY <2>1, <2>2
<1> QED BY <1>2, <1>3, <1>4, <1>5, <1>6 DEF MemoryNext, memoryVars, Lapse, Consolidate

(* A proposal that a thread waits on, a run decides on or a memory holds was *)
(* asked; and a run that has a memory has written it.                        *)
Asked(p) == p \in Run /\ run[p].at = "proposed" /\ run[p].rule \in Key
RowRight(m) == memory[m].status # "absent" =>
                  /\ Asked(memory[m].proposal)
                  /\ run[m].at \notin {"new", "deciding", "saving"}
RunRight(r) == /\ run[r].at \in {"proposing", "proposed"} => run[r].rule \in Key
               /\ run[r].at \in {"deciding", "saving"} => Asked(run[r].held)
ShapeInv == /\ MemoryRecords
            /\ \A t \in Thread : pending[t] # Nothing => Asked(pending[t])
            /\ \A r \in Run : RunRight(r) /\ RowRight(r)

(* A proposal that was made stays made, about the same rule.                 *)
LEMMA AskedStays ==
  ASSUME MemoryRecords, [MemoryNext]_memoryVars, NEW p, Asked(p)
  PROVE  Asked(p)' /\ run'[p].rule = run[p].rule
BY RunPath DEF Asked

(* What one write does to a row.                                             *)
LEMMA WrittenFacts ==
  ASSUME MemoryRecords, NEW r \in Run, NEW m \in Run, memory' = Written(r)
  PROVE  \/ memory'[m] = memory[m]
         \/ /\ m = r /\ run[r].row = Nothing
            /\ memory'[m].proposal = run[r].held /\ memory'[m].status = "active"
         \/ /\ m = run[r].row /\ memory'[m].proposal = run[r].held
            /\ memory'[m].status = memory[m].status
BY DEF Written, Added, MemoryRecords, Row

(* Rows, pending entries and runs only ever name proposals that were made.   *)
LEMMA ShapeStep ==
  ASSUME ShapeInv, [MemoryNext]_memoryVars
  PROVE  ShapeInv'
<1>1. MemoryRecords /\ MemoryRecords'
  BY MemoryRecordsStep DEF ShapeInv
<1>2. ASSUME NEW r \in Run
      PROVE  RunRight(r)'
  <2>1. RunRight(r) /\ run[r].thread \in Thread
    BY <1>1 DEF ShapeInv, MemoryRecords, RunRecord
  <2>2. run'[r].at \in {"proposing", "proposed"} => run'[r].rule \in Key
    BY <1>1, <2>1, RunPath DEF RunRight
  <2>3. ASSUME run'[r].at \in {"deciding", "saving"}
        PROVE  \E p : Asked(p) /\ p = run'[r].held
    <3>1. CASE run[r].at \in {"deciding", "saving"} /\ run'[r].held = run[r].held
      BY <2>1, <3>1 DEF RunRight
    <3>2. CASE run'[r].held = pending[run[r].thread] /\ pending[run[r].thread] # Nothing
      BY <2>1, <3>2 DEF ShapeInv
    <3> QED BY <1>1, <2>3, <3>1, <3>2, RunPath, RunFrame
  <2>4. ASSUME NEW p, Asked(p), p = run'[r].held
        PROVE  Asked(run[r].held)'
    <3>1. Asked(p)'
      BY <1>1, <2>4, AskedStays
    <3> QED BY <2>4, <3>1
  <2> QED BY <2>2, <2>3, <2>4 DEF RunRight
<1>3. ASSUME NEW t \in Thread, pending'[t] # Nothing
      PROVE  Asked(pending[t])'
  <2>1. CASE pending'[t] = pending[t]
    <3>1. PICK p : Asked(p) /\ p = pending'[t]
      BY <1>3, <2>1 DEF ShapeInv
    <3>2. Asked(p)'
      BY <1>1, <3>1, AskedStays
    <3> QED BY <3>1, <3>2
  <2>2. ASSUME NEW r \in Run, Propose(r), pending'[t] = r
        PROVE  Asked(pending[t])'
    <3>1. run[r].at = "proposing" /\ run'[r].at = "proposed" /\ run'[r].rule = run[r].rule
      BY <1>1, <2>2 DEF Propose, RunGoes, MemoryRecords, RunRecord
    <3>2. run[r].rule \in Key
      BY <3>1 DEF ShapeInv, RunRight
    <3> QED BY <2>2, <3>1, <3>2 DEF Asked
  <2>3. \/ pending'[t] = pending[t]
        \/ pending'[t] = Nothing
        \/ \E r \in Run : Propose(r) /\ pending'[t] = r
    BY <1>1 DEF MemoryRecords, MemoryNext, memoryVars, Refuse, Receive, FindActive, WriteMemory,
                Audit, Clear, Answer, Propose, Fail, Lapse, Consolidate
  <2> QED BY <1>3, <2>1, <2>2, <2>3
<1>4. ASSUME NEW m \in Run
      PROVE  RowRight(m)'
  <2>1. RowRight(m)
    BY DEF ShapeInv
  <2>2. ASSUME memory'[m].proposal = memory[m].proposal,
               memory'[m].status # "absent" => memory[m].status # "absent"
        PROVE  RowRight(m)'
    <3> SUFFICES ASSUME memory'[m].status # "absent"
                 PROVE  RowRight(m)'
      BY DEF RowRight
    <3>1. PICK p : p = memory[m].proposal
      OBVIOUS
    <3>2. Asked(p)'
      BY <1>1, <2>1, <2>2, <3>1, AskedStays DEF RowRight
    <3>3. run'[m].at \notin {"new", "deciding", "saving"}
      BY <1>1, <2>1, <2>2, RunPath DEF RowRight
    <3> QED BY <2>2, <3>1, <3>2, <3>3 DEF RowRight
  <2>3. ASSUME NEW r \in Run, WriteMemory(r)
        PROVE  RowRight(m)'
    <3>1. run[r].at = "saving" /\ run'[r].at = "auditing" /\ memory' = Written(r)
      BY <1>1, <2>3 DEF WriteMemory, RunGoes, MemoryRecords, RunRecord
    <3>2. Asked(run[r].held)
      BY <3>1 DEF ShapeInv, RunRight
    <3>3. PICK p \in Run : p = run[r].held
      BY <3>2 DEF Asked
    <3>4. Asked(p)'
      BY <1>1, <3>2, <3>3, AskedStays
    <3>5. CASE memory'[m] = memory[m]
      BY <2>2, <3>5
    <3>6. CASE m = r /\ memory'[m].proposal = p
      BY <3>1, <3>4, <3>6 DEF RowRight
    <3>7. CASE memory'[m].proposal = p /\ memory'[m].status = memory[m].status
      BY <1>1, <2>1, <3>4, <3>7, RunPath DEF RowRight
    <3> QED BY <1>1, <3>1, <3>3, <3>5, <3>6, <3>7, WrittenFacts
  <2>4. CASE UNCHANGED memory
    BY <2>2, <2>4
  <2>5. ASSUME NEW r \in Run, Lapse(r)
        PROVE  RowRight(m)'
    BY <1>1, <2>2, <2>5 DEF Lapse, MemoryRecords, Row
  <2>6. CASE Consolidate
    BY <1>1, <2>2, <2>6 DEF Consolidate, MemoryRecords, Row
  <2> QED BY <2>3, <2>4, <2>5, <2>6
          DEF MemoryNext, memoryVars, Refuse, Receive, FindActive, Audit, Clear, Answer, Propose,
              Fail
<1> QED BY <1>1, <1>2, <1>3, <1>4 DEF ShapeInv

(* A rule has one active memory; what the SELECT of a run that saves one has *)
(* found is still so, but for the status of the row; and a rule that was     *)
(* saved and does not lapse is in force.                                     *)
Active(m)   == memory[m].status = "active"
Stored(m)   == memory[m].status # "absent"
RuleHeld(r) == run[run[r].held].rule
OneActive   == \A m, n \in Run : Active(m) /\ Active(n) /\ RuleOf(m) = RuleOf(n) => m = n
SaverRight(r) ==
    run[r].at = "saving" =>
        /\ run[r].row = Nothing => \A m \in Run : Active(m) => RuleOf(m) # RuleHeld(r)
        /\ run[r].row # Nothing => Stored(run[r].row) /\ RuleOf(run[r].row) = RuleHeld(r)
Lasting == CarrierRule \cup Preference
InForce(m) == Stored(m) /\ RuleOf(m) \in Lasting =>
                  \E n \in Run : Active(n) /\ RuleOf(n) = RuleOf(m)
RuleInv == /\ ShapeInv /\ OneActive
           /\ \A r \in Run : SaverRight(r) /\ InForce(r)
OneSaver == \A key \in Key : Cardinality(Saving(key)) <= 1

(* A row that keeps its proposal keeps its rule.                             *)
LEMMA RuleStays ==
  ASSUME ShapeInv, [MemoryNext]_memoryVars, NEW m \in Run, Stored(m),
         memory'[m].proposal = memory[m].proposal
  PROVE  RuleOf(m)' = RuleOf(m)
<1>1. PICK p : p = memory[m].proposal /\ Asked(p) /\ MemoryRecords
  BY DEF ShapeInv, RowRight, Stored
<1> QED BY <1>1, AskedStays DEF RuleOf

(* A run that saves goes on saving the same rule.                            *)
LEMMA HeldStays ==
  ASSUME ShapeInv, [MemoryNext]_memoryVars, NEW r \in Run, run'[r].at = "saving"
  PROVE  RuleHeld(r)' = RuleHeld(r)
<1>1. run[r].at \in {"deciding", "saving"} /\ run'[r].held = run[r].held
  BY RunFrame DEF ShapeInv
<1>2. PICK p : p = run[r].held /\ Asked(p) /\ MemoryRecords
  BY <1>1 DEF ShapeInv, RunRight
<1> QED BY <1>1, <1>2, AskedStays DEF RuleHeld

(* Where the rows keep their status and their rule, the rest is kept too.    *)
LEMMA SameRows ==
  ASSUME RuleInv, [MemoryNext]_memoryVars,
         \A m \in Run : /\ memory'[m].status = memory[m].status
                        /\ Stored(m) => RuleOf(m)' = RuleOf(m)
  PROVE  OneActive' /\ \A r \in Run : SaverRight(r)' /\ InForce(r)'
<1>1. \A m \in Run : /\ Active(m)' <=> Active(m)
                     /\ Stored(m)' <=> Stored(m)
                     /\ Active(m) => Stored(m)
                     /\ Stored(m) => RuleOf(m)' = RuleOf(m)
  BY DEF Active, Stored
<1>2. OneActive'
  BY <1>1 DEF RuleInv, OneActive
<1>3. \A r \in Run : InForce(r)'
  BY <1>1 DEF RuleInv, InForce
<1>4. ASSUME NEW r \in Run, run'[r].at = "saving"
      PROVE  SaverRight(r)'
  <2>1. RuleHeld(r)' = RuleHeld(r) /\ MemoryRecords /\ MemoryRecords'
    BY <1>4, HeldStays, MemoryRecordsStep DEF RuleInv, ShapeInv
  <2>2. PICK row \in Run \cup {Nothing} : row = run'[r].row
    BY <2>1 DEF MemoryRecords, RunRecord
  <2>3. /\ row = Nothing => \A m \in Run : Active(m) => RuleOf(m) # RuleHeld(r)
        /\ row # Nothing => Stored(row) /\ RuleOf(row) = RuleHeld(r)
    <3>1. CASE run'[r] = run[r]
      BY <1>4, <2>2, <3>1 DEF RuleInv, SaverRight
    <3>2. CASE FindActive(r)
      <4>1. row \in IF ActiveFor(RuleHeld(r)) = {} THEN {Nothing} ELSE ActiveFor(RuleHeld(r))
        BY <2>1, <2>2, <3>2, SMTT(30) DEF FindActive, RuleHeld, MemoryRecords, RunRecord
      <4> QED BY <4>1, MemoryAssumption DEF ActiveFor, Active, Stored
    <3> QED BY <1>4, <2>1, <3>1, <3>2, RunPath
  <2>4. /\ row = Nothing => \A m \in Run : Active(m)' => RuleOf(m)' # RuleHeld(r)'
        /\ row # Nothing => Stored(row)' /\ RuleOf(row)' = RuleHeld(r)'
    BY <1>1, <2>1, <2>2, <2>3
  <2> QED BY <2>2, <2>4 DEF SaverRight, Stored, RuleOf
<1> QED BY <1>2, <1>3, <1>4 DEF SaverRight

(* While one run saves a rule at a time, the row it found active is the only *)
(* one.                                                                      *)
LEMMA RuleStep ==
  ASSUME RuleInv, OneSaver, [MemoryNext]_memoryVars
  PROVE  RuleInv'
<1>1. ShapeInv /\ ShapeInv' /\ MemoryRecords /\ MemoryRecords'
  BY ShapeStep DEF RuleInv, ShapeInv
<1> SUFFICES OneActive' /\ \A r \in Run : SaverRight(r)' /\ InForce(r)'
  BY <1>1 DEF RuleInv
<1>2. CASE UNCHANGED memory
  BY <1>1, <1>2, SameRows, RuleStays
<1>3. ASSUME NEW m \in Run, Lapse(m)
      PROVE  OneActive' /\ \A r \in Run : SaverRight(r)' /\ InForce(r)'
  <2>1. \A n \in Run : memory'[n].status = memory[n].status
                       /\ memory'[n].proposal = memory[n].proposal
    BY <1>1, <1>3 DEF Lapse, MemoryRecords, Row
  <2> QED BY <1>1, <2>1, SameRows, RuleStays
<1>4. CASE Consolidate
  <2>1. PICK kept \in SUBSET {m \in Run : Active(m)} :
          /\ \A key \in CarrierRule : ActiveFor(key) # {} =>
                Cardinality(kept \cap ActiveFor(key)) = 1
          /\ \A key \in Preference : ActiveFor(key) \subseteq kept
          /\ memory' = [m \in Run |->
                IF memory[m].status # "active" \/ m \in kept THEN memory[m]
                ELSE [memory[m] EXCEPT !.status =
                         IF RuleOf(m) \in Transient THEN "expired" ELSE "superseded"]]
    BY <1>4 DEF Consolidate, Active
  <2>2. run' = run
    BY <1>4 DEF Consolidate
  <2>3. \A m \in Run : /\ memory'[m].proposal = memory[m].proposal
                       /\ Stored(m)' <=> Stored(m)
                       /\ Active(m)' => Active(m)
                       /\ m \in kept => Active(m)'
                       /\ Active(m) => Stored(m)
    BY <1>1, <2>1 DEF MemoryRecords, Row, Active, Stored
  <2>4. \A m \in Run : RuleOf(m)' = RuleOf(m) /\ RuleHeld(m)' = RuleHeld(m)
    BY <2>2, <2>3 DEF RuleOf, RuleHeld
  <2>5. OneActive'
    BY <2>3, <2>4 DEF RuleInv, OneActive
  <2>6. ASSUME NEW r \in Run
        PROVE  SaverRight(r)'
    <3>1. SaverRight(r) /\ run[r].row \in Run \cup {Nothing}
      BY <1>1 DEF RuleInv, MemoryRecords, RunRecord
    <3>2. PICK row \in Run \cup {Nothing} : row = run[r].row
      BY <3>1
    <3>3. run[r].at = "saving" =>
            /\ row = Nothing => \A m \in Run : Active(m)' => RuleOf(m)' # RuleHeld(r)'
            /\ row # Nothing => Stored(row)' /\ RuleOf(row)' = RuleHeld(r)'
      BY <2>3, <2>4, <3>1, <3>2 DEF SaverRight
    <3> QED BY <2>2, <3>2, <3>3 DEF SaverRight, Stored, RuleOf
  <2>7. ASSUME NEW r \in Run, Stored(r)', RuleOf(r)' \in Lasting
        PROVE  \E n \in Run : Active(n)' /\ RuleOf(n)' = RuleOf(r)'
    <3> DEFINE K == kept \cap ActiveFor(RuleOf(r))
    <3>1. \E n \in Run : Active(n) /\ RuleOf(n) = RuleOf(r)
      BY <2>3, <2>4, <2>7 DEF RuleInv, InForce
    <3>2. Cardinality(K) = 1 \/ ActiveFor(RuleOf(r)) \subseteq kept
      BY <2>1, <2>4, <2>7, <3>1 DEF ActiveFor, Active, Lasting
    <3>3. K # {}
      BY <3>1, <3>2, FS_EmptySet DEF ActiveFor, Active
    <3>4. PICK n \in K : TRUE
      BY <3>3
    <3> QED BY <2>1, <2>3, <2>4, <3>4 DEF ActiveFor
  <2> QED BY <2>5, <2>6, <2>7 DEF InForce
<1>5. ASSUME NEW r \in Run, WriteMemory(r)
      PROVE  OneActive' /\ \A q \in Run : SaverRight(q)' /\ InForce(q)'
  <2>1. /\ run[r].at = "saving" /\ run'[r].at = "auditing" /\ memory' = Written(r)
        /\ \A q \in Run \ {r} : run'[q] = run[q]
        /\ run[r].row \in Run \cup {Nothing}
    BY <1>1, <1>5 DEF WriteMemory, RunGoes, MemoryRecords, RunRecord
  <2>2. PICK p \in Run : p = run[r].held /\ Asked(p)
    BY <1>1, <2>1 DEF ShapeInv, RunRight, Asked
  <2>3. run'[p].rule = run[p].rule /\ RuleHeld(r) = run[p].rule /\ run[p].rule \in Key
    BY <1>1, <2>2, AskedStays DEF RuleHeld, Asked
  <2>4. CASE run[r].row # Nothing
    <3>1. Stored(run[r].row) /\ RuleOf(run[r].row) = run[p].rule
      BY <2>1, <2>3, <2>4 DEF RuleInv, SaverRight
    <3>2. ASSUME NEW m \in Run
          PROVE  /\ memory'[m].status = memory[m].status
                 /\ Stored(m) => RuleOf(m)' = RuleOf(m)
      <4>1. CASE memory'[m] = memory[m]
        BY <1>1, <4>1, RuleStays
      <4>2. CASE m = run[r].row /\ memory'[m].proposal = p /\ memory'[m].status = memory[m].status
        BY <2>3, <3>1, <4>2 DEF RuleOf
      <4> QED BY <1>1, <2>1, <2>2, <2>4, <4>1, <4>2, WrittenFacts
    <3> QED BY <3>2, SameRows
  <2>5. CASE run[r].row = Nothing
    <3>1. ~Stored(r)
      BY <1>1, <2>1 DEF ShapeInv, RowRight, Stored
    <3>2. /\ memory'[r].proposal = p /\ memory'[r].status = "active"
          /\ \A m \in Run \ {r} : memory'[m] = memory[m]
      BY <1>1, <2>1, <2>2, <2>5 DEF Written, Added, MemoryRecords, Row
    <3>3. Active(r)' /\ Stored(r)' /\ RuleOf(r)' = run[p].rule
      BY <2>3, <3>2 DEF Active, Stored, RuleOf
    <3>4. ASSUME NEW m \in Run, m # r
          PROVE  /\ Active(m)' <=> Active(m)
                 /\ Stored(m)' <=> Stored(m)
                 /\ Active(m) => Stored(m)
                 /\ Stored(m) => RuleOf(m)' = RuleOf(m)
      BY <1>1, <3>2, <3>4, RuleStays DEF Active, Stored
    <3>5. \A m \in Run : Active(m) => RuleOf(m) # run[p].rule
      BY <2>1, <2>3, <2>5 DEF RuleInv, SaverRight
    <3>6. OneActive'
      BY <3>3, <3>4, <3>5 DEF RuleInv, OneActive
    <3>7. ASSUME NEW q \in Run
          PROVE  InForce(q)'
      <4>1. CASE q = r
        BY <3>3, <4>1 DEF InForce
      <4>2. CASE q # r
        <5> SUFFICES ASSUME Stored(q)', RuleOf(q)' \in Lasting
                     PROVE  \E n \in Run : Active(n)' /\ RuleOf(n)' = RuleOf(q)'
          BY DEF InForce
        <5>1. PICK n \in Run : Active(n) /\ RuleOf(n) = RuleOf(q)
          BY <3>4, <4>2 DEF RuleInv, InForce
        <5>2. n # r
          BY <3>1, <5>1 DEF Active, Stored
        <5> QED BY <3>4, <4>2, <5>1, <5>2
      <4> QED BY <4>1, <4>2
    <3>8. ASSUME NEW q \in Run, run'[q].at = "saving"
          PROVE  SaverRight(q)'
      <4>1. q # r /\ run'[q] = run[q] /\ SaverRight(q) /\ run[q].row \in Run \cup {Nothing}
            /\ RuleHeld(q)' = RuleHeld(q)
        BY <1>1, <2>1, <3>8, HeldStays DEF RuleInv, MemoryRecords, RunRecord
      <4>2. RuleHeld(q) # run[p].rule
        <5> SUFFICES ASSUME RuleHeld(q) = run[p].rule PROVE FALSE
          OBVIOUS
        <5>1. q \in Saving(run[p].rule) /\ r \in Saving(run[p].rule)
          BY <2>1, <2>3, <3>8, <4>1 DEF Saving, RuleHeld
        <5>2. IsFiniteSet(Saving(run[p].rule)) /\ Cardinality(Saving(run[p].rule)) <= 1
          BY <2>3, MemoryAssumption, FS_Subset DEF OneSaver, Saving
        <5> QED BY <4>1, <5>1, <5>2, OneOfOne
      <4>3. PICK row \in Run \cup {Nothing} : row = run[q].row
        BY <4>1
      <4>4. /\ row = Nothing => \A m \in Run : Active(m) => RuleOf(m) # RuleHeld(q)
            /\ row # Nothing => row # r /\ Stored(row) /\ RuleOf(row) = RuleHeld(q)
        BY <3>1, <3>8, <4>1, <4>3 DEF SaverRight
      <4>5. /\ row = Nothing => \A m \in Run : Active(m)' => RuleOf(m)' # RuleHeld(q)'
            /\ row # Nothing => Stored(row)' /\ RuleOf(row)' = RuleHeld(q)'
        BY <3>3, <3>4, <4>1, <4>2, <4>3, <4>4
      <4> QED BY <4>1, <4>3, <4>5 DEF SaverRight, Stored, RuleOf
    <3> QED BY <3>6, <3>7, <3>8 DEF SaverRight
  <2> QED BY <2>4, <2>5
<1> QED BY <1>2, <1>3, <1>4, <1>5
        DEF MemoryNext, memoryVars, Refuse, Receive, FindActive, Audit, Clear, Answer, Propose, Fail

(* While the runs that save one rule do so one after another, a rule has at  *)
(* most one active memory, and one that does not lapse stays in force once it*)
(* is saved, whatever consolidations come between the SELECT of a run and its*)
(* write (save_approved_memory, consolidate).                                *)
THEOREM RuleHasOneMemory == MemorySpec => OneActivePerRule
<1>1. MemoryInit => RuleInv
  <2> SUFFICES ASSUME MemoryInit PROVE RuleInv
    OBVIOUS
  <2>1. MemoryRecords
    BY DEF MemoryInit, MemoryRecords, Row, RunRecord, RunPlaces, Intent
  <2>2. \A r \in Run : memory[r].status = "absent" /\ run[r].at = "new"
    BY DEF MemoryInit
  <2>3. ShapeInv
    BY <2>1, <2>2 DEF MemoryInit, ShapeInv, RunRight, RowRight
  <2> QED BY <2>2, <2>3 DEF RuleInv, OneActive, SaverRight, InForce, Active, Stored
<1>2. RuleInv /\ OneSaver /\ [MemoryNext]_memoryVars => RuleInv'
  BY RuleStep
<1>3. RuleInv => \A key \in Key :
         /\ Cardinality(ActiveFor(key)) <= 1
         /\ (\E m \in Run : memory[m].status # "absent" /\ RuleOf(m) = key)
               /\ key \notin Transient => ActiveFor(key) # {}
  <2> SUFFICES ASSUME RuleInv, NEW key \in Key
               PROVE  /\ Cardinality(ActiveFor(key)) <= 1
                      /\ (\E m \in Run : memory[m].status # "absent" /\ RuleOf(m) = key)
                            /\ key \notin Transient => ActiveFor(key) # {}
    OBVIOUS
  <2>1. \A m, n \in ActiveFor(key) : m = n
    BY DEF RuleInv, OneActive, ActiveFor, Active
  <2>2. Cardinality(ActiveFor(key)) <= 1
    <3>1. CASE ActiveFor(key) = {}
      BY <3>1, FS_EmptySet
    <3>2. ASSUME NEW m \in ActiveFor(key)
          PROVE  Cardinality(ActiveFor(key)) <= 1
      <4>1. ActiveFor(key) = {m} /\ Cardinality({m}) = 1
        BY <2>1, <3>2, FS_Singleton
      <4> QED BY <4>1
    <3> QED BY <3>1, <3>2
  <2>3. ASSUME NEW m \in Run, memory[m].status # "absent", RuleOf(m) = key, key \notin Transient
        PROVE  ActiveFor(key) # {}
    BY <2>3 DEF RuleInv, InForce, Active, Stored, ActiveFor, Lasting, Key
  <2> QED BY <2>2, <2>3
<1> QED BY <1>1, <1>2, <1>3, PTL DEF MemorySpec, OneActivePerRule, OneSaver

(* The thread of a run that decides waits on the proposal it decides, and one*)
(* whose run is about to ask waits on none; what the thread waits on has no  *)
(* answer but by a run that is about to clear it, and what it no longer waits*)
(* on has one; and what is in force was kept.                                *)
WaitsFor(p)   == pending[run[p].thread] = p
Holding       == {"deciding", "saving", "auditing", "clearing"}
HoldsRight(r) == /\ run[r].at \in Holding => /\ Asked(run[r].held)
                                             /\ pending[run[r].thread] = run[r].held
                 /\ run[r].at = "proposing" => pending[run[r].thread] = Nothing
                 /\ run[r].at = "clearing" => \E x \in audit : x.proposal = run[r].held
AnswerRight(x) == /\ Asked(x.proposal)
                  /\ WaitsFor(x.proposal) => \E r \in Run : /\ run[r].at = "clearing"
                                                            /\ run[r].held = x.proposal
AskedRight(p) == Asked(p) /\ ~WaitsFor(p) => \E x \in audit : x.proposal = p
KeptBy(r, p)  == run[r].at = "auditing" /\ run[r].held = p /\ run[r].intent \notin Dropped
WasKept(p)    == \/ \E r \in Run : KeptBy(r, p)
                 \/ \E x \in audit : x.proposal = p /\ x.outcome \notin Dropped
ForceRight(m) == Active(m) => WasKept(memory[m].proposal)

AnswerInv == /\ ShapeInv /\ MemoryInv
             /\ \A t \in Thread : pending[t] # Nothing => run[pending[t]].thread = t
             /\ \A r \in Run : HoldsRight(r) /\ AskedRight(r) /\ ForceRight(r)
             /\ \A x \in audit : AnswerRight(x)
             /\ \A x, y \in audit : x.proposal = y.proposal => x = y

(* A run stays in its thread.                                                *)
LEMMA ThreadStays ==
  ASSUME MemoryRecords, [MemoryNext]_memoryVars, NEW q \in Run
  PROVE  run'[q].thread = run[q].thread
<1> USE DEF MemoryRecords, RunRecord
<1>1. ASSUME NEW r \in Run, Refuse(r) \/ WriteMemory(r) \/ Audit(r) \/ Clear(r) \/ Propose(r)
                            \/ Fail(r)
      PROVE  run'[q].thread = run[q].thread
  <2>1. PICK to : run' = [run EXCEPT ![r].at = to]
    BY <1>1 DEF Refuse, WriteMemory, Audit, Clear, Propose, Fail, RunGoes
  <2> QED BY <2>1
<1>3. ASSUME NEW r \in Run, FindActive(r)
      PROVE  run'[q].thread = run[q].thread
  BY <1>3 DEF FindActive
<1>4. ASSUME NEW r \in Run, Answer(r)
      PROVE  run'[q].thread = run[q].thread
  BY <1>4 DEF Answer
<1>2. ASSUME NEW r \in Run, Receive(r)
      PROVE  run'[q].thread = run[q].thread
  <2>1. ASSUME NEW u, NEW p,
               run' = [run EXCEPT ![r].at = IF Keeps(u.intent) THEN "deciding" ELSE "auditing",
                                  ![r].held = p, ![r].intent = u.intent, ![r].asks = u.asks]
        PROVE  run'[q].thread = run[q].thread
    BY <2>1
  <2>2. CASE run' = [run EXCEPT ![r].at = "asking"]
    BY <2>2
  <2> QED BY <1>2, <2>1, <2>2 DEF Receive
<1> QED BY <1>1, <1>2, <1>3, <1>4 DEF MemoryNext, memoryVars, Lapse, Consolidate

(* The invariant of the audit survives every step.                           *)
LEMMA MemoryInvStep == MemoryInv /\ [MemoryNext]_memoryVars => MemoryInv'
BY MemoryRecordsStep, DecidedStep, HasKeeperStep DEF MemoryInv

(* A step of a run that leaves the store as it is.                           *)
LEMMA QuietStep ==
  ASSUME AnswerInv, [MemoryNext]_memoryVars, NEW r \in Run,
         \A q \in Run \ {r} : run'[q] = run[q],
         pending' = pending, audit' = audit, memory' = memory,
         run[r].at # "clearing",
         run[r].at = "auditing" => \A m \in Run : Active(m) => memory[m].proposal # run[r].held,
         run'[r].at # "proposed", HoldsRight(r)'
  PROVE  AnswerInv'
<1>1. /\ ShapeInv' /\ MemoryInv' /\ MemoryRecords
      /\ \A q \in Run : run'[q].thread = run[q].thread
  BY ShapeStep, ThreadStays, MemoryInvStep DEF AnswerInv, ShapeInv
<1>2. \A t \in Thread : pending'[t] # Nothing => run'[pending'[t]].thread = t
  BY <1>1 DEF AnswerInv, MemoryRecords
<1>3. ASSUME NEW q \in Run
      PROVE  HoldsRight(q)'
  <2>1. CASE q = r
    BY <2>1
  <2>2. CASE q # r
    <3>1. run'[q] = run[q] /\ HoldsRight(q)
      BY <2>2 DEF AnswerInv
    <3>2. PICK p : p = run[q].held
      OBVIOUS
    <3>3. Asked(p) => Asked(p)'
      BY <1>1, AskedStays
    <3> QED BY <3>1, <3>2, <3>3 DEF HoldsRight
  <2> QED BY <2>1, <2>2
<1>4. ASSUME NEW p \in Run
      PROVE  AskedRight(p)'
  <2>1. Asked(p)' => Asked(p)
    BY DEF Asked
  <2> QED BY <1>1, <2>1 DEF AnswerInv, AskedRight, WaitsFor
<1>5. ASSUME NEW x \in audit
      PROVE  AnswerRight(x)'
  <2>1. AnswerRight(x) /\ Asked(x.proposal)' /\ x.proposal \in Run
    BY <1>1, AskedStays DEF AnswerInv, AnswerRight, Asked
  <2>2. WaitsFor(x.proposal)' => WaitsFor(x.proposal)
    BY <1>1, <2>1 DEF WaitsFor
  <2> QED BY <2>1, <2>2 DEF AnswerRight
<1>6. ASSUME NEW m \in Run
      PROVE  ForceRight(m)'
  <2> SUFFICES ASSUME Active(m)
               PROVE  WasKept(memory[m].proposal)'
    BY DEF ForceRight, Active
  <2>1. WasKept(memory[m].proposal)
    BY DEF AnswerInv, ForceRight
  <2>2. \A q \in Run : KeptBy(q, memory[m].proposal) => q # r
    BY DEF KeptBy
  <2>3. \A q \in Run : KeptBy(q, memory[m].proposal) => KeptBy(q, memory[m].proposal)'
    BY <2>2 DEF KeptBy
  <2> QED BY <2>1, <2>3 DEF WasKept
<1> QED BY <1>1, <1>2, <1>3, <1>4, <1>5, <1>6 DEF AnswerInv

(* Two runs of one thread that are under way are one.                        *)
LEMMA OneUnderway ==
  ASSUME OneRunPerThread, NEW r \in Run, NEW q \in Run, Underway(r), Underway(q),
         run[r].thread = run[q].thread
  PROVE  r = q
BY DEF OneRunPerThread

(* The steps of a run that write nothing, or fail.                           *)
LEMMA AnswerQuiet ==
  ASSUME AnswerInv, NoneHalfWritten', [MemoryNext]_memoryVars, NEW r \in Run,
         Refuse(r) \/ Receive(r) \/ FindActive(r) \/ Answer(r) \/ Fail(r)
  PROVE  AnswerInv'
<1>1. /\ MemoryRecords /\ HoldsRight(r) /\ run[r].thread \in Thread
      /\ run'[r].thread = run[r].thread
  BY ThreadStays DEF AnswerInv, ShapeInv, MemoryRecords, RunRecord
<1>2. pending' = pending /\ audit' = audit /\ memory' = memory
  BY DEF Refuse, Receive, FindActive, Answer, Fail
<1>3. \A q \in Run \ {r} : run'[q] = run[q]
  BY <1>1 DEF Refuse, Receive, FindActive, Answer, Fail, RunGoes, MemoryRecords
<1>4. CASE Refuse(r)
  <2>1. run[r].at = "new" /\ run'[r].at = "ended"
    BY <1>1, <1>4 DEF Refuse, RunGoes, MemoryRecords, RunRecord
  <2>2. HoldsRight(r)'
    BY <2>1 DEF HoldsRight, Holding
  <2> QED BY <1>2, <1>3, <2>1, <2>2, QuietStep
<1>5. CASE Receive(r)
  <2>1. /\ run[r].at = "new"
        /\ \/ run'[r].at = "asking"
           \/ /\ run'[r].at \in {"deciding", "auditing"}
              /\ run'[r].held = pending[run[r].thread] /\ pending[run[r].thread] # Nothing
    <3>0. run[r].at = "new"
      BY <1>5 DEF Receive
    <3>1. CASE run' = [run EXCEPT ![r].at = "asking"]
      <4>1. run'[r].at = "asking"
        BY <1>1, <3>1 DEF MemoryRecords
      <4> QED BY <3>0, <4>1
    <3>2. ASSUME NEW u, pending[run[r].thread] # Nothing,
                 run' = [run EXCEPT ![r].at = IF Keeps(u.intent) THEN "deciding" ELSE "auditing",
                                    ![r].held = pending[run[r].thread], ![r].intent = u.intent,
                                    ![r].asks = u.asks]
          PROVE  /\ run'[r].at \in {"deciding", "auditing"}
                 /\ run'[r].held = pending[run[r].thread]
      <4>1. /\ run'[r].at = IF Keeps(u.intent) THEN "deciding" ELSE "auditing"
            /\ run'[r].held = pending[run[r].thread]
        BY <1>1, <3>2 DEF MemoryRecords, RunRecord
      <4> QED BY <4>1
    <3> QED BY <1>5, <3>0, <3>1, <3>2 DEF Receive
  <2>2. CASE run'[r].at = "asking"
    <3>1. HoldsRight(r)'
      BY <2>2 DEF HoldsRight, Holding
    <3> QED BY <1>2, <1>3, <2>1, <2>2, <3>1, QuietStep
  <2>3. CASE /\ run'[r].at \in {"deciding", "auditing"}
             /\ run'[r].held = pending[run[r].thread] /\ pending[run[r].thread] # Nothing
    <3>1. PICK p : p = pending[run[r].thread] /\ Asked(p)
      BY <1>1, <2>3 DEF AnswerInv, ShapeInv
    <3>2. Asked(p)'
      BY <1>1, <3>1, AskedStays
    <3>3. HoldsRight(r)'
      BY <1>1, <1>2, <2>3, <3>1, <3>2 DEF HoldsRight, Holding
    <3> QED BY <1>2, <1>3, <2>1, <2>3, <3>3, QuietStep
  <2> QED BY <2>1, <2>2, <2>3
<1>6. CASE FindActive(r)
  <2>1. run[r].at = "deciding" /\ run'[r].at = "saving" /\ run'[r].held = run[r].held
    BY <1>1, <1>6, ZenonT(60) DEF FindActive, MemoryRecords, RunRecord
  <2>2. PICK p : p = run[r].held /\ Asked(p)
    BY <1>1, <2>1 DEF HoldsRight, Holding
  <2>3. Asked(p)'
    BY <1>1, <2>2, AskedStays
  <2>4. HoldsRight(r)'
    BY <1>1, <1>2, <2>1, <2>2, <2>3 DEF HoldsRight, Holding
  <2> QED BY <1>2, <1>3, <2>1, <2>4, QuietStep
<1>7. CASE Answer(r)
  <2>1. /\ run[r].at = "asking"
        /\ \/ run'[r].at = "ended"
           \/ run'[r].at = "proposing" /\ pending[run[r].thread] = Nothing
    BY <1>1, <1>7 DEF Answer, LooksForRule, MemoryRecords, RunRecord
  <2>2. HoldsRight(r)'
    BY <1>1, <1>2, <2>1 DEF HoldsRight, Holding
  <2> QED BY <1>2, <1>3, <2>1, <2>2, QuietStep
<1>8. CASE Fail(r)
  <2>1. /\ run[r].at \notin {"proposed", "ended", "failed"} /\ run'[r].at = "failed"
        /\ run'[r].held = run[r].held
    BY <1>1, <1>8 DEF Fail, MemoryRecords, RunRecord
  <2>2. HoldsRight(r)'
    BY <2>1 DEF HoldsRight, Holding
  <2>3. CASE run[r].at \notin {"auditing", "clearing"}
    BY <1>2, <1>3, <2>1, <2>2, <2>3, QuietStep
  <2>4. CASE run[r].at \in {"auditing", "clearing"}
    <3>1. /\ Asked(run[r].held) /\ pending[run[r].thread] = run[r].held
          /\ run[r].held # Nothing
      BY <1>1, <2>4, MemoryAssumption DEF HoldsRight, Holding, Asked
    <3>2. AnswersTo(run[r].held)' = {} /\ ~InMemory(run[r].held)'
      BY <1>1, <1>2, <2>1, <3>1 DEF NoneHalfWritten
    <3>3. \A x \in audit : x.proposal # run[r].held
      BY <1>2, <2>1, <3>2 DEF AnswersTo
    <3>4. \A m \in Run : Active(m) => memory[m].proposal # run[r].held
      BY <1>2, <2>1, <3>2 DEF InMemory, Active
    <3>5. run[r].at # "clearing"
      BY <1>1, <3>3 DEF HoldsRight
    <3> QED BY <1>2, <1>3, <2>1, <2>2, <3>4, <3>5, QuietStep
  <2> QED BY <2>3, <2>4
<1> QED BY <1>4, <1>5, <1>6, <1>7, <1>8

(* What is common to the steps that write: the runs but r stay, r keeps what *)
(* it holds, and what was asked is still asked.                              *)
LEMMA WriterFacts ==
  ASSUME AnswerInv, [MemoryNext]_memoryVars, NEW r \in Run, NEW from, NEW to \in RunPlaces,
         RunGoes(r, from, to)
  PROVE  /\ ShapeInv' /\ MemoryInv' /\ MemoryRecords
         /\ run[r].at = from /\ run'[r].at = to /\ run[r].thread \in Thread
         /\ \A q \in Run : /\ run'[q].held = run[q].held /\ run'[q].intent = run[q].intent
                           /\ run'[q].thread = run[q].thread
                           /\ q # r => run'[q] = run[q]
         /\ \A p : Asked(p) => Asked(p)'
BY ShapeStep, ThreadStays, MemoryInvStep, AskedStays, RunGoesFacts
   DEF AnswerInv, ShapeInv, MemoryRecords, RunRecord

(* Writing a memory answers its proposal with keeping, and with nothing      *)
(* else.                                                                     *)
LEMMA AnswerWrite ==
  ASSUME AnswerInv, [MemoryNext]_memoryVars, NEW r \in Run, WriteMemory(r)
  PROVE  AnswerInv'
<1>1. /\ ShapeInv' /\ MemoryInv' /\ MemoryRecords
      /\ run[r].at = "saving" /\ run'[r].at = "auditing" /\ run[r].thread \in Thread
      /\ \A q \in Run : /\ run'[q].held = run[q].held /\ run'[q].intent = run[q].intent
                        /\ run'[q].thread = run[q].thread
                        /\ q # r => run'[q] = run[q]
      /\ \A p : Asked(p) => Asked(p)'
      /\ pending' = pending /\ audit' = audit /\ memory' = Written(r)
  BY WriterFacts DEF WriteMemory, RunPlaces
<1>2. HoldsRight(r) /\ run[r].intent \notin Dropped
  BY <1>1 DEF AnswerInv, MemoryInv, Decided
<1>3. \A t \in Thread : pending'[t] # Nothing => run'[pending'[t]].thread = t
  BY <1>1 DEF AnswerInv, MemoryRecords
<1>4. ASSUME NEW q \in Run
      PROVE  HoldsRight(q)'
  <2>1. PICK p : p = run[q].held
    OBVIOUS
  <2>2. HoldsRight(q) /\ (Asked(p) => Asked(p)')
    BY <1>1 DEF AnswerInv
  <2>3. q = r \/ run'[q].at = run[q].at
    BY <1>1
  <2> QED BY <1>1, <2>1, <2>2, <2>3 DEF HoldsRight, Holding
<1>5. ASSUME NEW p \in Run
      PROVE  AskedRight(p)'
  <2>1. Asked(p)' => Asked(p)
    BY <1>1 DEF Asked
  <2> QED BY <1>1, <2>1 DEF AnswerInv, AskedRight, WaitsFor
<1>6. ASSUME NEW x \in audit
      PROVE  AnswerRight(x)'
  <2>1. AnswerRight(x) /\ Asked(x.proposal)' /\ x.proposal \in Run
    BY <1>1 DEF AnswerInv, AnswerRight, Asked
  <2>2. WaitsFor(x.proposal)' => WaitsFor(x.proposal)
    BY <1>1, <2>1 DEF WaitsFor
  <2> QED BY <1>1, <2>1, <2>2 DEF AnswerRight
<1>7. ASSUME NEW m \in Run
      PROVE  ForceRight(m)'
  <2>1. \A p : WasKept(p) => WasKept(p)'
    BY <1>1 DEF WasKept, KeptBy
  <2>2. WasKept(run[r].held)'
    BY <1>1, <1>2 DEF WasKept, KeptBy
  <2>3. CASE memory'[m] = memory[m]
    BY <2>1, <2>3 DEF AnswerInv, ForceRight, Active
  <2>4. CASE memory'[m].proposal = run[r].held
    BY <1>1, <2>2, <2>4 DEF ForceRight
  <2> QED BY <1>1, <2>3, <2>4, WrittenFacts
<1> QED BY <1>1, <1>3, <1>4, <1>5, <1>6, <1>7 DEF AnswerInv

(* An audit record answers the proposal that its thread still waits for.     *)
LEMMA AnswerAudit ==
  ASSUME AnswerInv, OneRunPerThread, [MemoryNext]_memoryVars, NEW r \in Run, Audit(r)
  PROVE  AnswerInv'
<1>1. /\ ShapeInv' /\ MemoryInv' /\ MemoryRecords
      /\ run[r].at = "auditing" /\ run'[r].at = "clearing" /\ run[r].thread \in Thread
      /\ \A q \in Run : /\ run'[q].held = run[q].held /\ run'[q].intent = run[q].intent
                        /\ run'[q].thread = run[q].thread
                        /\ q # r => run'[q] = run[q]
      /\ \A p : Asked(p) => Asked(p)'
      /\ pending' = pending /\ audit' = audit \cup {Record(r)} /\ memory' = memory
  BY WriterFacts DEF Audit, RunPlaces, Record
<1>2. PICK p : p = run[r].held /\ Asked(p) /\ pending[run[r].thread] = p /\ p \in Run
  BY <1>1 DEF AnswerInv, HoldsRight, Holding, Asked
<1>3. run[p].thread = run[r].thread /\ WaitsFor(p)
  BY <1>1, <1>2, MemoryAssumption DEF AnswerInv, WaitsFor
<1>4. ASSUME NEW x \in audit, x.proposal = p
      PROVE  FALSE
  <2>1. PICK q \in Run : run[q].at = "clearing" /\ run[q].held = p
    BY <1>3, <1>4 DEF AnswerInv, AnswerRight
  <2>2. pending[run[q].thread] = p /\ run[q].thread \in Thread
    BY <1>1, <2>1 DEF AnswerInv, HoldsRight, Holding, MemoryRecords, RunRecord
  <2>3. run[q].thread = run[r].thread
    BY <1>2, <1>3, <2>2, MemoryAssumption DEF AnswerInv
  <2> QED BY <1>1, <2>1, <2>3, OneUnderway DEF Underway
<1>5. \A t \in Thread : pending'[t] # Nothing => run'[pending'[t]].thread = t
  BY <1>1 DEF AnswerInv, MemoryRecords
<1>6. ASSUME NEW q \in Run
      PROVE  HoldsRight(q)'
  <2>1. PICK h : h = run[q].held
    OBVIOUS
  <2>2. HoldsRight(q) /\ (Asked(h) => Asked(h)')
    BY <1>1 DEF AnswerInv
  <2>3. q = r \/ run'[q].at = run[q].at
    BY <1>1
  <2>4. Record(r).proposal = run[r].held
    BY DEF Record
  <2> QED BY <1>1, <2>1, <2>2, <2>3, <2>4 DEF HoldsRight, Holding
<1>7. ASSUME NEW a \in Run
      PROVE  AskedRight(a)'
  <2>1. Asked(a)' => Asked(a)
    BY <1>1 DEF Asked
  <2> QED BY <1>1, <2>1 DEF AnswerInv, AskedRight, WaitsFor
<1>8. ASSUME NEW x \in audit'
      PROVE  AnswerRight(x)'
  <2>1. CASE x = Record(r)
    BY <1>1, <1>2, <2>1 DEF AnswerRight, Record
  <2>2. CASE x \in audit
    <3>1. AnswerRight(x) /\ Asked(x.proposal)' /\ x.proposal \in Run
      BY <1>1, <2>2 DEF AnswerInv, AnswerRight, Asked
    <3>2. WaitsFor(x.proposal)' => WaitsFor(x.proposal)
      BY <1>1, <3>1 DEF WaitsFor
    <3> QED BY <1>1, <3>1, <3>2 DEF AnswerRight
  <2> QED BY <1>1, <2>1, <2>2
<1>9. \A x, y \in audit' : x.proposal = y.proposal => x = y
  BY <1>1, <1>2, <1>4 DEF AnswerInv, Record
<1>10. ASSUME NEW m \in Run
       PROVE  ForceRight(m)'
  <2>1. ASSUME NEW h, KeptBy(r, h)
        PROVE  WasKept(h)'
    <3>1. PICK x : x = Record(r)
      OBVIOUS
    <3>2. x \in audit' /\ x.proposal = h /\ x.outcome \notin Dropped
      BY <1>1, <2>1, <3>1 DEF KeptBy, Record
    <3> QED BY <3>2 DEF WasKept
  <2>2. \A h : WasKept(h) => WasKept(h)'
    <3> SUFFICES ASSUME NEW h, WasKept(h) PROVE WasKept(h)'
      OBVIOUS
    <3>1. CASE KeptBy(r, h)
      BY <2>1, <3>1
    <3>2. CASE \E q \in Run \ {r} : KeptBy(q, h)
      BY <1>1, <3>2 DEF KeptBy, WasKept
    <3>3. CASE \E x \in audit : x.proposal = h /\ x.outcome \notin Dropped
      BY <1>1, <3>3 DEF WasKept
    <3> QED BY <3>1, <3>2, <3>3 DEF WasKept
  <2> QED BY <1>1, <2>2 DEF AnswerInv, ForceRight, Active
<1> QED BY <1>1, <1>5, <1>6, <1>7, <1>8, <1>9, <1>10 DEF AnswerInv

(* A thread stops waiting only for a proposal that was answered.             *)
LEMMA AnswerClear ==
  ASSUME AnswerInv, OneRunPerThread, [MemoryNext]_memoryVars, NEW r \in Run, Clear(r)
  PROVE  AnswerInv'
<1>1. /\ ShapeInv' /\ MemoryInv' /\ MemoryRecords
      /\ run[r].at = "clearing" /\ run'[r].at = "asking" /\ run[r].thread \in Thread
      /\ \A q \in Run : /\ run'[q].held = run[q].held /\ run'[q].intent = run[q].intent
                        /\ run'[q].thread = run[q].thread
                        /\ q # r => run'[q] = run[q]
      /\ \A p : Asked(p) => Asked(p)'
      /\ audit' = audit /\ memory' = memory
      /\ pending' = [pending EXCEPT ![run[r].thread] = Nothing]
  BY WriterFacts DEF Clear, RunPlaces
<1>2. \A q \in Run : run[q].thread \in Thread /\ HoldsRight(q)
  BY <1>1 DEF AnswerInv, MemoryRecords, RunRecord
<1>3. /\ pending[run[r].thread] = run[r].held
      /\ \E x \in audit : x.proposal = run[r].held
  BY <1>1, <1>2 DEF HoldsRight, Holding
<1>4. \A t \in Thread : \/ pending'[t] = pending[t]
                        \/ t = run[r].thread /\ pending'[t] = Nothing
  BY <1>1 DEF MemoryRecords
<1>5. \A t \in Thread : pending'[t] # Nothing => run'[pending'[t]].thread = t
  BY <1>1, <1>4 DEF AnswerInv, MemoryRecords
<1>6. ASSUME NEW q \in Run
      PROVE  HoldsRight(q)'
  <2>1. CASE q = r
    BY <1>1, <2>1 DEF HoldsRight, Holding
  <2>2. CASE q # r /\ run[q].at \in Holding \cup {"proposing"}
    <3>1. run[q].thread # run[r].thread
      BY <1>1, <2>2, OneUnderway DEF Underway, Holding
    <3>2. PICK h : h = run[q].held /\ (Asked(h) => Asked(h)')
      BY <1>1
    <3> QED BY <1>1, <1>2, <1>4, <2>2, <3>1, <3>2 DEF HoldsRight
  <2>3. CASE q # r /\ run[q].at \notin Holding \cup {"proposing"}
    BY <1>1, <2>3 DEF HoldsRight, Holding
  <2> QED BY <2>1, <2>2, <2>3
<1>7. ASSUME NEW p \in Run
      PROVE  AskedRight(p)'
  <2> SUFFICES ASSUME Asked(p), ~WaitsFor(p)'
               PROVE  \E x \in audit : x.proposal = p
    BY <1>1 DEF AskedRight, Asked
  <2>1. CASE ~WaitsFor(p)
    BY <2>1 DEF AnswerInv, AskedRight
  <2>2. CASE WaitsFor(p)
    <3>1. pending[run[p].thread] = p /\ pending'[run[p].thread] # p /\ run[p].thread \in Thread
      BY <1>1, <1>2, <2>2 DEF WaitsFor
    <3>2. p = run[r].held
      BY <1>3, <1>4, <3>1
    <3> QED BY <1>3, <3>2
  <2> QED BY <2>1, <2>2
<1>8. ASSUME NEW x \in audit
      PROVE  AnswerRight(x)'
  <2>1. AnswerRight(x) /\ Asked(x.proposal)' /\ x.proposal \in Run
    BY <1>1 DEF AnswerInv, AnswerRight, Asked
  <2>2. PICK p \in Run : p = x.proposal
    BY <2>1
  <2>3. ASSUME WaitsFor(p)'
        PROVE  \E q \in Run : run'[q].at = "clearing" /\ run'[q].held = p
    <3>1. /\ pending'[run[p].thread] = p /\ p # Nothing /\ run[p].thread \in Thread
      BY <1>1, <1>2, <2>3, MemoryAssumption DEF WaitsFor
    <3>2. WaitsFor(p) /\ run[p].thread # run[r].thread
      BY <1>1, <1>4, <3>1 DEF WaitsFor, MemoryRecords
    <3>3. PICK q \in Run : run[q].at = "clearing" /\ run[q].held = p
      BY <2>1, <2>2, <3>2 DEF AnswerRight
    <3>4. q # r
      BY <1>2, <1>3, <3>1, <3>2, <3>3, MemoryAssumption DEF AnswerInv, WaitsFor
    <3> QED BY <1>1, <3>3, <3>4
  <2> QED BY <2>1, <2>2, <2>3 DEF AnswerRight
<1>9. ASSUME NEW m \in Run
      PROVE  ForceRight(m)'
  <2>1. \A p : WasKept(p) => WasKept(p)'
    BY <1>1 DEF WasKept, KeptBy
  <2> QED BY <1>1, <2>1 DEF AnswerInv, ForceRight, Active
<1> QED BY <1>1, <1>5, <1>6, <1>7, <1>8, <1>9 DEF AnswerInv

(* A new proposal is not answered yet, and its thread waits for no other.    *)
LEMMA AnswerPropose ==
  ASSUME AnswerInv, OneRunPerThread, [MemoryNext]_memoryVars, NEW r \in Run, Propose(r)
  PROVE  AnswerInv'
<1>1. /\ ShapeInv' /\ MemoryInv' /\ MemoryRecords
      /\ run[r].at = "proposing" /\ run'[r].at = "proposed" /\ run[r].thread \in Thread
      /\ \A q \in Run : /\ run'[q].held = run[q].held /\ run'[q].intent = run[q].intent
                        /\ run'[q].thread = run[q].thread
                        /\ q # r => run'[q] = run[q]
      /\ \A p : Asked(p) => Asked(p)'
      /\ audit' = audit /\ memory' = memory
      /\ pending' = [pending EXCEPT ![run[r].thread] = r]
  BY WriterFacts DEF Propose, RunPlaces
<1>2. \A q \in Run : run[q].thread \in Thread /\ HoldsRight(q)
  BY <1>1 DEF AnswerInv, MemoryRecords, RunRecord
<1>3. pending[run[r].thread] = Nothing /\ ~Asked(r)
  BY <1>1, <1>2 DEF HoldsRight, Asked
<1>4. \A t \in Thread : pending'[t] = IF t = run[r].thread THEN r ELSE pending[t]
  BY <1>1 DEF MemoryRecords
<1>5. \A t \in Thread : pending'[t] # Nothing => run'[pending'[t]].thread = t
  BY <1>1, <1>4 DEF AnswerInv, MemoryRecords
<1>6. ASSUME NEW q \in Run
      PROVE  HoldsRight(q)'
  <2>1. CASE q = r
    BY <1>1, <2>1 DEF HoldsRight, Holding
  <2>2. CASE q # r /\ run[q].at \in Holding \cup {"proposing"}
    <3>1. run[q].thread # run[r].thread
      BY <1>1, <2>2, OneUnderway DEF Underway, Holding
    <3>2. PICK h : h = run[q].held /\ (Asked(h) => Asked(h)')
      BY <1>1
    <3> QED BY <1>1, <1>2, <1>4, <2>2, <3>1, <3>2 DEF HoldsRight
  <2>3. CASE q # r /\ run[q].at \notin Holding \cup {"proposing"}
    BY <1>1, <2>3 DEF HoldsRight, Holding
  <2> QED BY <2>1, <2>2, <2>3
<1>7. \A p \in Run : p # r => (WaitsFor(p)' <=> WaitsFor(p))
  BY <1>1, <1>2, <1>3, <1>4, MemoryAssumption DEF WaitsFor
<1>8. ASSUME NEW p \in Run
      PROVE  AskedRight(p)'
  <2>1. CASE p = r
    BY <1>1, <1>4, <2>1 DEF AskedRight, WaitsFor
  <2>2. CASE p # r
    <3>1. Asked(p)' => Asked(p)
      BY <1>1, <2>2 DEF Asked
    <3> QED BY <1>1, <1>7, <2>2, <3>1 DEF AnswerInv, AskedRight
  <2> QED BY <2>1, <2>2
<1>9. ASSUME NEW x \in audit
      PROVE  AnswerRight(x)'
  <2>1. AnswerRight(x) /\ Asked(x.proposal)
    BY DEF AnswerInv, AnswerRight
  <2>2. Asked(x.proposal)' /\ x.proposal \in Run /\ x.proposal # r
    BY <1>1, <1>3, <2>1 DEF Asked
  <2>3. \A q \in Run : run[q].at = "clearing" => run'[q] = run[q]
    BY <1>1
  <2> QED BY <1>1, <1>7, <2>1, <2>2, <2>3 DEF AnswerRight
<1>10. ASSUME NEW m \in Run
       PROVE  ForceRight(m)'
  <2>1. \A p : WasKept(p) => WasKept(p)'
    BY <1>1 DEF WasKept, KeptBy
  <2> QED BY <1>1, <2>1 DEF AnswerInv, ForceRight, Active
<1> QED BY <1>1, <1>5, <1>6, <1>8, <1>9, <1>10 DEF AnswerInv

(* While threads answer one message at a time, a proposal waits or is        *)
(* answered, and never both.                                                 *)
LEMMA AnswerStep ==
  ASSUME AnswerInv, OneRunPerThread, NoneHalfWritten', [MemoryNext]_memoryVars
  PROVE  AnswerInv'
<1>1. ShapeInv' /\ MemoryInv' /\ MemoryRecords
  BY ShapeStep, MemoryInvStep DEF AnswerInv, ShapeInv
<1>2. ASSUME UNCHANGED <<pending, audit, run>>,
             \A m \in Run : /\ memory'[m].proposal = memory[m].proposal
                            /\ Active(m)' => Active(m)
      PROVE  AnswerInv'
  BY <1>1, <1>2 DEF AnswerInv, HoldsRight, AskedRight, AnswerRight, ForceRight, WasKept, KeptBy,
                    Asked, WaitsFor
<1>3. ASSUME NEW m \in Run, Lapse(m)
      PROVE  AnswerInv'
  <2>1. \A n \in Run : memory'[n].proposal = memory[n].proposal /\ (Active(n)' => Active(n))
    BY <1>1, <1>3 DEF Lapse, MemoryRecords, Row, Active
  <2> QED BY <1>2, <1>3, <2>1 DEF Lapse
<1>4. CASE Consolidate
  <2>1. \A n \in Run : memory'[n].proposal = memory[n].proposal /\ (Active(n)' => Active(n))
    BY <1>1, <1>4 DEF Consolidate, MemoryRecords, Row, Active
  <2> QED BY <1>2, <1>4, <2>1 DEF Consolidate
<1>5. CASE UNCHANGED memoryVars
  BY <1>2, <1>5 DEF memoryVars, Active
<1> QED BY <1>3, <1>4, <1>5, AnswerQuiet, AnswerWrite, AnswerAudit, AnswerClear, AnswerPropose
        DEF MemoryNext

(* While a thread has one run at a time and none fails with its decision half*)
(* written, what the user was asked is still pending or is answered, once,   *)
(* and what was dropped is not in memory, however the runs of other threads  *)
(* and the consolidations come in between (_resolve_pending_decision).       *)
THEOREM ProposalsAreAnsweredOnce == MemorySpec => AnsweredOnce
<1>1. MemoryInit => AnswerInv
  <2> SUFFICES ASSUME MemoryInit PROVE AnswerInv
    OBVIOUS
  <2>1. MemoryRecords
    BY DEF MemoryInit, MemoryRecords, Row, RunRecord, RunPlaces, Intent
  <2>2. /\ \A r \in Run : memory[r].status = "absent" /\ run[r].at = "new"
        /\ \A t \in Thread : pending[t] = Nothing
        /\ audit = {}
    BY DEF MemoryInit
  <2>3. ShapeInv
    BY <2>1, <2>2 DEF ShapeInv, RunRight, RowRight
  <2>4. MemoryInv
    BY <2>1, <2>2 DEF MemoryInv, Decided, HasKeeper
  <2> QED BY <2>2, <2>3, <2>4
          DEF AnswerInv, HoldsRight, Holding, AskedRight, Asked, ForceRight, Active
<1>2. AnswerInv /\ OneRunPerThread /\ NoneHalfWritten' /\ [MemoryNext]_memoryVars => AnswerInv'
  BY AnswerStep
<1>3. AnswerInv /\ OneRunPerThread => \A p \in Run : run[p].at = "proposed" =>
         /\ Cardinality(AnswersTo(p)) <= 1
         /\ pending[run[p].thread] # p => AnswersTo(p) # {}
         /\ (\E a \in AnswersTo(p) : a.outcome \in Dropped) => ~InMemory(p)
  <2> SUFFICES ASSUME AnswerInv, OneRunPerThread, NEW p \in Run, run[p].at = "proposed"
               PROVE  /\ Cardinality(AnswersTo(p)) <= 1
                      /\ pending[run[p].thread] # p => AnswersTo(p) # {}
                      /\ (\E a \in AnswersTo(p) : a.outcome \in Dropped) => ~InMemory(p)
    OBVIOUS
  <2>1. Asked(p)
    BY DEF AnswerInv, ShapeInv, RunRight, Asked
  <2>2. \A x, y \in AnswersTo(p) : x = y
    BY DEF AnswerInv, AnswersTo
  <2>3. Cardinality(AnswersTo(p)) <= 1
    <3>1. CASE AnswersTo(p) = {}
      BY <3>1, FS_EmptySet
    <3>2. ASSUME NEW x \in AnswersTo(p)
          PROVE  Cardinality(AnswersTo(p)) <= 1
      <4>1. AnswersTo(p) = {x} /\ Cardinality({x}) = 1
        BY <2>2, <3>2, FS_Singleton
      <4> QED BY <4>1
    <3> QED BY <3>1, <3>2
  <2>4. pending[run[p].thread] # p => AnswersTo(p) # {}
    BY <2>1 DEF AnswerInv, AskedRight, WaitsFor, AnswersTo
  <2>5. ASSUME NEW a \in AnswersTo(p), a.outcome \in Dropped, InMemory(p)
        PROVE  FALSE
    <3>1. WasKept(p)
      BY <2>5 DEF InMemory, AnswerInv, ForceRight, Active
    <3>2. PICK r \in Run : KeptBy(r, p)
      BY <2>2, <2>5, <3>1 DEF WasKept, AnswersTo
    <3>3. /\ run[r].at = "auditing" /\ pending[run[r].thread] = p /\ run[r].thread \in Thread
          /\ p # Nothing
      BY <3>2, MemoryAssumption
         DEF KeptBy, AnswerInv, HoldsRight, Holding, ShapeInv, MemoryRecords, RunRecord
    <3>4. WaitsFor(p) /\ run[p].thread = run[r].thread
      BY <3>3 DEF AnswerInv, WaitsFor
    <3>5. PICK q \in Run : run[q].at = "clearing" /\ run[q].held = p
      BY <2>5, <3>4 DEF AnswerInv, AnswerRight, AnswersTo
    <3>6. run[q].thread = run[r].thread
      BY <3>3, <3>5 DEF AnswerInv, HoldsRight, Holding, ShapeInv, MemoryRecords, RunRecord
    <3> QED BY <3>3, <3>5, <3>6, OneUnderway DEF Underway
  <2> QED BY <2>3, <2>4, <2>5
<1> QED BY <1>1, <1>2, <1>3, PTL DEF MemorySpec, AnsweredOnce

(***************************************************************************)
(* The rate limiter.  Its sums are recursive functions, so that what they  *)
(* are has to be proved first, by induction.                               *)
(***************************************************************************)
(* What the requests of a queue are made of.                                 *)
LEMMA QueueElements ==
  ASSUME NEW queue \in Seq(Request)
  PROVE  /\ Len(queue) \in Nat
         /\ \A i \in 1..Len(queue) : /\ queue[i] \in Request
                                    /\ queue[i].tokens \in Nat
                                    /\ queue[i].time \in Nat
<1>1. Len(queue) \in Nat /\ \A i \in 1..Len(queue) : queue[i] \in Request
  BY ElementOfSeq, LenProperties
<1>2. ASSUME NEW r \in Request PROVE r.tokens \in Nat /\ r.time \in Nat
  <2>1. Cost \subseteq Nat /\ LastTime \in Nat
    BY LimiterAssumption
  <2>2. r.tokens \in Cost /\ r.time \in 0..LastTime
    BY DEF Request
  <2>3. 0..LastTime \subseteq Nat
    OBVIOUS
  <2> QED BY <2>1, <2>2, <2>3, Zenon
<1> QED BY <1>1, <1>2

(* The running totals of a queue.                                            *)
Totals(queue, sum) ==
    sum = [i \in 0..Len(queue) |-> IF i = 0 THEN 0 ELSE sum[i - 1] + queue[i].tokens]

(* Every queue has its running totals.                                       *)
LEMMA TotalsExist ==
  ASSUME NEW queue \in Seq(Request)
  PROVE  \E sum : Totals(queue, sum)
<1> DEFINE Price(i) == queue[i].tokens
           Upto(n, f) == f[0] = 0 /\ \A i \in 1..n : f[i] = f[i - 1] + Price(i)
           S == {n \in Nat : n <= Len(queue) => \E f \in [0..n -> Nat] : Upto(n, f)}
<1>0. Len(queue) \in Nat /\ \A i \in 1..Len(queue) : Price(i) \in Nat
  BY QueueElements
<1> HIDE DEF Price
<1>1. 0 \in S
  <2>1. [i \in 0..0 |-> 0] \in [0..0 -> Nat] /\ Upto(0, [i \in 0..0 |-> 0])
    OBVIOUS
  <2> QED BY <2>1
<1>2. ASSUME NEW n \in Nat, n \in S PROVE n + 1 \in S
  <2> SUFFICES ASSUME n + 1 <= Len(queue)
               PROVE  \E g \in [0..(n + 1) -> Nat] : Upto(n + 1, g)
    <3> HIDE DEF Upto
    <3> QED OBVIOUS
  <2>1. PICK f \in [0..n -> Nat] : Upto(n, f)
    BY <1>0, <1>2
  <2> DEFINE g == [i \in 0..(n + 1) |-> IF i = n + 1 THEN f[n] + Price(i) ELSE f[i]]
  <2>2. f[n] \in Nat /\ Price(n + 1) \in Nat
    BY <1>0
  <2>3. g \in [0..(n + 1) -> Nat]
    BY <2>2
  <2>4. (\A i \in 0..n : g[i] = f[i]) /\ g[n + 1] = f[n] + Price(n + 1)
    OBVIOUS
  <2> HIDE DEF g
  <2>5. \A i \in 1..n : g[i] = g[i - 1] + Price(i)
    BY <2>1, <2>4
  <2>6. Upto(n + 1, g)
    <3>1. g[0] = 0
      BY <2>1, <2>4
    <3>2. g[n + 1] = g[(n + 1) - 1] + Price(n + 1)
      BY <2>4
    <3>3. \A i \in 1..(n + 1) : i \in 1..n \/ i = n + 1
      OBVIOUS
    <3>4. ASSUME NEW i \in 1..(n + 1) PROVE g[i] = g[i - 1] + Price(i)
      <4>1. CASE i \in 1..n
        BY <2>5, <4>1
      <4>2. CASE i = n + 1
        BY <3>2, <4>2
      <4> QED BY <3>3, <4>1, <4>2
    <3> QED BY <3>1, <3>4, Zenon
  <2> QED BY <2>3, <2>6
<1> HIDE DEF S
<1>3. Nat \subseteq S
  BY <1>1, <1>2, SetInduction
<1>4. PICK f \in [0..Len(queue) -> Nat] : Upto(Len(queue), f)
  <2>1. Len(queue) \in S
    BY <1>0, <1>3
  <2> HIDE DEF Upto
  <2> QED BY <1>0, <2>1 DEF S
<1>5. \A i \in 0..Len(queue) : f[i] = IF i = 0 THEN 0 ELSE f[i - 1] + queue[i].tokens
  BY <1>0, <1>4 DEF Price
<1>6. f = [i \in 0..Len(queue) |-> f[i]]
  OBVIOUS
<1>7. Totals(queue, f)
  BY <1>5, <1>6 DEF Totals
<1> QED BY <1>7

(* So the recursion of TokensOf defines them, and they are naturals.         *)
LEMMA TokensAreTotals ==
  ASSUME NEW queue \in Seq(Request)
  PROVE  \E sum : Totals(queue, sum) /\ TokensOf(queue) = sum[Len(queue)]
<1> DEFINE total == CHOOSE sum : Totals(queue, sum)
<1>1. Totals(queue, total)
  BY TotalsExist
<1>2. TokensOf(queue) = total[Len(queue)]
  BY DEF TokensOf, Totals
<1> QED BY <1>1, <1>2

(* Running totals are naturals.                                              *)
LEMMA TotalsType ==
  ASSUME NEW queue \in Seq(Request), NEW sum, Totals(queue, sum)
  PROVE  \A i \in 0..Len(queue) : sum[i] \in Nat
<1> DEFINE S == {n \in Nat : n <= Len(queue) => sum[n] \in Nat}
<1>0. /\ \A i \in 0..Len(queue) :
              sum[i] = IF i = 0 THEN 0 ELSE sum[i - 1] + queue[i].tokens
      /\ \A i \in 1..Len(queue) : queue[i].tokens \in Nat
  BY QueueElements DEF Totals
<1>1. 0 \in S
  BY <1>0
<1>2. ASSUME NEW n \in Nat, n \in S PROVE n + 1 \in S
  <2> SUFFICES ASSUME n + 1 <= Len(queue) PROVE sum[n + 1] \in Nat
    OBVIOUS
  <2>1. sum[n] \in Nat /\ sum[n + 1] = sum[n] + queue[n + 1].tokens
    BY <1>0, <1>2, QueueElements
  <2> QED BY <1>0, <2>1
<1> HIDE DEF S
<1>3. Nat \subseteq S
  BY <1>1, <1>2, SetInduction
<1> QED BY <1>3 DEF S

(* The totals of a part of a queue follow those of the whole.                *)
LEMMA TotalsOfPart ==
  ASSUME NEW whole \in Seq(Request), NEW sum, Totals(whole, sum),
         NEW part \in Seq(Request), NEW tot, Totals(part, tot),
         NEW d \in Nat, d + Len(part) <= Len(whole),
         \A i \in 1..Len(part) : part[i] = whole[i + d]
  PROVE  \A i \in 0..Len(part) : sum[i + d] = sum[d] + tot[i]
<1> DEFINE S == {n \in Nat : n <= Len(part) => sum[n + d] = sum[d] + tot[n]}
<1>0. /\ \A i \in 0..Len(whole) :
              sum[i] = IF i = 0 THEN 0 ELSE sum[i - 1] + whole[i].tokens
      /\ \A i \in 0..Len(part) :
              tot[i] = IF i = 0 THEN 0 ELSE tot[i - 1] + part[i].tokens
  BY DEF Totals
<1>1. /\ \A i \in 0..Len(whole) : sum[i] \in Nat
      /\ \A i \in 0..Len(part) : tot[i] \in Nat
      /\ \A i \in 1..Len(whole) : whole[i].tokens \in Nat
      /\ Len(whole) \in Nat /\ Len(part) \in Nat
  BY TotalsType, QueueElements
<1>2. 0 \in S
  BY <1>0, <1>1
<1>3. ASSUME NEW n \in Nat, n \in S PROVE n + 1 \in S
  <2> SUFFICES ASSUME n + 1 <= Len(part)
               PROVE  sum[n + 1 + d] = sum[d] + tot[n + 1]
    OBVIOUS
  <2>1. /\ sum[n + 1 + d] = sum[n + d] + whole[n + 1 + d].tokens
        /\ tot[n + 1] = tot[n] + part[n + 1].tokens
        /\ part[n + 1] = whole[n + 1 + d]
    <3>1. /\ n + 1 + d \in 0..Len(whole) /\ n + 1 \in 0..Len(part) /\ n + 1 \in 1..Len(part)
          /\ n + 1 + d # 0 /\ n + 1 # 0
      BY <1>1
    <3>2. (n + 1 + d) - 1 = n + d /\ (n + 1) - 1 = n
      OBVIOUS
    <3> HIDE DEF S
    <3>3. sum[n + 1 + d] = sum[(n + 1 + d) - 1] + whole[n + 1 + d].tokens
      BY <1>0, <3>1
    <3>4. tot[n + 1] = tot[(n + 1) - 1] + part[n + 1].tokens
      BY <1>0, <3>1
    <3> QED BY <3>1, <3>2, <3>3, <3>4
  <2>2. sum[n + d] = sum[d] + tot[n]
    BY <1>3
  <2> DEFINE price == whole[n + 1 + d].tokens
  <2>3. sum[d] \in Nat /\ tot[n] \in Nat /\ price \in Nat
    <3>1. n + 1 + d \in 1..Len(whole) /\ n \in 0..Len(part) /\ d \in 0..Len(whole)
      BY <1>1
    <3> HIDE DEF S
    <3> QED BY <1>1, <3>1
  <2>4. sum[n + 1 + d] = sum[n + d] + price /\ tot[n + 1] = tot[n] + price
    BY <2>1
  <2> HIDE DEF price
  <2> QED BY <2>2, <2>3, <2>4
<1> HIDE DEF S
<1>4. Nat \subseteq S
  BY <1>2, <1>3, SetInduction
<1> QED BY <1>4 DEF S

(* A part of a queue costs no more than the queue, and a request that joins  *)
(* it adds its own tokens.                                                   *)
LEMMA PartCostsLess ==
  ASSUME NEW whole \in Seq(Request), NEW part \in Seq(Request),
         NEW d \in Nat, d + Len(part) = Len(whole),
         \A i \in 1..Len(part) : part[i] = whole[i + d]
  PROVE  TokensOf(part) \in Nat /\ TokensOf(whole) \in Nat
         /\ TokensOf(part) <= TokensOf(whole)
<1>1. PICK sum : Totals(whole, sum) /\ TokensOf(whole) = sum[Len(whole)]
  BY TokensAreTotals
<1>2. PICK tot : Totals(part, tot) /\ TokensOf(part) = tot[Len(part)]
  BY TokensAreTotals
<1>3. sum[Len(part) + d] = sum[d] + tot[Len(part)]
  <2>1. \A i \in 0..Len(part) : sum[i + d] = sum[d] + tot[i]
    BY <1>1, <1>2, TotalsOfPart, QueueElements
  <2> QED BY <2>1, QueueElements
<1>4. Len(part) \in Nat /\ Len(whole) \in Nat
  BY QueueElements
<1>5. sum[d] \in Nat /\ tot[Len(part)] \in Nat /\ sum[Len(whole)] \in Nat
  BY <1>1, <1>2, <1>4, TotalsType
<1>6. TokensOf(whole) = sum[d] + TokensOf(part)
  <2>1. Len(part) + d = Len(whole)
    BY <1>4
  <2> QED BY <1>1, <1>2, <1>3, <2>1
<1> QED BY <1>1, <1>2, <1>5, <1>6

(* A request that is appended costs its own tokens.                          *)
LEMMA AppendCosts ==
  ASSUME NEW queue \in Seq(Request), NEW request \in Request
  PROVE  /\ Append(queue, request) \in Seq(Request)
         /\ TokensOf(Append(queue, request)) = TokensOf(queue) + request.tokens
<1> DEFINE longer == Append(queue, request)
<1>1. /\ longer \in Seq(Request) /\ Len(longer) = Len(queue) + 1
      /\ \A i \in 1..Len(queue) : longer[i] = queue[i]
      /\ longer[Len(queue) + 1] = request
  OBVIOUS
<1> HIDE DEF longer
<1>2. PICK sum : Totals(longer, sum) /\ TokensOf(longer) = sum[Len(longer)]
  BY <1>1, TokensAreTotals
<1>3. PICK tot : Totals(queue, tot) /\ TokensOf(queue) = tot[Len(queue)]
  BY TokensAreTotals
<1>4. sum[Len(queue) + 0] = sum[0] + tot[Len(queue)]
  <2>1. \A i \in 0..Len(queue) : sum[i + 0] = sum[0] + tot[i]
    BY <1>1, <1>2, <1>3, TotalsOfPart
  <2> QED BY <2>1
<1>5. sum[0] = 0 /\ sum[Len(queue) + 1] = sum[Len(queue)] + request.tokens
  BY <1>1, <1>2 DEF Totals
<1>6. tot[Len(queue)] \in Nat
  BY <1>3, TotalsType
<1> QED BY <1>1, <1>2, <1>3, <1>4, <1>5, <1>6 DEF longer

(* Pruning stops at the first request after the cutoff, if there is one.     *)
LEMMA SinceFacts ==
  ASSUME NEW queue \in Seq(Request), NEW cutoff \in Int
  PROVE  \E n \in 0..Len(queue) :
            /\ Since(queue, cutoff) = SubSeq(queue, n + 1, Len(queue))
            /\ \A i \in 1..n : queue[i].time <= cutoff
            /\ n < Len(queue) => queue[n + 1].time > cutoff
<1> DEFINE Stops(n) == n < Len(queue) => queue[n + 1].time > cutoff
           Popped(n) == (\A i \in 1..n : queue[i].time <= cutoff) /\ Stops(n)
           T == {n \in 0..Len(queue) : Stops(n)}
<1>0. Len(queue) \in Nat /\ \A i \in 1..Len(queue) : queue[i].time \in Nat
  BY QueueElements
<1>1. Len(queue) \in T /\ T \subseteq Nat
  BY <1>0
<1>2. PICK n \in T : \A m \in T : n <= m
  BY <1>1, LeastNat
<1>3. ASSUME NEW i \in 1..n PROVE queue[i].time <= cutoff
  <2>1. i - 1 \in 0..Len(queue) /\ i - 1 < n
    BY <1>0, <1>2
  <2>2. i - 1 \notin T
    <3> HIDE DEF T
    <3> QED BY <1>1, <1>2, <2>1
  <2>3. ~ (queue[i - 1 + 1].time > cutoff)
    BY <2>1, <2>2
  <2> QED BY <1>0, <1>2, <2>3
<1>4. n \in 0..Len(queue) /\ Popped(n)
  BY <1>2, <1>3
<1> HIDE DEF T
<1> DEFINE popped == CHOOSE m \in 0..Len(queue) : Popped(m)
<1>5. popped \in 0..Len(queue) /\ Popped(popped)
  <2> HIDE DEF Popped
  <2> QED BY <1>4
<1>6. Since(queue, cutoff) = SubSeq(queue, popped + 1, Len(queue))
  BY DEF Since
<1> HIDE DEF popped
<1> QED BY <1>5, <1>6

(* What is gone from the queue of a client is out of the window for good.    *)
QueueFollowsLog(queue, admitted, gone, now) ==
    /\ gone \in Nat /\ Len(admitted) = Len(queue) + gone
    /\ \A i \in 1..Len(queue) : queue[i] = admitted[i + gone]
    /\ \A i \in 1..gone : admitted[i].time <= now - Window

TimesInOrder(admitted, now) ==
    /\ \A i \in 1..Len(admitted) : admitted[i].time <= now
    /\ \A i, j \in 1..Len(admitted) : i <= j => admitted[i].time <= admitted[j].time

LimitsKept(admitted) ==
    \A first, last \in DOMAIN admitted :
        first <= last /\ admitted[last].time - admitted[first].time < Window =>
            /\ last - first + 1 <= MaxRequests
            /\ TokensOf(SubSeq(admitted, first, last)) <= MaxTokens

LimiterRecords == /\ clock \in 0..LastTime
                  /\ events \in [Client -> Seq(Request)]
                  /\ log \in [Client -> Seq(Request)]

LimiterInv ==
    /\ LimiterRecords
    /\ \A c \in Client : /\ \E gone \in Nat : QueueFollowsLog(events[c], log[c], gone, clock)
                         /\ TimesInOrder(log[c], clock)
                         /\ LimitsKept(log[c])

(* A pruned queue holds what the log has within the window, and no more.     *)
LEMMA PrunedFacts ==
  ASSUME LimiterInv, NEW c \in Client
  PROVE  /\ Pruned(c) \in Seq(Request)
         /\ \E gone \in Nat :
               /\ QueueFollowsLog(Pruned(c), log[c], gone, clock)
               /\ \A i \in 1..Len(log[c]) : i > gone => log[c][i].time > clock - Window
<1> DEFINE queue == events[c]
           admitted == log[c]
<1>1. queue \in Seq(Request) /\ admitted \in Seq(Request)
  BY DEF LimiterInv, LimiterRecords
<1>2. Len(queue) \in Nat /\ Len(admitted) \in Nat
      /\ (\A i \in 1..Len(queue) : queue[i] \in Request)
      /\ (\A i \in 1..Len(admitted) : admitted[i].time \in Nat)
  BY <1>1, QueueElements
<1>3. clock - Window \in Int
  BY LimiterAssumption DEF LimiterInv, LimiterRecords
<1>4. PICK n \in 0..Len(queue) :
            /\ Pruned(c) = SubSeq(queue, n + 1, Len(queue))
            /\ \A i \in 1..n : queue[i].time <= clock - Window
            /\ n < Len(queue) => queue[n + 1].time > clock - Window
  BY <1>1, <1>3, SinceFacts DEF Pruned
<1>5. PICK gone \in Nat : QueueFollowsLog(queue, admitted, gone, clock)
  BY DEF LimiterInv
<1>6. TimesInOrder(admitted, clock)
  BY DEF LimiterInv
<1> HIDE DEF queue, admitted
<1>7. /\ Pruned(c) \in Seq(Request) /\ Len(Pruned(c)) = Len(queue) - n
      /\ \A i \in 1..(Len(queue) - n) : Pruned(c)[i] = queue[i + n]
  <2>1. n + 1 \in Int /\ \A i \in (n + 1)..Len(queue) : queue[i] \in Request
    BY <1>2
  <2>2. /\ Pruned(c) \in Seq(Request)
        /\ Len(Pruned(c)) = IF n + 1 <= Len(queue) THEN Len(queue) - (n + 1) + 1 ELSE 0
        /\ \A i \in 1..(Len(queue) - (n + 1) + 1) : Pruned(c)[i] = queue[n + 1 + i - 1]
    BY <1>2, <1>4, <2>1, SubSeqProperties
  <2> QED BY <1>2, <2>2
<1>8. QueueFollowsLog(Pruned(c), admitted, gone + n, clock)
  <2>1. ASSUME NEW i \in 1..Len(Pruned(c)) PROVE Pruned(c)[i] = admitted[i + (gone + n)]
    <3>1. i \in 1..(Len(queue) - n) /\ i + n \in 1..Len(queue)
      BY <1>2, <1>7
    <3>2. Pruned(c)[i] = queue[i + n] /\ queue[i + n] = admitted[i + n + gone]
      BY <1>5, <1>7, <3>1 DEF QueueFollowsLog
    <3>3. i + n + gone = i + (gone + n)
      OBVIOUS
    <3> QED BY <3>2, <3>3
  <2>2. ASSUME NEW i \in 1..(gone + n) PROVE admitted[i].time <= clock - Window
    <3>1. CASE i <= gone
      BY <1>5, <3>1 DEF QueueFollowsLog
    <3>2. CASE i > gone
      <4>1. i - gone \in 1..n /\ i - gone \in 1..Len(queue) /\ i - gone + gone = i
        BY <1>2, <3>2
      <4> QED BY <1>4, <1>5, <4>1 DEF QueueFollowsLog
    <3> QED BY <3>1, <3>2
  <2>3. gone + n \in Nat /\ Len(admitted) = Len(Pruned(c)) + (gone + n)
    BY <1>2, <1>5, <1>7 DEF QueueFollowsLog
  <2> QED BY <2>1, <2>2, <2>3 DEF QueueFollowsLog
<1>9. ASSUME NEW i \in 1..Len(admitted), i > gone + n
      PROVE  admitted[i].time > clock - Window
  <2>1. /\ n < Len(queue) /\ n + 1 \in 1..Len(queue)
        /\ n + 1 + gone \in 1..Len(admitted) /\ n + 1 + gone <= i
    BY <1>2, <1>5, <1>9 DEF QueueFollowsLog
  <2>2. admitted[n + 1 + gone].time > clock - Window
    BY <1>4, <1>5, <2>1 DEF QueueFollowsLog
  <2>3. admitted[n + 1 + gone].time <= admitted[i].time
    BY <1>6, <2>1 DEF TimesInOrder
  <2>4. admitted[n + 1 + gone].time \in Nat /\ admitted[i].time \in Nat
    BY <1>2, <2>1
  <2> QED BY <1>3, <2>2, <2>3, <2>4
<1>10. gone + n \in Nat
  OBVIOUS
<1> QED BY <1>7, <1>8, <1>9, <1>10 DEF admitted

(* Admitting a request keeps the limits: what shares a window with it is in  *)
(* the pruned queue that was found to have room.                             *)
LEMMA AdmitKeepsLimits ==
  ASSUME LimiterInv, NEW c \in Client, NEW tokens \in Cost, Fits(Pruned(c), tokens),
         NEW request, request = [time |-> clock, tokens |-> tokens]
  PROVE  LimitsKept(Append(log[c], request))
<1> DEFINE old == log[c]
           queue == Pruned(c)
           admitted == Append(old, request)
           room == Append(queue, request)
<1>1. PICK gone \in Nat :
            /\ QueueFollowsLog(queue, old, gone, clock)
            /\ \A i \in 1..Len(old) : i > gone => old[i].time > clock - Window
  BY PrunedFacts
<1>2. /\ queue \in Seq(Request) /\ old \in Seq(Request) /\ clock \in Nat
      /\ request \in Request /\ request.time = clock /\ request.tokens \in Nat
  <2>1. old \in Seq(Request) /\ clock \in 0..LastTime
    BY DEF LimiterInv, LimiterRecords
  <2>2. LastTime \in Nat /\ tokens \in Nat
    BY LimiterAssumption
  <2>3. request \in Request /\ request.time = clock /\ request.tokens = tokens
    BY <2>1 DEF Request
  <2> QED BY <2>1, <2>2, <2>3, PrunedFacts
<1>3. LimitsKept(old) /\ TimesInOrder(old, clock)
  BY DEF LimiterInv
<1>4. Len(queue) + 1 <= MaxRequests /\ TokensOf(queue) + tokens <= MaxTokens
  BY DEF Fits
<1>5. Window \in Nat \ {0} /\ MaxRequests \in Nat /\ MaxTokens \in Nat
  BY LimiterAssumption
<1>6. request.tokens = tokens
  OBVIOUS
<1> HIDE DEF old, queue
<1>7. /\ admitted \in Seq(Request) /\ Len(admitted) = Len(old) + 1
      /\ \A i \in 1..Len(old) : admitted[i] = old[i]
      /\ admitted[Len(old) + 1] = request
  BY <1>2, AppendProperties
<1>8. /\ room \in Seq(Request) /\ Len(room) = Len(queue) + 1
      /\ \A i \in 1..Len(queue) : room[i] = queue[i]
      /\ room[Len(queue) + 1] = request
      /\ TokensOf(room) = TokensOf(queue) + tokens
  BY <1>2, <1>6, AppendProperties, AppendCosts
<1>9. Len(old) \in Nat /\ Len(queue) \in Nat /\ Len(old) = Len(queue) + gone
  BY <1>1, <1>2, QueueElements DEF QueueFollowsLog
<1> HIDE DEF admitted, room
<1> SUFFICES ASSUME NEW first \in 1..(Len(old) + 1), NEW last \in 1..(Len(old) + 1),
                    first <= last,
                    admitted[last].time - admitted[first].time < Window
             PROVE  /\ last - first + 1 <= MaxRequests
                    /\ TokensOf(SubSeq(admitted, first, last)) <= MaxTokens
  <2>1. DOMAIN admitted = 1..(Len(old) + 1)
    BY <1>7, LenProperties
  <2> QED BY <2>1 DEF LimitsKept, admitted, old
<1>10. CASE last <= Len(old)
  <2>1. /\ first \in 1..Len(old) /\ last \in 1..Len(old) /\ DOMAIN old = 1..Len(old)
        /\ admitted[first] = old[first] /\ admitted[last] = old[last]
    BY <1>2, <1>7, <1>9, <1>10, LenProperties
  <2>2. SubSeq(admitted, first, last) = SubSeq(old, first, last)
    BY <1>2, <1>7, <2>1
  <2> QED BY <1>3, <2>1, <2>2 DEF LimitsKept
<1>11. CASE last = Len(old) + 1
  <2> DEFINE part == SubSeq(admitted, first, last)
             d == first - gone - 1
  <2>1. first > gone
    <3> SUFFICES ASSUME first <= gone PROVE FALSE
      BY <1>1
    <3>1. first \in 1..gone /\ first \in 1..Len(old) /\ admitted[first] = old[first]
      BY <1>7, <1>9
    <3>2. old[first].time <= clock - Window
      BY <1>1, <3>1 DEF QueueFollowsLog
    <3>3. admitted[last].time = clock /\ old[first].time \in Nat
      BY <1>2, <1>7, <1>11, <3>1, QueueElements
    <3> QED BY <1>2, <1>5, <3>1, <3>2, <3>3
  <2>2. /\ part \in Seq(Request) /\ Len(part) = last - first + 1
        /\ \A i \in 1..(last - first + 1) : part[i] = admitted[first + i - 1]
    <3>1. \A i \in first..last : admitted[i] \in Request
      BY <1>7, <1>9, QueueElements
    <3> QED BY <3>1, SubSeqProperties
  <2>3. d \in Nat /\ Len(part) + d = Len(queue) + 1
    BY <1>9, <1>11, <2>1, <2>2
  <2> HIDE DEF part
  <2>4. ASSUME NEW i \in 1..Len(part) PROVE part[i] = room[i + d]
    <3>0. i \in 1..(last - first + 1) /\ first + i - 1 \in 1..(Len(old) + 1)
      <4>1. Len(part) = last - first + 1
        BY <2>2
      <4> HIDE DEF d
      <4> QED BY <1>9, <1>11, <4>1
    <3>1. part[i] = admitted[first + i - 1] /\ first + i - 1 \in 1..(Len(old) + 1)
      BY <2>2, <3>0
    <3>2. first + i - 1 = i + d + gone /\ i + d \in 1..(Len(queue) + 1)
      <4>1. i \in Nat /\ i >= 1 /\ i <= Len(part) /\ Len(part) \in Nat
        BY <1>9, <2>2
      <4>2. d = first - gone - 1 /\ first \in Nat /\ gone \in Nat /\ d \in Nat
        BY <1>9, <2>3
      <4>3. first + i - 1 = i + d + gone
        BY <4>1, <4>2
      <4> HIDE DEF d
      <4>4. i + d \in 1..(Len(queue) + 1)
        BY <1>9, <2>3, <4>1, <4>2
      <4> QED BY <4>3, <4>4
    <3> HIDE DEF d
    <3>3. CASE i + d \in 1..Len(queue)
      <4>1. room[i + d] = queue[i + d] /\ queue[i + d] = old[i + d + gone]
        BY <1>1, <1>8, <3>3 DEF QueueFollowsLog
      <4>2. i + d + gone \in 1..Len(old)
        BY <1>9, <3>3
      <4> QED BY <1>7, <3>1, <3>2, <4>1, <4>2
    <3>4. CASE i + d = Len(queue) + 1
      BY <1>7, <1>8, <1>9, <3>1, <3>2, <3>4
    <3> QED BY <1>9, <3>2, <3>3, <3>4
  <2>5. Len(part) <= MaxRequests
    BY <1>4, <1>5, <1>9, <2>2, <2>3
  <2>6. /\ TokensOf(part) \in Nat /\ TokensOf(room) \in Nat
        /\ TokensOf(part) <= TokensOf(room)
    <3> HIDE DEF d
    <3>1. d + Len(part) = Len(room)
      BY <1>8, <1>9, <2>2, <2>3
    <3> QED BY <1>8, <2>2, <2>3, <2>4, <3>1, PartCostsLess
  <2>7. TokensOf(part) <= MaxTokens
    <3>1. TokensOf(room) <= MaxTokens
      BY <1>4, <1>8
    <3> QED BY <1>5, <2>6, <3>1
  <2> QED BY <2>2, <2>5, <2>7 DEF part
<1> QED BY <1>9, <1>10, <1>11

(* The limiter starts with nothing admitted.                                 *)
LEMMA LimiterStart == LimiterInit => LimiterInv
<1> SUFFICES ASSUME LimiterInit PROVE LimiterInv
  OBVIOUS
<1>1. LimiterRecords
  BY LimiterAssumption DEF LimiterInit, LimiterRecords
<1>2. ASSUME NEW c \in Client
      PROVE  /\ QueueFollowsLog(events[c], log[c], 0, clock)
             /\ TimesInOrder(log[c], clock) /\ LimitsKept(log[c])
  BY <1>2 DEF LimiterInit, QueueFollowsLog, TimesInOrder, LimitsKept
<1> QED BY <1>1, <1>2 DEF LimiterInv

(* A client that asks, admitted or not, a reset and a tick keep the limits.  *)
LEMMA LimiterStep == LimiterInv /\ [LimiterNext]_limiterVars => LimiterInv'
<1> SUFFICES ASSUME LimiterInv, [LimiterNext]_limiterVars PROVE LimiterInv'
  OBVIOUS
<1> DEFINE Holds(c) == /\ \E gone \in Nat : QueueFollowsLog(events[c], log[c], gone, clock)
                       /\ TimesInOrder(log[c], clock)
                       /\ LimitsKept(log[c])
<1>1. LimiterRecords /\ \A c \in Client : Holds(c)
  BY DEF LimiterInv
<1>2. /\ LastTime \in Nat \ {0} /\ clock \in 0..LastTime /\ clock \in Nat
      /\ Window \in Nat \ {0}
  BY <1>1, LimiterAssumption DEF LimiterRecords
<1>3. ASSUME NEW c \in Client, UNCHANGED <<clock, events[c], log[c]>> PROVE Holds(c)'
  BY <1>1, <1>3
<1>4. ASSUME NEW c \in Client PROVE log[c] \in Seq(Request) /\ Len(log[c]) \in Nat
  <2>1. log[c] \in Seq(Request)
    BY <1>1 DEF LimiterRecords
  <2> QED BY <2>1, LenProperties
<1>5. ASSUME NEW c \in Client, NEW tokens \in Cost, Admit(c, tokens)
      PROVE  LimiterInv'
  <2> DEFINE request == [time |-> clock, tokens |-> tokens]
  <2>1. request \in Request
    BY <1>2 DEF Request
  <2>2. /\ Fits(Pruned(c), tokens) /\ clock' = clock
        /\ events' = [events EXCEPT ![c] = Append(Pruned(c), request)]
        /\ log' = [log EXCEPT ![c] = Append(log[c], request)]
    BY <1>5 DEF Admit
  <2>3. PICK gone \in Nat : QueueFollowsLog(Pruned(c), log[c], gone, clock)
    BY PrunedFacts
  <2>4. Pruned(c) \in Seq(Request) /\ Len(Pruned(c)) \in Nat
    BY PrunedFacts, LenProperties
  <2>5. LimitsKept(Append(log[c], request))
    BY <2>2, AdmitKeepsLimits
  <2>6. request.time = clock
    OBVIOUS
  <2> HIDE DEF request
  <2>7. /\ Append(log[c], request) \in Seq(Request)
        /\ Append(Pruned(c), request) \in Seq(Request)
    BY <1>4, <2>1, <2>4, AppendProperties
  <2>8. LimiterRecords'
    BY <1>1, <2>2, <2>7 DEF LimiterRecords
  <2>9. /\ events'[c] = Append(Pruned(c), request)
        /\ log'[c] = Append(log[c], request)
    BY <1>1, <2>2 DEF LimiterRecords
  <2>10. /\ Len(log'[c]) = Len(log[c]) + 1 /\ log'[c][Len(log[c]) + 1] = request
         /\ \A i \in 1..Len(log[c]) : log'[c][i] = log[c][i]
         /\ Len(events'[c]) = Len(Pruned(c)) + 1
         /\ events'[c][Len(Pruned(c)) + 1] = request
         /\ \A i \in 1..Len(Pruned(c)) : events'[c][i] = Pruned(c)[i]
    BY <1>4, <2>1, <2>4, <2>9, AppendProperties
  <2>11. QueueFollowsLog(events'[c], log'[c], gone, clock')
    <3>1. Len(log'[c]) = Len(events'[c]) + gone
      BY <1>4, <2>3, <2>4, <2>10 DEF QueueFollowsLog
    <3>2. ASSUME NEW i \in 1..Len(events'[c])
          PROVE  events'[c][i] = log'[c][i + gone]
      <4>1. CASE i \in 1..Len(Pruned(c))
        <5>1. i + gone \in 1..Len(log[c])
          BY <1>4, <2>3, <2>4, <4>1 DEF QueueFollowsLog
        <5> QED BY <2>3, <2>10, <4>1, <5>1 DEF QueueFollowsLog
      <4>2. CASE i = Len(Pruned(c)) + 1
        <5>1. i + gone = Len(log[c]) + 1
          BY <1>4, <2>3, <2>4, <4>2 DEF QueueFollowsLog
        <5> QED BY <2>10, <4>2, <5>1
      <4> QED BY <2>4, <2>10, <4>1, <4>2
    <3>3. ASSUME NEW i \in 1..gone PROVE log'[c][i].time <= clock' - Window
      <4>1. i \in 1..Len(log[c])
        BY <1>4, <2>3, <2>4 DEF QueueFollowsLog
      <4> QED BY <2>2, <2>3, <2>10, <4>1 DEF QueueFollowsLog
    <3> QED BY <3>1, <3>2, <3>3 DEF QueueFollowsLog
  <2>12. TimesInOrder(log'[c], clock')
    <3>1. TimesInOrder(log[c], clock)
      BY <1>1
    <3>2. ASSUME NEW i \in 1..Len(log'[c]) PROVE log'[c][i].time <= clock'
      BY <1>2, <1>4, <2>2, <2>6, <2>10, <3>1 DEF TimesInOrder
    <3>3. ASSUME NEW i \in 1..Len(log'[c]), NEW j \in 1..Len(log'[c]), i <= j
          PROVE  log'[c][i].time <= log'[c][j].time
      <4>1. CASE j \in 1..Len(log[c])
        <5>1. i \in 1..Len(log[c])
          BY <1>4, <3>3, <4>1
        <5> QED BY <2>10, <3>1, <3>3, <4>1, <5>1 DEF TimesInOrder
      <4>2. CASE j = Len(log[c]) + 1
        BY <2>2, <2>6, <2>10, <3>2, <4>2
      <4> QED BY <1>4, <2>10, <4>1, <4>2
    <3> QED BY <3>2, <3>3 DEF TimesInOrder
  <2>13. Holds(c)'
    BY <2>5, <2>9, <2>11, <2>12 DEF LimitsKept
  <2>14. ASSUME NEW d \in Client, d # c PROVE Holds(d)'
    BY <1>1, <1>3, <2>2, <2>14 DEF LimiterRecords
  <2> HIDE DEF Holds
  <2>15. \A d \in Client : Holds(d)'
    BY <2>13, <2>14
  <2> QED BY <2>8, <2>15 DEF LimiterInv, Holds
<1>6. ASSUME NEW c \in Client, NEW tokens \in Cost, Deny(c, tokens)
      PROVE  LimiterInv'
  <2>1. /\ events' = [events EXCEPT ![c] = Pruned(c)]
        /\ UNCHANGED <<clock, log>>
    BY <1>6 DEF Deny
  <2>2. Pruned(c) \in Seq(Request)
    BY PrunedFacts
  <2>3. PICK gone \in Nat : QueueFollowsLog(Pruned(c), log[c], gone, clock)
    BY PrunedFacts
  <2>4. LimiterRecords' /\ events'[c] = Pruned(c)
    BY <1>1, <2>1, <2>2 DEF LimiterRecords
  <2>5. Holds(c)'
    <3>1. QueueFollowsLog(events'[c], log'[c], gone, clock')
      BY <2>1, <2>3, <2>4
    <3>2. TimesInOrder(log'[c], clock') /\ LimitsKept(log'[c])
      BY <1>1, <2>1
    <3> QED BY <3>1, <3>2 DEF LimitsKept
  <2>6. ASSUME NEW d \in Client, d # c PROVE Holds(d)'
    BY <1>1, <1>3, <2>1, <2>6 DEF LimiterRecords
  <2> HIDE DEF Holds
  <2>7. \A d \in Client : Holds(d)'
    BY <2>5, <2>6
  <2> QED BY <2>4, <2>7 DEF LimiterInv, Holds
<1>7. ASSUME NEW keys \in {Client} \cup {{c} : c \in Client}, Reset(keys)
      PROVE  LimiterInv'
  <2>1. /\ events' = [c \in Client |-> IF c \in keys THEN <<>> ELSE events[c]]
        /\ log' = [c \in Client |-> IF c \in keys THEN <<>> ELSE log[c]]
        /\ clock' = clock
    BY <1>7 DEF Reset
  <2>2. <<>> \in Seq(Request) /\ Len(<<>>) = 0
    OBVIOUS
  <2>3. LimiterRecords'
    BY <1>1, <2>1, <2>2 DEF LimiterRecords
  <2>4. ASSUME NEW c \in Client, c \in keys PROVE Holds(c)'
    <3>1. events'[c] = <<>> /\ log'[c] = <<>>
      BY <2>1, <2>4
    <3>2. QueueFollowsLog(events'[c], log'[c], 0, clock')
      BY <3>1 DEF QueueFollowsLog
    <3>3. TimesInOrder(log'[c], clock') /\ LimitsKept(log'[c])
      BY <3>1 DEF TimesInOrder, LimitsKept
    <3> QED BY <3>2, <3>3
  <2>5. ASSUME NEW c \in Client, c \notin keys PROVE Holds(c)'
    BY <1>3, <2>1, <2>5
  <2> HIDE DEF Holds
  <2>6. \A c \in Client : Holds(c)'
    BY <2>4, <2>5
  <2> QED BY <2>3, <2>6 DEF LimiterInv, Holds
<1>8. CASE Tick
  <2>1. clock' = clock + 1 /\ clock < LastTime /\ UNCHANGED <<events, log>>
    BY <1>8 DEF Tick
  <2>2. LimiterRecords'
    BY <1>1, <1>2, <2>1 DEF LimiterRecords
  <2>3. ASSUME NEW c \in Client PROVE Holds(c)'
    <3>1. PICK gone \in Nat : QueueFollowsLog(events[c], log[c], gone, clock)
      BY <1>1
    <3>2. Len(log[c]) = Len(events[c]) + gone /\ Len(events[c]) \in Nat
          /\ \A i \in 1..Len(log[c]) : log[c][i].time \in Nat
      BY <1>1, <3>1, QueueElements DEF QueueFollowsLog, LimiterRecords
    <3>3. QueueFollowsLog(events[c], log[c], gone, clock)'
      <4>1. ASSUME NEW i \in 1..gone PROVE log[c][i].time <= (clock + 1) - Window
        <5>1. log[c][i].time <= clock - Window /\ i \in 1..Len(log[c])
          BY <3>1, <3>2 DEF QueueFollowsLog
        <5>2. log[c][i].time \in Nat
          BY <3>2, <5>1
        <5> QED BY <1>2, <5>1, <5>2
      <4> HIDE DEF Holds
      <4>2. QueueFollowsLog(events[c], log[c], gone, clock + 1)
        BY <3>1, <4>1 DEF QueueFollowsLog
      <4> QED BY <2>1, <4>2
    <3>4. TimesInOrder(log[c], clock)'
      <4>1. TimesInOrder(log[c], clock)
        BY <1>1
      <4>2. \A i \in 1..Len(log[c]) : log[c][i].time <= clock + 1
        BY <1>2, <3>2, <4>1 DEF TimesInOrder
      <4> HIDE DEF Holds
      <4>3. TimesInOrder(log[c], clock + 1)
        BY <4>1, <4>2 DEF TimesInOrder
      <4> QED BY <2>1, <4>3
    <3>5. LimitsKept(log[c])'
      BY <1>1, <2>1
    <3> QED BY <3>3, <3>4, <3>5
  <2> HIDE DEF Holds
  <2> QED BY <2>2, <2>3 DEF LimiterInv, Holds
<1>9. CASE UNCHANGED limiterVars
  <2>1. UNCHANGED <<clock, events, log>>
    BY <1>9 DEF limiterVars
  <2>2. \A c \in Client : Holds(c)'
    BY <1>3, <2>1
  <2>3. LimiterRecords'
    BY <1>1, <2>1 DEF LimiterRecords
  <2> QED BY <2>2, <2>3 DEF LimiterInv
<1> QED BY <1>5, <1>6, <1>7, <1>8, <1>9 DEF LimiterNext

(* The queue of a client is the end of its log: the records have their type. *)
LEMMA LimiterTyped == LimiterInv => LimiterTypeOK
<1> SUFFICES ASSUME LimiterInv PROVE LimiterTypeOK
  OBVIOUS
<1>1. LimiterRecords
  BY DEF LimiterInv
<1>2. ASSUME NEW c \in Client PROVE events[c] = Latest(log[c], Len(events[c]))
  <2> DEFINE queue == events[c]
             admitted == log[c]
             latest == Latest(admitted, Len(queue))
  <2>1. queue \in Seq(Request) /\ admitted \in Seq(Request)
    BY <1>1 DEF LimiterRecords
  <2>2. PICK gone \in Nat : QueueFollowsLog(queue, admitted, gone, clock)
    BY DEF LimiterInv
  <2> HIDE DEF queue, admitted
  <2>3. Len(queue) \in Nat /\ Len(admitted) = Len(queue) + gone
        /\ Len(admitted) - Len(queue) + 1 = gone + 1
    BY <2>1, <2>2, QueueElements DEF QueueFollowsLog
  <2>4. \A i \in (gone + 1)..Len(admitted) : admitted[i] \in Request
    BY <2>1, <2>3, QueueElements
  <2>5. /\ latest \in Seq(Request)
        /\ Len(latest) = Len(queue)
        /\ \A i \in 1..Len(queue) : latest[i] = admitted[gone + 1 + i - 1]
    BY <2>3, <2>4, SubSeqProperties DEF Latest
  <2>6. ASSUME NEW i \in 1..Len(queue) PROVE latest[i] = queue[i]
    <3>1. gone + 1 + i - 1 = i + gone
      OBVIOUS
    <3> QED BY <2>2, <2>5, <3>1 DEF QueueFollowsLog
  <2> HIDE DEF latest
  <2>7. queue = latest
    BY <2>1, <2>5, <2>6, SeqEqual
  <2> QED BY <2>7 DEF queue, admitted, latest
<1> QED BY <1>1, <1>2 DEF LimiterTypeOK, LimiterRecords

(* Whatever is asked, by however many clients at whatever times, and however *)
(* often the counters are reset: no window of admitted requests exceeds a    *)
(* limit.                                                                    *)
THEOREM LimiterKeepsLimits == LimiterSpec => []WindowKeepsLimits
<1>1. LimiterInv => WindowKeepsLimits
  BY DEF LimiterInv, LimitsKept, WindowKeepsLimits
<1> QED BY <1>1, LimiterStart, LimiterStep, PTL DEF LimiterSpec

(***************************************************************************)
(* The types of all three.                                                 *)
(***************************************************************************)
(* A decision past its check is about an action that needs a human, and so   *)
(* is every action that waits for a decision or has one.                     *)
WaitsForHuman(a) == action[a].status \in {"pending", "approved", "rejected"} => action[a].human
AsksHuman(d)     == decision[d].at \in {"checked", "decided"} => action[decision[d].of].human

GateShape == /\ GateInv
             /\ \A a \in Action : WaitsForHuman(a)
             /\ \A d \in Decision : AsksHuman(d)

(* The shape of the gate survives every step.                                *)
LEMMA GateShapeStep == GateShape /\ [GateNext]_gateVars => GateShape'
<1> SUFFICES ASSUME GateShape, [GateNext]_gateVars PROVE GateShape'
  OBVIOUS
<1>1. GateInv /\ GateInv' /\ GateRecords
  BY GateStep DEF GateShape, GateInv
<1>2. ASSUME NEW a \in Action, action[a].human
      PROVE  action'[a].human
  <2>1. ActionRight(a)
    BY <1>1 DEF GateInv
  <2>2. ASSUME NEW b \in Action, Submit(b)
        PROVE  action'[a] = action[a]
    BY <1>1, <1>2, <2>1, <2>2 DEF Submit, ActionRight, GateRecords, ActionRecord
  <2>3. ASSUME NEW d \in Decision, Decide(d)
        PROVE  action'[a].human = action[a].human
    BY <1>1, <2>3 DEF Decide, GateRecords, ActionRecord
  <2>4. ASSUME NEW e \in Execution, MarkExecuted(e)
        PROVE  action'[a].human = action[a].human
    BY <1>1, <2>4 DEF MarkExecuted, GateRecords, ActionRecord
  <2> QED BY <1>2, <2>2, <2>3, <2>4
          DEF GateNext, gateVars, CheckDecision, CheckExecution, RunExecutor
<1>3. ASSUME NEW d \in Decision
      PROVE  AsksHuman(d)'
  <2>1. AsksHuman(d) /\ decision[d].of \in Action /\ decision'[d].of = decision[d].of
    BY <1>1, GateFrame DEF GateShape, GateRecords, DecisionRecord
  <2>2. CASE CheckDecision(d)
    <3>1. decision'[d].at = "checked" => action[decision[d].of].status = "pending"
      BY <1>1, <2>2 DEF CheckDecision, DecisionGoes, GateRecords, DecisionRecord
    <3>2. decision'[d].at # "decided"
      BY <1>1, <2>2 DEF CheckDecision, DecisionGoes, GateRecords, DecisionRecord
    <3> QED BY <1>2, <2>1, <3>1, <3>2 DEF GateShape, WaitsForHuman, AsksHuman
  <2>3. CASE ~CheckDecision(d)
    <3>1. \/ decision'[d] = decision[d]
          \/ decision[d].at = "checked"
      BY <1>1, <2>3 DEF GateNext, gateVars, Submit, CheckDecision, Decide, CheckExecution,
         RunExecutor, MarkExecuted, DecisionGoes, GateRecords, DecisionRecord
    <3> QED BY <1>2, <2>1, <3>1 DEF AsksHuman
  <2> QED BY <2>2, <2>3
<1>4. ASSUME NEW a \in Action
      PROVE  WaitsForHuman(a)'
  <2>1. WaitsForHuman(a)
    BY DEF GateShape
  <2>2. CASE Submit(a)
    <3>1. PICK high \in BOOLEAN :
             action' = [action EXCEPT
                 ![a].human = RequiresHuman(action[a].type, high),
                 ![a].status = IF RequiresHuman(action[a].type, high) THEN "pending"
                               ELSE "auto_approved"]
      BY <2>2 DEF Submit
    <3>2. CASE RequiresHuman(action[a].type, high)
      BY <1>1, <3>1, <3>2 DEF WaitsForHuman, GateRecords, ActionRecord
    <3>3. CASE ~RequiresHuman(action[a].type, high)
      BY <1>1, <3>1, <3>3 DEF WaitsForHuman, GateRecords, ActionRecord
    <3> QED BY <3>2, <3>3
  <2>3. ASSUME NEW d \in Decision, Decide(d)
        PROVE  WaitsForHuman(a)'
    <3>1. decision[d].at = "checked" /\ action[decision[d].of].human
      BY <2>3 DEF Decide, DecisionGoes, GateShape, AsksHuman
    <3>2. CASE a = decision[d].of
      BY <1>2, <3>1, <3>2 DEF WaitsForHuman
    <3>3. CASE a # decision[d].of
      BY <1>1, <2>1, <2>3, <3>3 DEF Decide, WaitsForHuman, GateRecords, ActionRecord
    <3> QED BY <3>2, <3>3
  <2>4. ASSUME NEW e \in Execution, MarkExecuted(e)
        PROVE  WaitsForHuman(a)'
    BY <1>1, <2>1, <2>4 DEF MarkExecuted, WaitsForHuman, GateRecords, ActionRecord
  <2>5. CASE action'[a] = action[a]
    BY <2>1, <2>5 DEF WaitsForHuman
  <2> QED BY <1>1, <2>2, <2>3, <2>4, <2>5
          DEF GateNext, gateVars, Submit, CheckDecision, CheckExecution, RunExecutor, GateRecords
<1> QED BY <1>1, <1>3, <1>4 DEF GateShape

(* A run that audits an answer has the proposal that it answers; an entry of *)
(* the audit names runs; and a thread waits on a proposal of its own.        *)
AuditEntry == [proposal : Run, outcome : Intent, by : Run]
MemoryShape == /\ ShapeInv
               /\ audit \subseteq AuditEntry
               /\ \A r \in Run : run[r].at = "auditing" => run[r].held \in Run
               /\ \A t \in Thread : pending[t] # Nothing => run[pending[t]].thread = t

(* What a run is about to audit, it has received or saved.                   *)
LEMMA AuditsWhatItHolds ==
  ASSUME MemoryShape, [MemoryNext]_memoryVars, NEW q \in Run, run'[q].at = "auditing"
  PROVE  run'[q].held \in Run
<1>1. /\ MemoryRecords /\ MemoryRecords' /\ RunRight(q)
      /\ run[q].at = "auditing" => run[q].held \in Run
      /\ run[q].thread \in Thread
  BY MemoryRecordsStep DEF MemoryShape, ShapeInv, MemoryRecords, RunRecord
<1>2. CASE run'[q] = run[q]
  BY <1>1, <1>2
<1>3. CASE WriteMemory(q)
  BY <1>1, <1>3, RunGoesFacts DEF WriteMemory, RunPlaces, RunRight, Asked
<1>4. CASE Receive(q) /\ run'[q].held = pending[run[q].thread]
                      /\ pending[run[q].thread] # Nothing
  BY <1>1, <1>4 DEF MemoryRecords
<1>5. ASSUME Receive(q)
      PROVE  run'[q].held = pending[run[q].thread] /\ pending[run[q].thread] # Nothing
  <2>1. CASE run' = [run EXCEPT ![q].at = "asking"]
    BY <1>1, <2>1 DEF MemoryRecords, RunRecord
  <2>2. CASE run' # [run EXCEPT ![q].at = "asking"]
    <3>1. PICK u \in Understood :
            run' = [run EXCEPT ![q].at = IF Keeps(u.intent) THEN "deciding" ELSE "auditing",
                               ![q].held = pending[run[q].thread], ![q].intent = u.intent,
                               ![q].asks = u.asks]
      BY <1>5, <2>2 DEF Receive
    <3> QED BY <1>1, <1>5, <2>2, <3>1 DEF Receive, MemoryRecords, RunRecord
  <2> QED BY <2>1, <2>2
<1>6. ASSUME NEW r \in Run, r # q, Receive(r)
      PROVE  run'[q] = run[q]
  BY <1>1, <1>6 DEF Receive, MemoryRecords
<1>7. ASSUME NEW r \in Run, r # q,
             Refuse(r) \/ FindActive(r) \/ WriteMemory(r) \/ Audit(r) \/ Clear(r)
                \/ Answer(r) \/ Propose(r) \/ Fail(r)
      PROVE  run'[q] = run[q]
  <2>1. ASSUME NEW x, run' = [run EXCEPT ![r] = x]
        PROVE  run'[q] = run[q]
    BY <1>1, <1>7, <2>1 DEF MemoryRecords
  <2>2. \E x : run' = [run EXCEPT ![r] = x]
    BY <1>7
       DEF Refuse, FindActive, WriteMemory, Audit, Clear, Answer, Propose, Fail, RunGoes
  <2> QED BY <2>1, <2>2
<1>8. CASE Refuse(q) \/ FindActive(q) \/ Audit(q) \/ Clear(q) \/ Answer(q) \/ Propose(q)
             \/ Fail(q)
  <2>1. run'[q].at # "auditing"
    BY <1>1, <1>8 DEF Refuse, FindActive, Audit, Clear, Answer, Propose, Fail, RunGoes,
                      MemoryRecords, RunRecord
  <2> QED BY <2>1
<1> QED BY <1>2, <1>3, <1>4, <1>5, <1>6, <1>7, <1>8
        DEF MemoryNext, memoryVars, Lapse, Consolidate

(* The shape of the memory survives every step.                              *)
LEMMA MemoryShapeStep == MemoryShape /\ [MemoryNext]_memoryVars => MemoryShape'
<1> SUFFICES ASSUME MemoryShape, [MemoryNext]_memoryVars PROVE MemoryShape'
  OBVIOUS
<1>1. ShapeInv /\ ShapeInv' /\ MemoryRecords /\ MemoryRecords'
  BY ShapeStep DEF MemoryShape, ShapeInv
<1>2. \A r \in Run : run'[r].at = "auditing" => run'[r].held \in Run
  BY AuditsWhatItHolds
<1>3. audit' \subseteq AuditEntry
  <2>1. ASSUME NEW r \in Run, Audit(r)
        PROVE  audit' \subseteq AuditEntry
    <3>1. run[r].held \in Run /\ run[r].intent \in Intent
      BY <1>1, <2>1 DEF Audit, RunGoes, MemoryShape, MemoryRecords, RunRecord
    <3> QED BY <2>1, <3>1 DEF Audit, AuditEntry, MemoryShape
  <2>2. CASE UNCHANGED audit
    BY <2>2 DEF MemoryShape
  <2> QED BY <2>1, <2>2 DEF MemoryNext, memoryVars, Refuse, Receive, FindActive, WriteMemory,
          Clear, Answer, Propose, Fail, Lapse, Consolidate
<1>4. ASSUME NEW t \in Thread, pending'[t] # Nothing
      PROVE  run'[pending'[t]].thread = t
  <2>1. CASE pending'[t] = pending[t]
    <3>1. pending[t] \in Run /\ run[pending[t]].thread = t
      BY <1>1, <1>4, <2>1 DEF MemoryShape, MemoryRecords
    <3> QED BY <1>1, <2>1, <3>1, ThreadStays
  <2>2. ASSUME NEW r \in Run, Propose(r), pending'[t] = r, run[r].thread = t
        PROVE  run'[pending'[t]].thread = t
    BY <1>1, <2>2, ThreadStays
  <2>3. \/ pending'[t] = pending[t]
        \/ pending'[t] = Nothing
        \/ \E r \in Run : Propose(r) /\ pending'[t] = r /\ run[r].thread = t
    BY <1>1 DEF MemoryRecords, MemoryNext, memoryVars, Refuse, Receive, FindActive, WriteMemory,
                Audit, Clear, Answer, Propose, Fail, Lapse, Consolidate
  <2> QED BY <1>4, <2>1, <2>2, <2>3
<1> QED BY <1>1, <1>2, <1>3, <1>4 DEF MemoryShape

(* Whichever part a behaviour follows, the records of all three have their   *)
(* types: the queue of a client is the end of its log, an action that waits  *)
(* for a decision or has one needs a human, and a thread waits on a proposal *)
(* that a run of its own has put to the user.                                *)
THEOREM AgentTyped == MCSpec => []AgentTypeOK
<1> DEFINE Inv == GateShape /\ MemoryShape /\ LimiterInv
<1>1. MCInit => Inv
  <2> SUFFICES ASSUME MCInit PROVE Inv
    OBVIOUS
  <2>1. GateShape
    BY DEF MCInit, GateInit, GateShape, GateInv, GateRecords, ActionRecord, DecisionRecord,
           ExecutionRecord, ActionStatus, EntitledOnce, ActionRight, Admitted, WaitsForHuman,
           AsksHuman
  <2>2. MemoryRecords
    BY DEF MCInit, MemoryInit, MemoryRecords, Row, RunRecord, RunPlaces, Intent
  <2>3. MemoryShape
    BY <2>2 DEF MCInit, MemoryInit, MemoryShape, ShapeInv, RunRight, RowRight
  <2> QED BY <2>1, <2>3, LimiterStart DEF MCInit
<1>2. Inv /\ [MCNext]_agentVars => Inv'
  <2> SUFFICES ASSUME Inv, [MCNext]_agentVars PROVE Inv'
    OBVIOUS
  <2>1. /\ [MemoryNext]_memoryVars
        /\ [LimiterNext]_limiterVars
        /\ [GateNext]_gateVars
    BY DEF MCNext, agentVars
  <2> QED BY <2>1, GateShapeStep, MemoryShapeStep, LimiterStep
<1>3. Inv => AgentTypeOK
  <2> SUFFICES ASSUME Inv PROVE AgentTypeOK
    OBVIOUS
  <2>1. GateTypeOK
    BY DEF GateShape, GateInv, GateRecords, GateTypeOK, WaitsForHuman, ActionRecord,
           DecisionRecord, ExecutionRecord
  <2>2. ASSUME NEW t \in Thread, pending[t] # Nothing
        PROVE  /\ run[pending[t]].thread = t
               /\ run[pending[t]].rule # Nothing
               /\ run[pending[t]].at = "proposed"
    BY <2>2, MemoryAssumption DEF MemoryShape, ShapeInv, Asked, Key
  <2>3. MemoryTypeOK
    BY <2>2 DEF MemoryTypeOK, MemoryShape, ShapeInv, MemoryRecords, Row, RunRecord, RunPlaces,
                AuditEntry
  <2> QED BY <2>1, <2>3, LimiterTyped DEF AgentTypeOK
<1> QED BY <1>1, <1>2, <1>3, PTL DEF MCSpec
===============================================================================

------------------------------ MODULE AgentMemory ------------------------------
(***************************************************************************)
(* The operational memory of the support agent: runs of the graph of       *)
(* services/agent/graph.py propose memories, the next message of the thread*)
(* approves, edits, rejects or drops the proposal, and a consolidation     *)
(* retires memories.  Every call of the store is a transaction of its own  *)
(* on one SQLite file; a SELECT before a write is outside the transaction, *)
(* and any call may raise, which ends the run.                             *)
(***************************************************************************)
EXTENDS FiniteSets, Naturals

CONSTANTS
    Thread,       \* conversations
    Run,          \* the runs of the agent that will ever be made
    CarrierRule,  \* entity keys of the category carrier_rule
    Transient,    \* entity keys of the category incident_context
    Preference,   \* entity keys of the category b2b_preference
    Nothing       \* no proposal, no row, no rule

ASSUME MemoryAssumption == /\ IsFiniteSet(Run) /\ Nothing \notin Run
                           /\ CarrierRule \cap Transient = {}
                           /\ Preference \cap (CarrierRule \cup Transient) = {}
                           /\ Nothing \notin CarrierRule \cup Transient \cup Preference

VARIABLES
    pending,  \* pending_proposals: the run whose proposal the thread waits on
    memory,   \* memories: memory[r] is the row that run r inserted
    audit,    \* memory_audit
    run       \* run[r]: a run, between two calls of the store

memoryVars == <<pending, memory, audit, run>>

Key     == CarrierRule \cup Transient \cup Preference
Intent  == {"approve", "edit", "reject", "ambiguous"}
Dropped == {"reject", "ambiguous"}

(* rule is what the run proposes to remember; held the proposal that its     *)
(* message answers, asks whether a question is left, row what its SELECT     *)
(* found.  A run that ends proposed has put a question to the user.          *)
MemoryTypeOK ==
    /\ pending \in [Thread -> Run \cup {Nothing}]
    /\ memory \in [Run -> [proposal : Run \cup {Nothing}, lapsed : BOOLEAN,
                           status : {"absent", "active", "expired", "superseded"}]]
    /\ audit \subseteq [proposal : Run, outcome : Intent, by : Run]
    /\ run \in [Run -> [thread : Thread, rule : Key \cup {Nothing},
                        held : Run \cup {Nothing}, intent : Intent, asks : BOOLEAN,
                        row : Run \cup {Nothing},
                        at : {"new", "deciding", "saving", "auditing", "clearing", "asking",
                              "proposing", "proposed", "ended", "failed"}]]
    /\ \A t \in Thread : pending[t] # Nothing =>
          /\ run[pending[t]].thread = t
          /\ run[pending[t]].rule # Nothing
          /\ run[pending[t]].at = "proposed"

MemoryInit ==
    /\ pending = [t \in Thread |-> Nothing]
    /\ memory = [r \in Run |-> [proposal |-> Nothing, lapsed |-> FALSE, status |-> "absent"]]
    /\ audit = {}
    /\ run \in [Run -> [thread : Thread, rule : {Nothing}, held : {Nothing},
                        intent : {"ambiguous"}, asks : {TRUE}, row : {Nothing},
                        at : {"new"}]]

RunGoes(r, from, to) == /\ run[r].at = from
                        /\ run' = [run EXCEPT ![r].at = to]

\* Faulty variant: silence is consent.
KeepsUnlessRejected(intent) == intent # "reject"
Keeps(intent) == intent \notin Dropped

(* What the classifier may make of an answer to a proposal, and whether it   *)
(* finds a further question in it: an unclear answer is taken for one, and   *)
(* an edit for none.                                                         *)
Understood == {u \in [intent : Intent, asks : BOOLEAN] :
                  /\ u.intent = "ambiguous" => u.asks
                  /\ u.intent = "edit" => ~u.asks}

(* evaluate_input_guards blocks or redirects the message, or it is empty: the*)
(* proposal of the thread is not looked at, one node answers, and the end.   *)
Refuse(r) == /\ RunGoes(r, "new", "ended")
             /\ UNCHANGED <<pending, memory, audit>>

(* receive_question up to the first write.                                   *)
Receive(r) ==
    LET p == pending[run[r].thread] IN
    /\ run[r].at = "new"
    /\ \/ /\ p = Nothing
          /\ run' = [run EXCEPT ![r].at = "asking"]
       \/ /\ p # Nothing
          /\ \E u \in Understood :
                run' = [run EXCEPT ![r].at = IF Keeps(u.intent) THEN "deciding"
                                             ELSE "auditing",
                                   ![r].held = p, ![r].intent = u.intent,
                                   ![r].asks = u.asks]
    /\ UNCHANGED <<pending, memory, audit>>

RuleOf(m)  == run[memory[m].proposal].rule
ActiveFor(key) == {m \in Run : memory[m].status = "active" /\ RuleOf(m) = key}

(* save_approved_memory, its SELECT: one of the active rows, if any.         *)
FindActive(r) ==
    LET rows == ActiveFor(run[run[r].held].rule) IN
    /\ run[r].at = "deciding"
    /\ \E m \in IF rows = {} THEN {Nothing} ELSE rows :
          run' = [run EXCEPT ![r].at = "saving", ![r].row = m]
    /\ UNCHANGED <<pending, memory, audit>>

\* Faulty variant: an existing rule is left as it is, and a new one added.
Added(r) == [memory EXCEPT ![r] = [proposal |-> run[r].held, lapsed |-> FALSE,
                                   status |-> "active"]]
(* The UPDATE of the row found, by its id and whatever its status is by now, *)
(* or the INSERT.                                                            *)
Written(r) ==
    IF run[r].row = Nothing THEN Added(r)
    ELSE [memory EXCEPT ![run[r].row].proposal = run[r].held, ![run[r].row].lapsed = FALSE]

WriteMemory(r) == /\ RunGoes(r, "saving", "auditing")
                  /\ memory' = Written(r)
                  /\ UNCHANGED <<pending, audit>>

(* record_audit.                                                             *)
Audit(r) == /\ RunGoes(r, "auditing", "clearing")
            /\ audit' = audit \cup {[proposal |-> run[r].held, outcome |-> run[r].intent,
                                     by |-> r]}
            /\ UNCHANGED <<pending, memory>>

\* Faulty variant: the proposal stays when the message asks something else.
ClearUnlessAsks(r) ==
    /\ RunGoes(r, "clearing", "asking")
    /\ pending' = [pending EXCEPT ![run[r].thread] = IF run[r].asks THEN @ ELSE Nothing]
    /\ UNCHANGED <<memory, audit>>
(* clear_pending_proposal: whatever proposal the thread has by now.          *)
Clear(r) == /\ RunGoes(r, "clearing", "asking")
            /\ pending' = [pending EXCEPT ![run[r].thread] = Nothing]
            /\ UNCHANGED <<memory, audit>>

(* retrieve_context: passages and memories were found, or none were; a search*)
(* that raises finds nothing.                                                *)
Retrieved == {"generate_answer", "no_context"}

(* route_after_receive: a decision without a question has its answer already.*)
Route(r) == IF run[r].asks THEN Retrieved \cup {"incident_tool", "inventory_tool"}
                           ELSE {"generate_answer"}

(* The node looks for a rule in the message if the thread has no proposal    *)
(* (has_pending, and again the SELECT of set_pending_proposal, of which the  *)
(* last decides).  Only generate_answer stops at an answer that its output   *)
(* guard has blocked.                                                        *)
LooksForRule(r, node, passed) == /\ node = "generate_answer" => passed
                                 /\ pending[run[r].thread] = Nothing

(* The node answers, and the evaluator finds a rule or none.                 *)
Answer(r) ==
    /\ run[r].at = "asking"
    /\ \/ run' = [run EXCEPT ![r].at = "ended"]
       \/ \E node \in Route(r), passed \in BOOLEAN, rule \in Key :
             /\ LooksForRule(r, node, passed)
             /\ run' = [run EXCEPT ![r].at = "proposing", ![r].rule = rule]
    /\ UNCHANGED <<pending, memory, audit>>

\* Faulty variant: the proposal is stored and the answer does not ask.
ProposeUnasked(r) == /\ RunGoes(r, "proposing", "ended")
                     /\ pending' = [pending EXCEPT ![run[r].thread] = r]
                     /\ UNCHANGED <<memory, audit>>
(* The INSERT OR REPLACE of set_pending_proposal, and the rest of the node.  *)
Propose(r) == /\ RunGoes(r, "proposing", "proposed")
              /\ pending' = [pending EXCEPT ![run[r].thread] = r]
              /\ UNCHANGED <<memory, audit>>

(* A call of the store raises, and run_support_agent answers with an error;  *)
(* or the process dies.                                                      *)
Fail(r) == /\ run[r].at \notin {"proposed", "ended", "failed"}
           /\ run' = [run EXCEPT ![r].at = "failed"]
           /\ UNCHANGED <<pending, memory, audit>>

(* The seven days of a transient context pass.                               *)
Lapse(m) == /\ memory[m].status = "active" /\ ~memory[m].lapsed
            /\ RuleOf(m) \in Transient
            /\ memory' = [memory EXCEPT ![m].lapsed = TRUE]
            /\ UNCHANGED <<pending, audit, run>>

(* consolidate, one transaction: lapsed rows expire, and of the rows of one  *)
(* carrier and country one is kept (the last updated; which is not modelled).*)
(* Preferences neither lapse nor are merged.                                 *)
Consolidate ==
    /\ \E kept \in SUBSET {m \in Run : memory[m].status = "active"} :
          /\ \A key \in Transient :
                kept \cap ActiveFor(key) = {m \in ActiveFor(key) : ~memory[m].lapsed}
          /\ \A key \in CarrierRule : ActiveFor(key) # {} =>
                Cardinality(kept \cap ActiveFor(key)) = 1
          /\ \A key \in Preference : ActiveFor(key) \subseteq kept
          /\ memory' = [m \in Run |->
                IF memory[m].status # "active" \/ m \in kept THEN memory[m]
                ELSE [memory[m] EXCEPT !.status =
                         IF RuleOf(m) \in Transient THEN "expired" ELSE "superseded"]]
    /\ UNCHANGED <<pending, audit, run>>

MemoryNext ==
    \/ \E r \in Run : \/ Refuse(r) \/ Receive(r) \/ FindActive(r) \/ WriteMemory(r)
                      \/ Audit(r) \/ Clear(r) \/ Answer(r) \/ Propose(r) \/ Fail(r)
    \/ \E m \in Run : Lapse(m)
    \/ Consolidate

MemorySpec == MemoryInit /\ [][MemoryNext]_memoryVars

(***************************************************************************)
(* Properties.                                                             *)
(***************************************************************************)
(* Whatever fails or overlaps, what is in memory was approved by a message   *)
(* and the audit says so, but for the run that is about to write it or failed*)
(* there (record_audit follows save_approved_memory in a transaction of its  *)
(* own).                                                                     *)
KeptIsAudited ==
    \A m \in Run : memory[m].status # "absent" =>
        \E r \in Run : /\ run[r].held = memory[m].proposal
                       /\ run[r].intent \notin Dropped
                       /\ \/ run[r].at \in {"auditing", "failed"}
                          \/ [proposal |-> run[r].held, outcome |-> run[r].intent, by |-> r]
                                \in audit

(* While a thread has one run at a time and none fails with its decision half*)
(* written, what the user was asked is still pending or the audit has one    *)
(* answer to it, and a proposal that was dropped is not in memory.           *)
Underway(r)     == run[r].at \notin {"new", "proposed", "ended", "failed"}
OneRunPerThread == \A r, s \in Run : Underway(r) /\ Underway(s) /\ r # s =>
                                        run[r].thread # run[s].thread
AnswersTo(p)    == {a \in audit : a.proposal = p}
InMemory(p)     == \E m \in Run : memory[m].status = "active" /\ memory[m].proposal = p
NoneHalfWritten ==
    \A r \in Run : run[r].at = "failed" /\ run[r].held # Nothing =>
        \/ pending[run[r].thread] # run[r].held
        \/ AnswersTo(run[r].held) = {} /\ ~InMemory(run[r].held)
AnsweredOnce ==
    ([](OneRunPerThread /\ NoneHalfWritten)) =>
        [](\A p \in Run : run[p].at = "proposed" =>
              /\ Cardinality(AnswersTo(p)) <= 1
              /\ pending[run[p].thread] # p => AnswersTo(p) # {}
              /\ (\E a \in AnswersTo(p) : a.outcome \in Dropped) => ~InMemory(p))

(* While the runs that save one rule do so one after another, a rule has at  *)
(* most one active memory, and one that does not lapse, of a carrier or a    *)
(* preference, stays in force through every consolidation once it is saved.  *)
Saving(key) == {r \in Run : run[r].at = "saving" /\ run[run[r].held].rule = key}
OneActivePerRule ==
    ([](\A key \in Key : Cardinality(Saving(key)) <= 1)) =>
        [](\A key \in Key :
              /\ Cardinality(ActiveFor(key)) <= 1
              /\ (\E m \in Run : memory[m].status # "absent" /\ RuleOf(m) = key)
                    /\ key \notin Transient => ActiveFor(key) # {})
=============================================================================

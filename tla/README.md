# TrackFlow: TLA+ models, checks and proofs

This directory models the parts of TrackFlow whose correctness is hardest to test:
those in which HTTP requests, background tasks, processes and people change the same
rows, with no lock and no transaction longer than one function.

- the RFP workflow (intake, response generation, departmental approval) over one
  ticket, and the stream of events that announces tickets;
- the chat of the support agent, its memory, its rate limiter and the approval gate;
- the jobs nobody watches: the nightly export, the Celery tasks, the weekly pipeline;
- the routers of the API that read, check and then write: incidents and suppliers
  with their cache, inventory, users and password resets.

Every definition is translated from the source; `PROJECT.json` gives the lines of
each one (`map`), the runs, the theorems, the findings and the hazards.
Status values are written without accents (`en_evaluacion` for `en_evaluación`).

## 1. Inventory of the system

| Component | State it keeps | Operations | What is hard | What makes it correct |
|---|---|---|---|---|
| RFP store (`rfp_intake/persistence.py`) | ticket row, metadata, one section per department, final document | one short transaction per function | callers combine several of them | document before `terminado`; rows only change as their writers mean |
| RFP intake (`graph.py`, `nodes.py`, `routes/rfp.py`) | the position of the graph, the fan-out | upload, register, ingest, classify, orchestrate, workers, synthesize | parallel workers, exceptions caught twice, background task lost | fan-in complete, discard final, tickets settle |
| RFP generation (`response_flow.py`) | per run: section, attempt, any failure | request, draft, evaluate, retry, keep, finish | overlapping runs, check and write apart, exceptions | final verdict true of every section, no ticket left generating |
| RFP approval (`approval_flow.py`) | LangGraph checkpoints, decisions in flight | open gates, decide, regenerate, check, synthesize, save, close | racing decisions, crash between two commits, lost checkpoints | last signature not lost, document signed, status agrees with signatures |
| Contract arbitration (`arbitration.py`) | none | pure function | - | - |
| Event stream (`sse.py`, `useRfpSseNotifications.ts`) | history, subscriber queues, what a dashboard shows | publish, sync, subscribe, replay, reconnect, restart | subscribe before replay, buffer out of order, full queues, a list or a synchronisation that fails | no announced ticket is missed |
| Job runner, nightly export (`nightly_export.py`, `job_runner.py`) | `job_runs` rows, backup files | lock, check the date, insert, export, complete, fail | check then insert, holder dies, half a file | one export per date, lock has a holder, done means backed up |
| Celery tasks, dead letters (`tasks.py`, `dlq.py`) | queue, run records, `dead_letter_queue` | send, receive, retry, bury | retries of done work, hard kill, broker down | success and failure agree with what is on record; a task ends |
| Weekly pipeline (`data/pipelines/pipeline.py`) | run record, metrics row, transformation cache | extract, transform, load, notify | overlapping runs, cache keyed by the number of rows | metrics never go back |
| WebSocket chat (`ws_chat.py`) | messages, active turn, producer task | start, interrupt, stream, finish | several sockets, cancellation at each await | one live producer, status names the live turn |
| Read cache, incidents, suppliers (`cache.py`, `routes/`) | TTL entries; records in a file | list, get, create, patch, delete | fill after invalidation, check then write, whole file written | no stale entry left; no write lost; legal transitions |
| Inventory (`routes/inventory.py`) | products, orders | create, inbound, outbound | stock is two sums, check then insert | stock never negative |
| Accounts, password reset (`routes/users.py`, `auth.py`, `profiles.py`) | users, profiles, tokens in one file | create, update, delete, forgot, reset | two writes per call, whole file written | addresses unique, users have profiles, a token resets once |
| Human approval gate (`security/hitl.py`) | action records | submit, decide, execute | check outside the lock | a person decided, one execution |
| Rate limiter (`security/rate_limiter.py`) | a queue of events per key | check, reset | the boundary of the window | no window exceeds its budgets |
| Agent memory (`agent/memory`) | proposals, memories, audit | propose, approve, edit, reject, drop, lapse, consolidate | three writes per decision, no run knows the others | memory is what was approved, audited, one rule in force |
| Support agent graph (`agent/graph.py`, `nodes.py`, `edges.py`, guards) | one run | the nodes and routes between them | any call may raise | it asks what it then remembers |
| Telemetry | event table, append only | receive a batch | duplicate identifiers | - |
| Logistics engines, retrieval, forecasting, MCP server, other user interfaces | little or none | text, numbers, I/O | no state machine | - |

How they meet. The parts of the workflow meet in the store only: `routes/rfp.py` runs
each part in worker threads; part 1 and part 2 go on as background tasks after the
response, and nothing asks whether another part is still running. Publishing an upload
links the store and the event stream. The nightly export and the Celery tasks read the
same telemetry and write different tables. The agent's runs meet in one SQLite file
(memory), and its engines submit actions to the gate. The routers share the cache
class, but no entry; the chat shares no state with any of them.

The API is deployed as one process whose synchronous endpoints run in threads:
incidents, suppliers, inventory, users and auth interleave at every access.
`query_support_agent` is a coroutine that runs the agent without giving up its event
loop, so two runs of the agent interleave only if two processes share the SQLite file
(a second worker, the MCP server, a script). The model lets them, and the properties
name the overlap they must be free of.

## 2. Modules

    RfpStore            the rows of one ticket and the functions that change them
      RfpIntake         part 1: upload and the intake graph
      RfpGeneration     part 2: generation requests and the generator-evaluator loop
      RfpApproval       part 3: gates, decisions, synthesis, closing
        RfpSignOff      what part 3 promises, without its steps
        MCRfpApproval   several decisions on evaluated sections
      RfpLifecycle      the three parts over one ticket
      MCRfpParts        parts 1 and 2 on a ticket each, one followed at a time
    RfpApprovalProofs, RfpLifecycleProofs, RfpPartsProofs
    WsChat              one chat session: connections, turns, producers
      MCWsChat          the same with a record of whether connections crossed
    WsChatProofs
    NightlyExport       launches of the export over job_runs and the backup files
    WeeklyTask          Celery tasks around the weekly flow, and the events it reads
      MCBackgroundJobs  both, one followed at a time
    BackgroundJobsProofs
    SseBroker           uploads, buffer, subscriptions, the dashboard
    CachedRecords       incidents and suppliers with their cache
    Inventory           products and orders
    Accounts            users, profiles, reset tokens
      MCApiServices     the four, one followed at a time
    ApiServicesProofs
    AgentMemory         runs of the agent over proposals, memories and the audit
    RateLimiter         the sliding window in front of it
    ApprovalGate        critical actions, decisions and executions
      MCAgent           the three, one followed at a time
    AgentProofs
    DataInduction       the facts that induction over lists and queues rests on

**RfpStore.** `status`, `section` and `doc` are the columns a transition depends on.
Each function of `persistence.py` is a formula about the one table it writes
(`CreateTicket`, `SetStatus`, `UpsertSection`, `WriteDraft`, `RecordApproval`,
`SaveDocument`); it opens its own session and commits, so a call is one step. Text
is abstracted to `draft`: none, the text the stored evaluation is about, or a later
text. `doc` records the rows the document was made from.

**RfpIntake.** One record `intake`: where the pipeline is, the departments it needs
and those whose worker has not yet committed. `Ingest` reads from the document which
services it mentions and which the client does without (`DepartmentsAsked`), `Classify`
rejects a pitch, a text too short to be a request and one that asks nobody
(`IsClientRfp`), and `Orchestrate` sends out what was read. `GraphFails`,
`PublishFails` and `DiscardOnError`
are the two exception handlers, which write the same row one after the other;
`IntakeKilled` is a process that dies with its background task. A ticket registered
by `POST /tickets` never has a pipeline (`Register`). The model keeps an upload
whose request fails before the task is scheduled within `IntakeKilled`.

**RfpGeneration.** `run[r]` is a generation request from its status check
(`RequestGeneration`) through the separate write (`AcceptGeneration`) to the loop.
`sync=True` and the background task run the same loop and end the same way.
`Compliant` is a constant: the generators work from the metadata and only pass the
feedback and the iteration number along, and the evaluators are deterministic, so a
department passes or fails every time. The branch of `BeginDrafting` for a ticket
without sections is kept because the code has it, its two status writes as one step; no
`Generable` ticket is without.

**RfpApproval.** `gate[d]` is the checkpoint of a department's LangGraph thread,
`opening[o]` a request that opens the gates, `review[v]` one decision. A decision
is the sequence the code is: look at the thread (`Submit`), open it if it does not
wait (`Establish`), `Resume`, `Record`, `Regenerate` if changes were asked for,
`Check`, then `Reopen` or `SynthesizeDocument`, `Save`, `Close` - and anything else
may run between two of them. LangGraph is external: running a thread up to
`interrupt()` may fail and the exception is swallowed (`PauseThread`); resuming a
thread that another decision has resumed meanwhile either runs it again or returns
its stored result (`Resume`). `GatesForgotten` is the fallback to checkpoints in
memory. `ReviewLost` and `OpeningLost` are a 500 or a dead process.

**RfpSignOff.** Departments sign, withdraw and publish; a publication takes
everybody's signature in one step. `RfpApproval!SignOff` instantiates it.

**RfpLifecycle.** The union of the three next-state relations over one store,
from the empty ticket, with and without failures.

**WsChat.** On one event loop the other coroutines run at suspension points only, so
a step of the model is the code from one to the next: `publish` never suspends, a
connection waits between frames and for a task it has cancelled (`socket[s]` holds
the locals it goes on with: the task, and the message it found streaming before), a
producer waits before its first step, for the graph's thread and after each token
(`producer[t]`). Turns are numbered as they start; `channel` is the session's
status, active turn and task. A cancellation reaches a task at its suspension point:
before the first step it never enters the `try` block (`Begin`), later it marks its
message (`Abort`); whoever waited marks it if nobody did (`Closed`). A redirection
calls `start_user_turn`, which looks at the active task again; a plain message does
not (`Resume`). The checkpoint the interrupter rewrites, the events and their queues,
the handshake and the ownership of sessions are left out. The agent's graph is
compiled once, when the first connection looks for its checkpoint; a producer calls
the same function outside its `try` block, where a failure would leave its message
open, and the model takes it to succeed.

**NightlyExport.** A launch is one process: it looks for the lock, looks for a finished
row of its date and inserts its own row, each in a transaction of its own, and then
works inside the `try` block whose handler ends the row. `to_csv` truncates before it
writes (`csv[d] = "partial"`), and a file that exists is not written again. The commit
and the refresh of `mark_as_completed` are apart, so a failed refresh turns a completed
row into a failed one. Any step may raise, and any launch may be killed.

**WeeklyTask.** A task goes from the queue through the flow of `pipeline.py`
(`RecordStart`, `Extract`, `Transform`, `Load`, `Notify`, `RecordCompletion`), with two
layers of handlers, to a retry, the dead letter queue or its end; `kind` tells the weekly
task from the synchronous request and the two sample tasks. A broker that is down when
`self.retry` is called loses the task (`Retry`'s failure), and so does a hard kill. The
week has one row of metrics, which is the set of events it counts, and the cache of the
transformation is a function from the number of rows (`CacheKey`). The dead letter is
committed by one step (`Bury`) and the task fails by another (`FailBuried`), so a kill
may come between them; a save that raises before its commit fails the task without a
dead letter (`BuryFails`).

**SseBroker.** `created` is the ticket table, `history` the replay buffer in its own
order, `stream[c]` a dashboard's subscription with what is queued and what is still to
be replayed. The broker lives on one event loop, so a step runs from one `yield` to the
next. A synchronisation appends what the database has and the buffer has not, hence the
buffer may be out of the order of creation and longer than its bound, and a dashboard
that reconnects with its last event is sent what stands behind it *in the buffer*. Two
bounds are to be told apart: the dashboard's own list comes without a limit, so it shows
the 50 newest tickets (`ListLimit`), while a synchronisation reads 100 (`SyncLimit`).
A dashboard without a last event takes the newest of its list, and is then sent
nothing older: `NoGap` speaks of the tickets that a list would show, and of no others.
A list may fail and is ignored, a synchronisation may fail and leaves the buffer as it
is, and a full queue drops its event. `trust` is not in the code: it remembers, for the
properties only, that a dashboard had neither list nor synchronisation, or lost an event
to a full queue, until its next list. `InOrder` is what recovery needs: the buffer holds
tickets as they were created, and none is announced while an older one is yet to be.
The second condition came from the proof: two uploads whose requests publish in the
other order leave a dashboard, which has the newer one as its last event, without the
older one if it reconnects between. Without `InOrder` the property is false, which
`stream_recovery` shows.

**CachedRecords, Inventory, Accounts.** A request is a record with its place in the
handler (`at`), and what it has read (`copy`, or two sums) is what it goes on with,
however stale. TinyDB reads the whole file and writes the whole file: a write is a step
that loads and a step that stores. `router` chooses between incidents, which are
created in any status and then move along `STATUS_TRANSITIONS`, and suppliers, whose
status moves at will. A call on accounts makes one or two writes, and fails at any of them.

**AgentMemory.** `run[r]` is one message of a thread on its way through the graph, from
one call of the store to the next: what it was asked (`held`), how it answers
(`intent`), the row its SELECT found, and the rule it goes on to propose. Classifier and
evaluator may answer anything they can answer. `memory[m]` is the row inserted by run
`m`; an update writes to the row found earlier, whatever became of it. The three
categories differ in what becomes of a row: a carrier rule stays and `Consolidate` keeps
one row of it, the context of an incident lapses, and a preference (`b2b_preference`)
stays and is never merged.

**RateLimiter.** `events[c]` is the queue of the code, `log[c]` everything admitted, which
the code forgets. **ApprovalGate.** `decision[d]` and `execution[e]` are calls with the
check apart from the write; the policy (`RequiresHuman`) is evaluated once, at submission.

`MCRfpParts`, `MCBackgroundJobs`, `MCApiServices` and `MCAgent` put components into one
run that share no state there. A behaviour follows one of them (`focus`) and leaves the
others in an initial
state, so that TLC explores the sum of the state spaces and not their product.

Slots are reused, so no variable grows with the number of requests. The faulty
variants beside some definitions are not part of any specification; they are what
the properties would catch (`mutants` in `PROJECT.json`).

## 3. Runs

| Run | Instance | Shows |
|---|---|---|
| `rfp_parts` | 3 departments (one passes, two fail), 1 pipeline or 2 overlapping generation runs of 2 attempts, under fairness | a ticket announced as analysed has the section of every department sent to and of no other; discard is final; an upload settles whichever node raises. The verdict a generated ticket rests with is true of every section; no request leaves it in `generando_borrador` |
| `approval_serial` | 2 departments, 1 decision at a time, 1 opening | part 3 implements `RfpSignOff`; documents are fully signed; a ticket resting in `terminado` is approved by everybody |
| `approval_race` | 2 departments, 2 decisions, under fairness | the last signature always has a decision that will still look, or the document exists; signatures that stay complete get a document |
| `lifecycle` | 1 department, 1 pipeline, 1 run, 1 opening, 1 decision, with lost calls, tasks and checkpoints | `terminado` always has a document whatever parts 1 and 2 do meanwhile |
| `chat` | 2 connections, 3 turns, answers of up to 2 tokens, under fairness | a session shown as streaming has somebody to end its answer and every answer settles, however connections cross; without crossing, one generation at a time and no change to an interrupted answer |
| `background_jobs` | 3 launches over 2 dates; 2 tasks (one weekly from the queue), 2 events, 1 retry, under fairness | a row in `processing` has a launch at work or one that died; a finished date has its backup; a success and a failure of a task agree with its run records and its dead letter, also if it is killed between the dead letter and the failure; a task that was sent ends. Launches that do not look at the table at once export a date once, and flows that do not overlap never take an event back |
| `api_services` | 3 tickets, 1 dashboard, a buffer of 2, a queue of 1, synchronisations of 2 and lists of 1; 2 records, 2 requests; 3 orders of one product; 2 users, 2 addresses, 1 token, 2 calls | a dashboard misses no announced ticket that a list would show, through restarts, full queues and failed lists and synchronisations, while tickets are buffered and announced in the order of creation; and, each under the overlap it must be free of, caches are current, writes are right, stock is never negative, addresses are unique, users have profiles, tokens reset once |
| `agent` | 3 runs of one thread, 1 carrier rule, 1 transient key, 1 preference; 1 client over 2.5 windows of 2; 1 action, 2 people, 2 decisions, 2 executions | what is remembered was approved and audited; a question gets one answer; a rule has one memory; no window exceeds its limits; nothing that needs a person runs without one |

Properties of the form `([]P) => []Q` say exactly which overlap (`P` fails) the code
does not protect itself from, and that nothing else is needed for `Q`: TLC and the
proofs go through every behaviour that keeps `P`.

Runs that end in a counterexample state what the repository says and the code does
not do (`findings` quotes the lines):

| Run | Said | Done |
|---|---|---|
| `approval_signed_race` | the document is made only when everything is approved | check and synthesis are two transactions; a refusal between them is published |
| `lifecycle_discarded` | a discarded ticket stays discarded | opening the gates puts it back |
| `stream_recovery` | missed events are recovered via `Last-Event-ID`, and "history order matches creation order" | a ticket published first stands before an older one that is synchronised after it; a dashboard whose last event is the older one is not sent the newer, although no call fails |
| `gate_executed_twice` | "Never executes twice" | the status is read before the lock and written after the executor has run: two calls run it |

Other disagreements met on the way, which have no run of their own:

- the slower of two racing decisions writes `esperando_aprobacion` over `terminado`
  (`approval_flow.py:349`);
- unknown decision words, the gate's own words for refusal among them, become an
  approval on the way (`routes/rfp.py:503`);
- the limit on rounds of changes is never reached, since every round starts a thread at
  iteration 1 (`approval_flow.py:321`);
- two chat connections that wait for the same cancelled task both start a turn, and
  nobody holds the task of the first (`ws_chat.py:402`);
- a failure between the write of a memory and its audit leaves a memory without one,
  although `agent/memory/store.py:4` promises atomic audit logging: `KeptIsAudited`
  admits it by its disjunct for runs that failed.

**Bounds.** Two departments and two decisions are the smallest instance in which
the last two signatures race, one decision's check falls between another's record
and check, and a document is made from rows changed after the check. A third
department adds a signature that is already there or still missing, both of which
two departments show; a third decision is covered by the proofs, which hold for any
number. The lifecycle needs one department because its question is interference of
parts, not of departments; every pair of parts is in flight together in it. Two
attempts are the smallest number with a retry and a last attempt. `MaxIterations`
is a parameter of the request (1 to 10), so the instances are values it takes.
`IterationLimit` is 3, as in the code.

A chat needs two connections to cross, and three turns: one interrupted by both and
one started by each. The run was also made with three connections and four turns
(730 000 states) without a difference. `MaxTurns` bounds the history only; a frame
that starts a turn is taken only if the history has room for it once its wait ends.

Three launches are two that race and one that comes when the outcome of both is in the
table; two dates tell the lock, which is for all dates, from the check, which is for
one. One retry is a first and a last attempt; two events are the smallest set in which
two extractions differ and one contains the other. Three tickets overflow a buffer of
two and a queue of one, a synchronisation of two leaves one ticket out, and a list of one
shows fewer than a synchronisation reads, as in the code. Two requests race; the third
order of the inventory brings the stock the other two compete for. Three runs of
the agent are one that asks and two
that answer at once, or one answer and the next question. The limiter's clock covers
two windows and a half (`LastTime` against `Window`), so that every event leaves the
window within the run, at its boundary too. The proofs lift all of these bounds where
they apply (section 4).

**Deadlock** is checked in every run but those in which the system really stops:
`rfp_parts`, where one ticket's pipeline ends; the chat, whose history fills up;
`background_jobs`, `api_services`, `agent`, `stream_recovery` and `gate_executed_twice`,
whose finitely many launches, requests, tickets and runs end.

**Fairness.** Weak fairness of the steps of a call or task that has started
(`PipelineStep`, `LoopStep(r)`, `OpeningStep(o)`, `ReviewStep(v)`; for the chat
`ProducerStep(t)` and `Resume(s)`; `TaskStep(t)` for a background task that was sent):
the event loop, the thread pool, the workers, the language model's client and the
database finish what they begin. Nothing is assumed of clients, approvers or cron, who
may never call. Liveness is claimed for the specifications without lost background tasks
only for the RFP workflow, where nothing recovers a ticket whose process died; a Celery
task may be lost or killed, and then has come to an end of that name.

## 4. Proofs

`tlapm` checks every step. The assumptions are `ApprovalAssumption` (there is a
department; "approve" is a word a client may send), `GenerationAssumption`
(at least one attempt; the compliant departments are departments), and
`ChatAssumption` (finitely many connections, a bounded history). The modules of the
second half assume that there are finitely many tickets, events, requests, calls, runs,
decisions and executions, that quantities, costs, limits and the window are numbers, that
a list returns no more rows than a synchronisation reads and fewer than the buffer keeps
(50, 100 and 500), that the three categories of memory keys are disjoint, and that
the values for "no row", "no copy" and "no event" are none of the rows, files or tickets
(`SseAssumption`, `WeeklyAssumption`, `RecordsAssumption`, `InventoryAssumption`,
`AccountsAssumption`, `CopyAssumption`, `MemoryAssumption`, `GateAssumption`,
`LimiterAssumption`).
Slots, words, departments, launches, dates, records, quantities, attempts and the like
are otherwise arbitrary sets and numbers.

| Module | Theorem | Argument |
|---|---|---|
| `RfpApprovalProofs` | `ApprovalTypeCorrect` | inductive as it stands, with failures |
| | `ApprovalTerminadoHasDocument` | `DocumentFirst`: a decision about to close has saved the document, and one about to save holds rows that are not empty; `terminado` alone says nothing of the decision between its two commits |
| | `ApprovalAllApprovedIsPublished` | inductive with the types: recording the last signature leads the same decision to its check, and a check that sees all approved goes on to save |
| | `SerialDocumentSigned`, `SerialTerminadoApproved`, `SerialImplementsSignOff` | under `OneAtATime` (at most one decision slot): `SerialInv` carries what the check saw - all approved, and the rows to be saved are those approved - through the steps of the one decision, and each step is a step of `RfpSignOff` or stutters |
| `RfpLifecycleProofs` | `LifecycleTypeCorrect`, `LifecycleTerminadoHasDocument`, `LifecycleAllApprovedIsPublished` | the invariants of part 3 are shown stable under every step of parts 1 and 2 (`LifecycleInv`); these set the status but never to `terminado`, and write sections but never approve one |
| `RfpPartsProofs` | `IntakeTyped`, `IntakeAnalysedIsComplete`, `IntakeDiscardIsFinal` | `IntakeProgress`: at the fan-in the sections are those of the workers that have committed, and a request that passed the classifier asked somebody |
| | `GenerationTyped`, `GenerationRestingVerdictIsSound` | `GenerationProgress`: what a run's `anyFailed` and remaining departments say of the sections, for each step of each overlapping run |
| `WsChatProofs` | `ChatTypeCorrect`, `NeverStuckStreaming` | `ChatInv` follows the last turn: the session's task is always its task, its message is open while the task runs, and once it is cancelled a connection waits that will close its message; older turns may do what they like, since all they can write is a status other than streaming. `RoomKept` counts the connections that are to start a turn |
| | `OneGenerationUnlessCrossed`, `InterruptedAnswersStay` | `CalmInv`: until connections cross, no producer but the last turn's is live and at most one connection waits, for that turn (`OneAtATime`); a turn is then started by nobody but the one that has seen the last one end |
| `BackgroundJobsProofs` | `NightlyProcessingHasOwner`, `NightlyCompletedHasBackup` | `NightlyInv`: the row of a launch follows from its place (`RowsFollow`), and a launch past the export has a file, which is half written only while or after somebody wrote it (`FilesFollow`) |
| | `NightlyExportsOnce` | `SpacedInv`: what a launch has found of the other rows is still so until it inserts its own (`LooksHold`), since nobody else is between looking and inserting |
| | `WeeklyReportsAreOnRecord` | `RecordsInv`: the run record and the dead letter of a task follow from its place, for each handler of both layers; a task that has buried its letter either fails next or is killed |
| | `WeeklySerialRunsOnlyAdd` | `SerialInv`: events are only added, so as many rows are the same rows, the cache keyed by their number is sound (`CacheSound`), and what a flow holds contains the metrics |
| | `JobsTyped` | the types of both jobs, with what a place says of the values held there |
| `ApiServicesProofs` | `StockNeverOversold` | `StockInv`: while one exit of a product is under way, the entries it has summed are still there and no exit was added since it counted |
| | `CacheIsCurrent` | `CacheInv`: without a fill that crosses, every step leaves entries that are current or somebody who will drop them |
| | `WritesAreRight` | `WriteInv`: the one writer's copy is the file and its transition is legal on it |
| | `AddressesAreUnique`, `UsersHaveProfiles`, `TokensResetOnce` | `EmailInv`, `PairInv`, `TokenInv` over `AccountsInv`: while no write is lost, a write is made on the file as it is; an address found free stays free, a user without profile has a call half done, a token found unused stays unused |
| | `GapsAreRecovered` | `SseInv` says what a stream owes its dashboard (`Follows`). Unless it is "lost" it is served: what a list would show and was announced was shown, is in its replay, or comes after the whole replay and is in its queue or yet to be announced (`StillComes`); a dashboard that is away has seen what is owed up to its last event (`CaughtUp`). After a list what it has not seen is in the buffer, or comes after all the buffer holds (`Buffered`), so the synchronisation may fail. `TrimKeepsRecent`: trimming pushes out no ticket that a list would show, since fewer than `MaxHistory` can follow it. The invariant is kept by steps from and to states `InOrder`, and `InOrder` alone is not enough: nothing in it tells which events a client holds |
| | `ServicesTyped` | the types of the four services; that the user's copy is a file follows a call from its reading to its writing |
| `AgentProofs` | `GateNeedsItsHuman` | `GateInv`: a decision past its check stays entitled, an action that needs a person is approved by nothing else, and an execution past its check keeps the approval it saw - also when decisions overwrite each other |
| | `MemoryIsAudited` | `MemoryInv`: only a run that decided to keep reaches the write, and its audit record is next |
| | `RuleHasOneMemory` | `RuleInv`: while one run saves a rule at a time, the row it found is still the active one, or there is still none; proposals never change their rule (`ShapeInv`) |
| | `ProposalsAreAnsweredOnce` | `AnswerInv`: a proposal waits in its thread or has its answer, and a memory in force was kept by the answer |
| | `LimiterKeepsLimits` | `LimiterInv`: the queue is the latest part of the log, in order of time, and whatever it lacks is older than a window; the tokens of any window are then those of a part of a queue that was checked, and a part costs no more than the whole (by induction over the length) |
| | `AgentTyped` | the types of the memory, the gate and the limiter |

`DataInduction` has no system in it: a set of naturals that holds 0 and the successor of
each member holds them all, from the least-element form of well-foundedness. The
library's induction theorems take an operator as a parameter, which the provers cannot
instantiate; this one takes a set, and so what a recursive function computes (the tokens
of a queue, the rows a synchronisation records, the users of a list) is proved for every
length. Such functions are written `f[n \in 0..Len(q)]`, never as RECURSIVE operators.

Proving corrected one property: `InOrder` had only the order of the buffer, and recovery
is false without its second condition. It also showed what a
bounded check takes for granted: that the value for "no copy" is not a file
(`CopyAssumption`), and that a request past the classifier asks somebody, without which
the fan-out might be empty.

Only model-checked: the liveness properties (`UploadSettles`, `GenerationSettles`,
`SignaturesGetDocument`, `TurnsSettle`, `TasksSettle`), which need fairness and ENABLED,
out of the prover's reach, and the four disagreements. Every invariant and every action
property that a passing run checks is also a theorem, for all values of the constants.

## 5. Abstractions and limits

- A function of `persistence.py` is atomic. Two saves of the same document that
  both insert end in one error answer, which is `ReviewLost`.
- Texts, notes, metadata, evaluation scores, arbitration notes and traces are left
  out; no transition depends on them.
- `get_rfp_ticket_bundle` reads one ticket in one session: one read.
- LangGraph, SQLite, TinyDB, Celery and the web framework are external and modelled
  from their use.
- One ticket of the workflow: tickets share no row and no thread. One week, warehouse
  and client of the metrics: rows of different keys share nothing but the run.
- A regenerated draft is stored as pending with the old evaluation and can be
  approved at once, although `docs/milestone-9/README_part3.md:74` says it is
  submitted to evaluation again. The model follows the code.
- The limit on rounds of changes is never reached: each round opens a thread at
  iteration 1 and nothing stores the count.
- A refusal after publication takes the ticket out of `terminado`, but the document
  stays and `GET .../document` serves it in any status (`routes/rfp.py:542`).
- When chat connections cross, a producer nobody holds goes on beside the newer one:
  its end sets the session to idle under the newer turn, and a plain stop can mark
  its message interrupted while it still adds tokens. `OneLiveUnlessCrossed` and
  `InterruptedStays` therefore speak of connections that have not crossed.

What the models of the other components allow because the code does, and no property
excludes:

- two nightly runs that look before either inserts both export, one date or two; no
  document promises more than one machine (`SpacedLaunchesExportOnce` is about launches
  that do not overlap);
- a killed nightly export keeps the lock for ever (`ProcessingHasOwner` names the dead
  launch); half a backup is taken for a whole one by the next launch, which closes the
  date; a failed refresh after the commit turns `completed` into `failed`;
- a retried task repeats its whole effect; a broker that is down at the retry loses the
  task with its run record `FAILED` and no dead letter, and so may a hard kill or a dead
  letter that cannot be saved: `ReportedEndsAreOnRecord` speaks of the successes and
  failures a worker reports, and of these ends only that a dead letter may belong to a
  task killed after burying it; of two overlapping flows the one that read earlier may
  write later and take events out of the metrics again (the premise of
  `SerialRunsOnlyAdd`); a
  duplicate identifier fails the whole batch of telemetry;
- two uploads at once, a restart or a synchronisation put the replay buffer out of the
  order of creation, and a dashboard that reconnects misses what stands before its last
  event (`stream_recovery`); what a full queue drops, or a failed list together with a
  failed synchronisation, is missing until a list succeeds; a new dashboard is not
  shown the tickets from the 51st; the buffer exceeds its bound; a persistent stream may
  send an event twice, which the dashboard drops;
- a fill that crosses an invalidation is served until its time to live ends, and so is
  what was cached before a patch that fails after its write (the premises of
  `CurrentUnlessCrossed`); two writers of one file take each other's changes back, or
  both leave the same status (`WritesRightAlone`); two outbound orders may take the same
  stock (`NeverOversoldAlone`); a list of products may show a negative stock, since the
  two sums are two statements; a product is looked for by its code before the code is
  stripped;
- two calls may give one address to two users (`EmailsUniqueAlone`); a call that fails
  between the user and the profile, or a write that is lost, leaves one without the
  other (`PairedUnlessLost`); two resets that overlap, or one that fails after storing
  the password, use a token twice (`UsedOnceAlone`);
- deleting a user who is still being created leaves a profile without a user; sessions
  outlive a change of password;
- a decision may be overwritten by another one that was checked before it, and an
  execution may go on with an approval that was meanwhile overwritten;
- two runs of one thread may drop or replace a proposal that nobody has answered
  (`AnsweredOnce`), and two approvals of one rule may insert two memories of it
  (`OneActivePerRule`);
- the audit of the memory is not atomic with the write, although `store.py:4` says so: a
  failure in between leaves an active memory whose proposal the next message may audit
  as dropped; an update of a row that was superseded or has expired meanwhile loses the
  memory; clearing drops whatever proposal the thread has by then; `handle_no_context`
  forgets the note that a decision was taken;
- the limiter is local to a process, never forgets a key, and tells a request bigger than
  the whole budget to retry in a second, for ever.

## 6. Not modelled, and what could follow

- Contract arbitration, the logistics engines, the guards, the evaluators' scoring,
  retrieval and forecasting are pure functions over text and numbers: their answers are
  nondeterministic choices where a component uses them, and what they compute is better
  tested than model-checked. The actions that the engines submit are in `ApprovalGate`.
- Partly modelled: the chat leaves out the handshake, ownership, the queues of
  subscribers and rehydration; accounts leave out sessions, passwords and the mail that
  carries the token; the store leaves out the metadata row; the graph of the agent keeps
  the nodes as far as they touch the memory; of telemetry, receiving a batch, and not the
  report or the client in the browser. The aggregation's dropping of events without
  warehouse or client (`weekly_performance.py`) is not in the metrics.
- The MCP server calls the same services with no state of its own; the scripts, the
  user interfaces under `uis/` (but for the dashboard's notifications), tests, data and
  deployment files keep none that other components change.

What would add most next: the chat with the checkpoint that the interrupter rewrites and
the subscribers' queues; a refinement of the lifecycle by an abstract ticket; the approval
graph's limit on rounds of changes, once it is stored.

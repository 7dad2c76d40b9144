------------------------------- MODULE WsChat -------------------------------
(***************************************************************************)
(* One chat session of the support agent (trackflow_api/ws_chat.py): the   *)
(* WebSocket connections that share it, the turns they start and interrupt,*)
(* and the producer task of each turn.                                     *)
(*                                                                         *)
(* Everything runs on one event loop, so a coroutine is interleaved with   *)
(* the others at its suspension points only.  publish() never suspends.  A *)
(* connection is suspended between two frames and while it awaits a task it*)
(* has cancelled; a producer before it has begun, while the graph runs in a*)
(* thread, and after each token.  The agent's graph is compiled once, by   *)
(* the first connection, so that a producer finds it ready; the checkpoint *)
(* of the graph and the events published are left out.                     *)
(***************************************************************************)
EXTENDS Naturals, FiniteSets

CONSTANTS
    Sockets,    \* the connections open on the session
    MaxTurns,   \* bound: turns in the history
    MaxTokens   \* bound: tokens in an answer

ASSUME ChatAssumption == /\ IsFiniteSet(Sockets)
                         /\ MaxTurns \in Nat
                         /\ MaxTokens \in Nat \ {0}

VARIABLES
    last,       \* how many turns have been started
    msg,        \* msg[t]: the assistant message of turn t
    producer,   \* producer[t]: where the task of turn t is suspended
    cancelled,  \* the turns whose task has been cancelled
    channel,    \* status, active_turn_id and active_producer_task of the session
    socket      \* socket[s]: the frame connection s is handling

chatVars == <<last, msg, producer, cancelled, channel, socket>>

Turns  == 1..MaxTurns
NoTurn == 0

Message  == [status : {"none", "streaming", "completed", "interrupted"},
             content : 0..MaxTokens]
Producer == {"none", "created", "graph", "tokens", "done"}
Channel  == [status : {"idle", "streaming", "interrupted"},
             active : Turns \cup {NoTurn}, task : Turns \cup {NoTurn}]

(* What follows the wait: nothing, the new turn, or a new turn that looks    *)
(* again for a generation to interrupt.                                     *)
Frame == [next : {"read", "stop", "start", "redirect"},
          task : Turns \cup {NoTurn}, victim : Turns \cup {NoTurn}]

Reading == [next |-> "read", task |-> NoTurn, victim |-> NoTurn]

ChatTypeOK == /\ last \in 0..MaxTurns
              /\ msg \in [Turns -> Message]
              /\ producer \in [Turns -> Producer]
              /\ cancelled \in SUBSET Turns
              /\ channel \in Channel
              /\ socket \in [Sockets -> Frame]

ChatInit == /\ last = 0
            /\ msg = [t \in Turns |-> [status |-> "none", content |-> 0]]
            /\ producer = [t \in Turns |-> "none"]
            /\ cancelled = {}
            /\ channel = [status |-> "idle", active |-> NoTurn, task |-> NoTurn]
            /\ socket = [s \in Sockets |-> Reading]

(***************************************************************************)
(* Turns and interruption, as the steps of a connection's frame.           *)
(***************************************************************************)
Awaiting == {s \in Sockets : socket[s].next # "read"}

\* Faulty variant: only a task that streams already is interrupted.
TaskStreams == channel.task # NoTurn /\ producer[channel.task] = "tokens"
TaskLive    == channel.task # NoTurn /\ producer[channel.task] # "done"

(* The history has room for this turn and for those connections wait for.    *)
Starting == {s \in Awaiting : socket[s].next # "stop"}
Room     == last + Cardinality(Starting) < MaxTurns

(* The last assistant message of a history that is still streaming.         *)
LastStreaming(history) ==
    LET streaming == {t \in Turns : history[t].status = "streaming"}
    IN  IF streaming = {} THEN NoTurn
        ELSE CHOOSE t \in streaming : \A u \in streaming : u <= t

(* A message its own task has not finalized is finalized by the interrupter. *)
\* Faulty variant: the task is trusted to have done it.
NeverLeft(t) == FALSE
LeftOpen(t)  == t # NoTurn /\ msg[t].status = "streaming"

Closed(t) == IF LeftOpen(t) THEN [msg EXCEPT ![t].status = "interrupted"] ELSE msg

ChannelClosed(t) ==
    IF LeftOpen(t)
    THEN [channel EXCEPT !.status = "interrupted", !.active = NoTurn]
    ELSE channel

(* start_user_turn from its first append on.                                *)
StartTurn(history) ==
    /\ last' = last + 1
    /\ msg' = [history EXCEPT ![last + 1] = [status |-> "streaming", content |-> 0]]
    /\ producer' = [producer EXCEPT ![last + 1] = "created"]
    /\ channel' = [status |-> "streaming", active |-> last + 1, task |-> last + 1]

(* The active task is cancelled and awaited.                                *)
AbortTask(s, next, history) ==
    /\ cancelled' = cancelled \cup {channel.task}
    /\ socket' = [socket EXCEPT ![s] =
                    [next |-> next, task |-> channel.task,
                     victim |-> LastStreaming(history)]]

UserMessage(s) ==
    /\ socket[s] = Reading
    /\ Room
    /\ IF TaskLive
       THEN /\ AbortTask(s, "start", msg)
            /\ UNCHANGED <<last, msg, producer, channel>>
       ELSE StartTurn(msg) /\ UNCHANGED <<cancelled, socket>>

(* A frame that interrupts, alone or with a new question.                   *)
Interrupt(s, next) ==
    /\ socket[s] = Reading
    /\ next = "redirect" => Room
    /\ IF TaskLive
       THEN /\ AbortTask(s, next, msg)
            /\ UNCHANGED <<last, msg, producer, channel>>
       ELSE LET victim == LastStreaming(msg) IN
            /\ IF next = "redirect"
               THEN StartTurn(Closed(victim))
               ELSE /\ msg' = Closed(victim)
                    /\ channel' = ChannelClosed(victim)
                    /\ UNCHANGED <<last, producer>>
            /\ UNCHANGED <<cancelled, socket>>

\* Faulty variant: the cancelled task is not awaited.
NotAwaited(s) == TRUE
TaskEnded(s)  == producer[socket[s].task] = "done"

(* A start goes on without another look at the active task; a redirection    *)
(* calls start_user_turn, which looks and may have to wait once more.       *)
Resume(s) ==
    LET victim == socket[s].victim IN
    /\ s \in Awaiting
    /\ TaskEnded(s)
    /\ IF socket[s].next = "redirect" /\ TaskLive
       THEN /\ AbortTask(s, "start", Closed(victim))
            /\ msg' = Closed(victim)
            /\ channel' = ChannelClosed(victim)
            /\ UNCHANGED <<last, producer>>
       ELSE /\ socket' = [socket EXCEPT ![s] = Reading]
            /\ UNCHANGED cancelled
            /\ IF socket[s].next = "stop"
               THEN /\ msg' = Closed(victim)
                    /\ channel' = ChannelClosed(victim)
                    /\ UNCHANGED <<last, producer>>
               ELSE StartTurn(Closed(victim))

(***************************************************************************)
(* The producer of a turn.                                                 *)
(***************************************************************************)
Goto(t, step) == producer' = [producer EXCEPT ![t] = step]

(* A task cancelled before its first step never enters its try block.       *)
Begin(t) == /\ producer[t] = "created"
            /\ Goto(t, IF t \in cancelled THEN "done" ELSE "graph")
            /\ UNCHANGED <<last, msg, cancelled, channel, socket>>

(* The thread is through with the graph: the loop has the task's answer.     *)
GraphReturns(t) == /\ producer[t] = "graph"
                   /\ t \notin cancelled
                   /\ Goto(t, "tokens")
                   /\ UNCHANGED <<last, msg, cancelled, channel, socket>>

Emit(t) == /\ producer[t] = "tokens"
           /\ t \notin cancelled
           /\ msg[t].content < MaxTokens
           /\ msg' = [msg EXCEPT ![t].content = @ + 1]
           /\ UNCHANGED <<last, producer, cancelled, channel, socket>>

(* The end of a turn writes the session's fields whichever turn they name.   *)
Idle == channel' = [channel EXCEPT !.status = "idle", !.active = NoTurn]

Complete(t) == /\ producer[t] = "tokens"
               /\ t \notin cancelled
               /\ msg' = [msg EXCEPT ![t].status = "completed"]
               /\ Idle
               /\ Goto(t, "done")
               /\ UNCHANGED <<last, cancelled, socket>>

\* Faulty variant: the exception is logged and dropped.
FailSilently(t) == /\ producer[t] \in {"graph", "tokens"}
                   /\ t \notin cancelled
                   /\ Goto(t, "done")
                   /\ UNCHANGED <<last, msg, cancelled, channel, socket>>

\* Faulty variant: the session takes a status of its own.
FailWithStatus(t) == /\ producer[t] \in {"graph", "tokens"}
                     /\ t \notin cancelled
                     /\ msg' = [msg EXCEPT ![t].status = "completed"]
                     /\ channel' = [channel EXCEPT !.status = "error"]
                     /\ Goto(t, "done")
                     /\ UNCHANGED <<last, cancelled, socket>>

(* Any exception of the graph or of the stream ends as a completed message,  *)
(* with a text of apology if it has none.                                   *)
Fail(t) == /\ producer[t] \in {"graph", "tokens"}
           /\ t \notin cancelled
           /\ msg' = [msg EXCEPT ![t] = [status |-> "completed",
                         content |-> IF @.content = 0 THEN 1 ELSE @.content]]
           /\ Idle
           /\ Goto(t, "done")
           /\ UNCHANGED <<last, cancelled, socket>>

(* CancelledError reaches the producer at its suspension point.             *)
Abort(t) ==
    /\ producer[t] \in {"graph", "tokens"}
    /\ t \in cancelled
    /\ IF msg[t].status = "interrupted"
       THEN UNCHANGED <<msg, channel>>
       ELSE /\ msg' = [msg EXCEPT ![t].status = "interrupted"]
            /\ channel' = [channel EXCEPT !.status = "interrupted",
                                          !.active = NoTurn]
    /\ Goto(t, "done")
    /\ UNCHANGED <<last, cancelled, socket>>

ProducerStep(t) == \/ Begin(t) \/ GraphReturns(t) \/ Emit(t)
                   \/ Complete(t) \/ Fail(t) \/ Abort(t)

SocketStep(s) == \/ UserMessage(s)
                 \/ \E next \in {"stop", "redirect"} : Interrupt(s, next)
                 \/ Resume(s)

ChatNext == (\E s \in Sockets : SocketStep(s)) \/ (\E t \in Turns : ProducerStep(t))

ChatSpec == ChatInit /\ [][ChatNext]_chatVars

(* The event loop runs every task that can go on; clients need not send.     *)
ChatRuns == /\ \A t \in Turns : WF_chatVars(ProducerStep(t))
            /\ \A s \in Sockets : WF_chatVars(Resume(s))

(***************************************************************************)
(* Properties.                                                             *)
(***************************************************************************)
Live(t) == producer[t] \in {"created", "graph", "tokens"}

(* A session shown as streaming is: its active turn is open, and a producer  *)
(* or an interrupter is left to end it, however many connections start and  *)
(* interrupt turns across each other.                                       *)
NoStuckStreaming ==
    channel.status = "streaming" =>
        /\ channel.active # NoTurn
        /\ msg[channel.active].status = "streaming"
        /\ \/ Live(channel.active)
           \/ \E s \in Awaiting : socket[s].victim = channel.active

(* Every answer that was started is completed or marked interrupted, also    *)
(* one whose task was cancelled before it began.                            *)
TurnsSettle == \A t \in Turns : msg[t].status = "streaming" ~>
                                    msg[t].status # "streaming"

(* A generation that is still running is aborted before a new turn starts    *)
(* (start_user_turn).  Two connections that interrupt the same one each     *)
(* start a turn, and the first of these is not interrupted.                 *)
OneLiveProducer == \A t, u \in Turns : Live(t) /\ Live(u) => t = u
=============================================================================

---------------------------- MODULE WsChatProofs ----------------------------
(***************************************************************************)
(* A session shown as streaming is, for any number of connections and of   *)
(* turns, although connections that cross may leave two producers at work. *)
(*                                                                         *)
(* The argument follows the last turn: the session's task is always that of*)
(* the last turn, its message is open as long as the task runs, and a task *)
(* that has been cancelled has a connection waiting to close its message.  *)
(* Connections that do not cross keep to that one task.                    *)
(***************************************************************************)
EXTENDS MCWsChat, FiniteSetTheorems, TLAPS

(* Turns are numbered as they start, and the session's task is the last's.   *)
LastIsActive ==
    /\ channel.task = last
    /\ channel.status = "streaming" => channel.active = last
    /\ \A t \in Turns : t > last => /\ msg[t].status = "none"
                                    /\ producer[t] = "none"
                                    /\ t \notin cancelled
    /\ \A t \in Turns : t <= last => producer[t] # "none"

(* A connection waits for the task whose message it is to close.            *)
FramesFollow == \A s \in Awaiting : /\ socket[s].task \in 1..last
                                    /\ socket[s].victim = socket[s].task

(* The last turn is open while it runs, and not forgotten once cancelled.    *)
LastStaysOpen ==
    last # NoTurn /\ Live(last) =>
        /\ msg[last].status = "streaming"
        /\ last \in cancelled => \E s \in Awaiting : socket[s].victim = last

(* Every turn a connection is about to start has a place in the history.     *)
RoomKept == last + Cardinality(Starting) <= MaxTurns

TurnsInOrder == /\ LastIsActive
                /\ FramesFollow
                /\ LastStaysOpen
                /\ NoStuckStreaming

ChatInv == ChatTypeOK /\ TurnsInOrder /\ RoomKept

(* A history as msg is: nothing in it after the last turn.                   *)
HistoryOK(h) == /\ h \in [Turns -> Message]
                /\ \A t \in Turns : t > last => h[t].status = "none"

(* The last streaming message is that of the last turn if it streams.        *)
LEMMA LastStreamingIsLast ==
  ASSUME ChatTypeOK, NEW h, HistoryOK(h), last # NoTurn,
         h[last].status = "streaming"
  PROVE  LastStreaming(h) = last
<1> DEFINE streaming == {t \in Turns : h[t].status = "streaming"}
<1>1. last \in streaming /\ \A u \in streaming : u <= last
  BY ChatAssumption DEF ChatTypeOK, HistoryOK, Turns, NoTurn
<1>2. \A t \in streaming : (\A u \in streaming : u <= t) => t = last
  BY <1>1, ChatAssumption DEF ChatTypeOK, Turns
<1> HIDE DEF streaming
<1>3. (CHOOSE t \in streaming : \A u \in streaming : u <= t) = last
  BY <1>1, <1>2
<1> QED BY <1>1, <1>3 DEF LastStreaming, streaming

(* Closing a message touches that message only, and only if it is open.      *)
LEMMA ClosedHistory ==
  ASSUME ChatTypeOK, LastIsActive, NEW t
  PROVE  /\ HistoryOK(Closed(t))
         /\ \A u \in Turns : u # t => Closed(t)[u] = msg[u]
         /\ ChannelClosed(t) \in Channel
<1>1. Closed(t) \in [Turns -> Message]
  BY DEF ChatTypeOK, Closed, Message
<1>2. \A u \in Turns : u # t => Closed(t)[u] = msg[u]
  BY DEF ChatTypeOK, Closed
<1>3. \A u \in Turns : u > last => Closed(t)[u].status = "none"
  BY DEF ChatTypeOK, LastIsActive, Closed, LeftOpen
<1>4. ChannelClosed(t) \in Channel
  BY DEF ChatTypeOK, ChannelClosed, Channel
<1> QED BY <1>1, <1>2, <1>3, <1>4 DEF HistoryOK

(* A turn starts; connections keep waiting for what they waited for, or stop.*)
LEMMA StartKeeps ==
  ASSUME ChatTypeOK, TurnsInOrder, NEW h, HistoryOK(h), last < MaxTurns,
         StartTurn(h), UNCHANGED cancelled, socket' \in [Sockets -> Frame],
         \A s \in Awaiting' : s \in Awaiting /\ socket'[s] = socket[s]
  PROVE  ChatTypeOK' /\ TurnsInOrder'
<1> USE ChatAssumption DEF TurnsInOrder, NoTurn
<1>1. last + 1 \in Turns /\ last' = last + 1
  BY DEF ChatTypeOK, StartTurn, Turns
<1>2. msg' \in [Turns -> Message] /\ msg'[last + 1].status = "streaming"
  BY <1>1 DEF StartTurn, HistoryOK, Message
<1>3. producer' \in [Turns -> Producer] /\ producer'[last + 1] = "created"
  BY <1>1 DEF ChatTypeOK, StartTurn, Producer
<1>4. channel' \in Channel
  BY <1>1 DEF StartTurn, Channel
<1>5. ChatTypeOK'
  BY <1>1, <1>2, <1>3, <1>4 DEF ChatTypeOK, Turns
<1>6. LastIsActive'
  BY <1>1 DEF ChatTypeOK, LastIsActive, StartTurn, HistoryOK, Turns
<1>7. FramesFollow'
  BY <1>1 DEF ChatTypeOK, FramesFollow
<1>8. last + 1 \notin cancelled
  BY <1>1 DEF ChatTypeOK, LastIsActive
<1>9. LastStaysOpen'
  BY <1>1, <1>2, <1>8 DEF LastStaysOpen
<1>10. NoStuckStreaming'
  BY <1>1, <1>2, <1>3 DEF ChatTypeOK, NoStuckStreaming, StartTurn, Live
<1> QED BY <1>5, <1>6, <1>7, <1>9, <1>10

(* The live task is cancelled by a connection that was not waiting for it.   *)
LEMMA AbortKeeps ==
  ASSUME ChatTypeOK, TurnsInOrder, TaskLive, NEW h, HistoryOK(h),
         h[last] = msg[last], NEW s \in Sockets,
         NEW next \in {"stop", "start", "redirect"}, AbortTask(s, next, h),
         s \in Awaiting => TaskEnded(s), msg' = h, UNCHANGED <<last, producer>>,
         \/ channel' = channel
         \/ channel' = [channel EXCEPT !.status = "interrupted", !.active = NoTurn]
  PROVE  ChatTypeOK' /\ TurnsInOrder'
<1> USE ChatAssumption DEF TurnsInOrder, NoTurn
<1>1. last \in Turns /\ channel.task = last
  BY DEF ChatTypeOK, LastIsActive, TaskLive, Turns
<1>2. Live(last)
  BY <1>1 DEF ChatTypeOK, LastIsActive, TaskLive, Live, Producer
<1>3. msg[last].status = "streaming"
  BY <1>1, <1>2 DEF LastStaysOpen, Turns
<1>4. LastStreaming(h) = last
  BY <1>1, <1>3, LastStreamingIsLast DEF Turns
<1>5. socket' = [socket EXCEPT ![s] =
                    [next |-> next, task |-> last, victim |-> last]]
  BY <1>1, <1>4 DEF AbortTask
<1>6. [next |-> next, task |-> last, victim |-> last] \in Frame
  BY <1>1 DEF Frame
<1>7. socket' \in [Sockets -> Frame]
  BY <1>5, <1>6 DEF ChatTypeOK
<1>8. channel' \in Channel /\ channel'.task = last
  BY <1>1 DEF ChatTypeOK, Channel
<1>9. cancelled' = cancelled \cup {last}
  BY <1>1 DEF AbortTask
<1>10. ChatTypeOK'
  BY <1>1, <1>7, <1>8, <1>9 DEF ChatTypeOK, HistoryOK
<1>11. LastIsActive'
  <2>1. \A t \in Turns : t > last => /\ msg'[t].status = "none"
                                     /\ producer'[t] = "none"
                                     /\ t \notin cancelled'
    BY <1>1, <1>9 DEF LastIsActive, HistoryOK, Turns
  <2>2. channel'.status = "streaming" => channel'.active = last
    BY DEF LastIsActive, ChatTypeOK, Channel
  <2> QED BY <1>8, <2>1, <2>2 DEF LastIsActive
<1>12. s \in Awaiting' /\ socket'[s].victim = last /\ socket'[s].task = last
  BY <1>5 DEF Awaiting, ChatTypeOK
<1>13. \A w \in Awaiting' : w # s => w \in Awaiting /\ socket'[w] = socket[w]
  BY <1>5 DEF Awaiting, ChatTypeOK
<1>14. FramesFollow'
  BY <1>1, <1>12, <1>13 DEF FramesFollow, Turns
<1>15. LastStaysOpen'
  BY <1>3, <1>12 DEF LastStaysOpen
<1>16. NoStuckStreaming'
  BY <1>1, <1>2, <1>3, <1>11 DEF NoStuckStreaming, LastIsActive, Live, Turns
<1> QED BY <1>10, <1>11, <1>14, <1>15, <1>16

(* A message is closed and no connection that is to close another one stops. *)
LEMMA CloseKeeps ==
  ASSUME ChatTypeOK, TurnsInOrder, NEW v,
         v = last /\ last # NoTurn => ~Live(last),
         msg' = Closed(v), channel' = ChannelClosed(v),
         UNCHANGED <<last, producer, cancelled>>, socket' \in [Sockets -> Frame],
         \A s \in Awaiting' : s \in Awaiting /\ socket'[s] = socket[s],
         \A s \in Awaiting : s \in Awaiting' \/ socket[s].victim = v
  PROVE  ChatTypeOK' /\ TurnsInOrder'
<1> USE ChatAssumption DEF TurnsInOrder, NoTurn
<1>1. /\ HistoryOK(Closed(v))
      /\ \A u \in Turns : u # v => Closed(v)[u] = msg[u]
      /\ ChannelClosed(v) \in Channel
  BY ClosedHistory
<1>2. ChatTypeOK'
  BY <1>1 DEF ChatTypeOK, HistoryOK
<1>3. channel'.task = channel.task /\ (channel'.status = "streaming" =>
         ~LeftOpen(v) /\ channel' = channel /\ msg' = msg)
  BY DEF ChannelClosed, Closed, ChatTypeOK, Channel
<1>4. LastIsActive'
  BY <1>1, <1>3 DEF LastIsActive, HistoryOK
<1>5. FramesFollow'
  BY DEF FramesFollow
<1>6. LastStaysOpen'
  BY <1>1 DEF LastStaysOpen, Live, ChatTypeOK, Turns
<1>7. ASSUME channel'.status = "streaming"
      PROVE  /\ channel.active = last /\ last # NoTurn
             /\ msg'[last].status = "streaming"
             /\ Live(last)' \/ \E s \in Awaiting' : socket'[s].victim = last
  <2>1. ~LeftOpen(v) /\ channel' = channel /\ msg' = msg
    BY <1>3, <1>7
  <2>2. /\ channel.active = last /\ last # NoTurn
        /\ msg[last].status = "streaming"
        /\ Live(last) \/ \E s \in Awaiting : socket[s].victim = last
    BY <1>7, <2>1 DEF LastIsActive, NoStuckStreaming
  <2>3. v # last
    BY <2>1, <2>2 DEF LeftOpen
  <2> QED BY <2>1, <2>2, <2>3 DEF Live
<1>8. NoStuckStreaming'
  BY <1>3, <1>7 DEF NoStuckStreaming
<1> QED BY <1>2, <1>4, <1>5, <1>6, <1>8

(* A connection about to start a turn has room for it.                      *)
LEMMA RoomToStart ==
  ASSUME ChatTypeOK, RoomKept
  PROVE  /\ IsFiniteSet(Starting) /\ Cardinality(Starting) \in Nat
         /\ Starting # {} => last < MaxTurns
<1>1. IsFiniteSet(Starting)
  BY FS_Subset, ChatAssumption DEF Starting, Awaiting
<1>2. Cardinality(Starting) \in Nat /\ (Cardinality(Starting) = 0 <=> Starting = {})
  BY <1>1, FS_CardinalityType, FS_EmptySet
<1> QED BY <1>1, <1>2, ChatAssumption DEF ChatTypeOK, RoomKept

(* A step of the producers keeps the order of the turns.                    *)
LEMMA ProducerKeeps ==
  ASSUME ChatTypeOK, TurnsInOrder, NEW t \in Turns, ProducerStep(t)
  PROVE  ChatTypeOK' /\ TurnsInOrder'
<1> USE ChatAssumption DEF TurnsInOrder, NoTurn
<1>0. UNCHANGED <<last, cancelled, socket>> /\ t <= last
  BY DEF ProducerStep, Begin, GraphReturns, Emit, Complete, Fail, Abort,
         LastIsActive, ChatTypeOK, Turns
<1>1. CASE Begin(t)
  <2>1. ChatTypeOK'
    BY <1>1 DEF Begin, Goto, ChatTypeOK, Producer
  <2>2. producer'[t] \in {"graph", "done"}
    BY <1>1 DEF Begin, Goto, ChatTypeOK
  <2>3. LastIsActive' /\ FramesFollow' /\ LastStaysOpen'
    BY <1>0, <1>1, <2>2
    DEF Begin, Goto, ChatTypeOK, LastIsActive, FramesFollow, LastStaysOpen,
        Awaiting, Live, Turns
  <2>4. NoStuckStreaming'
    BY <1>0, <1>1
    DEF Begin, Goto, ChatTypeOK, LastIsActive, LastStaysOpen,
        NoStuckStreaming, Awaiting, Live, Turns
  <2> QED BY <2>1, <2>3, <2>4
<1>2. CASE GraphReturns(t)
  BY <1>0, <1>2
  DEF GraphReturns, Goto, ChatTypeOK, Producer, LastIsActive, FramesFollow,
      LastStaysOpen, NoStuckStreaming, Awaiting, Live, Turns
<1>3. CASE Emit(t)
  <2>1. msg' \in [Turns -> Message] /\ \A u \in Turns : msg'[u].status = msg[u].status
    BY <1>3 DEF Emit, ChatTypeOK, Message
  <2>2. ChatTypeOK'
    BY <1>3, <2>1 DEF Emit, ChatTypeOK
  <2>3. TurnsInOrder'
    BY <1>0, <1>3, <2>1
    DEF Emit, ChatTypeOK, Channel, LastIsActive, FramesFollow, LastStaysOpen,
        NoStuckStreaming, Awaiting, Live, Turns
  <2> QED BY <2>2, <2>3
<1>4. CASE Complete(t) \/ Fail(t) \/ Abort(t)
  <2>1. msg' \in [Turns -> Message] /\ \A u \in Turns : u # t => msg'[u] = msg[u]
    BY <1>4 DEF Complete, Fail, Abort, ChatTypeOK, Message
  <2>2. producer' = [producer EXCEPT ![t] = "done"]
    BY <1>4 DEF Complete, Fail, Abort, Goto
  <2>3. /\ channel' \in Channel /\ channel'.task = channel.task
        /\ channel'.status = "streaming" =>
              channel' = channel /\ msg' = msg /\ msg[t].status = "interrupted"
    BY <1>4 DEF Complete, Fail, Abort, Idle, ChatTypeOK, Channel
  <2>4. ChatTypeOK'
    BY <1>0, <2>1, <2>2, <2>3 DEF ChatTypeOK, Producer
  <2>5. LastIsActive' /\ FramesFollow' /\ LastStaysOpen'
    BY <1>0, <2>1, <2>2, <2>3
    DEF ChatTypeOK, LastIsActive, FramesFollow, LastStaysOpen, Awaiting, Live, Turns
  <2>6. NoStuckStreaming'
    BY <1>0, <2>2, <2>3
    DEF ChatTypeOK, LastIsActive, NoStuckStreaming, Awaiting, Live, Turns
  <2> QED BY <2>4, <2>5, <2>6
<1> QED BY <1>1, <1>2, <1>3, <1>4 DEF ProducerStep

(* A message ends up closed by the frame that looked for it.                 *)
LEMMA SocketKeeps ==
  ASSUME ChatTypeOK, TurnsInOrder, RoomKept, NEW s \in Sockets, SocketStep(s)
  PROVE  ChatTypeOK' /\ TurnsInOrder'
<1> USE ChatAssumption DEF TurnsInOrder, NoTurn
<1>1. HistoryOK(msg)
  BY DEF ChatTypeOK, LastIsActive, HistoryOK
<1>2. \A v : HistoryOK(Closed(v)) /\ \A u \in Turns : u # v => Closed(v)[u] = msg[u]
  BY ClosedHistory
<1>3. Room => last < MaxTurns
  BY RoomToStart DEF Room, ChatTypeOK
<1>4. /\ Reading.next = "read" /\ Reading \in Frame
      /\ s \in Awaiting => socket[s] # Reading
  BY DEF Reading, Frame, Awaiting
<1>5. TaskLive => last \in Turns /\ Live(last)
  BY DEF ChatTypeOK, LastIsActive, TaskLive, Live, Producer, Turns
<1>6. CASE UserMessage(s)
  <2>1. CASE TaskLive
    <3>1. AbortTask(s, "start", msg) /\ UNCHANGED <<last, msg, producer, channel>>
      BY <1>6, <2>1 DEF UserMessage
    <3>2. s \notin Awaiting
      BY <1>4, <1>6 DEF UserMessage
    <3> QED BY <1>1, <2>1, <3>1, <3>2, AbortKeeps
  <2>2. CASE ~TaskLive
    <3>1. last < MaxTurns /\ StartTurn(msg) /\ UNCHANGED <<cancelled, socket>>
      BY <1>3, <1>6, <2>2 DEF UserMessage
    <3> QED BY <1>1, <3>1, StartKeeps DEF ChatTypeOK, Awaiting
  <2> QED BY <2>1, <2>2
<1>7. ASSUME NEW next \in {"stop", "redirect"}, Interrupt(s, next)
      PROVE  ChatTypeOK' /\ TurnsInOrder'
  <2> DEFINE victim == LastStreaming(msg)
  <2> HIDE DEF victim
  <2>1. CASE TaskLive
    <3>1. AbortTask(s, next, msg) /\ UNCHANGED <<last, msg, producer, channel>>
      BY <1>7, <2>1 DEF Interrupt
    <3>2. s \notin Awaiting
      BY <1>4, <1>7 DEF Interrupt
    <3> QED BY <1>1, <2>1, <3>1, <3>2, AbortKeeps
  <2>2. CASE ~TaskLive /\ next = "redirect"
    <3>1. /\ last < MaxTurns
          /\ StartTurn(Closed(victim)) /\ UNCHANGED <<cancelled, socket>>
      BY <1>3, <1>7, <2>2 DEF Interrupt, victim
    <3> QED BY <1>2, <3>1, StartKeeps DEF ChatTypeOK, Awaiting
  <2>3. CASE ~TaskLive /\ next = "stop"
    <3>1. /\ msg' = Closed(victim) /\ channel' = ChannelClosed(victim)
          /\ UNCHANGED <<last, producer, cancelled, socket>>
      BY <1>7, <2>3 DEF Interrupt, victim
    <3>2. last # NoTurn => ~Live(last)
      BY <2>3 DEF TaskLive, LastIsActive, Live
    <3> QED BY <3>1, <3>2, CloseKeeps DEF ChatTypeOK, Awaiting
  <2> QED BY <2>1, <2>2, <2>3
<1>8. CASE Resume(s)
  <2> DEFINE victim == socket[s].victim
  <2>1. /\ s \in Awaiting /\ TaskEnded(s) /\ victim \in 1..last
        /\ victim = last => ~Live(last)
    BY <1>8 DEF Resume, FramesFollow, TaskEnded, Live
  <2> HIDE DEF victim
  <2>2. CASE socket[s].next = "redirect" /\ TaskLive
    <3>1. /\ AbortTask(s, "start", Closed(victim)) /\ UNCHANGED <<last, producer>>
          /\ msg' = Closed(victim) /\ channel' = ChannelClosed(victim)
      BY <1>8, <2>2 DEF Resume, victim
    <3>2. Closed(victim)[last] = msg[last]
      BY <1>2, <1>5, <2>1, <2>2
    <3>3. \/ channel' = channel
          \/ channel' = [channel EXCEPT !.status = "interrupted", !.active = NoTurn]
      BY <3>1 DEF ChannelClosed
    <3> QED BY <1>2, <2>1, <2>2, <3>1, <3>2, <3>3, AbortKeeps
  <2>3. CASE ~(socket[s].next = "redirect" /\ TaskLive)
    <3>1. /\ socket' = [socket EXCEPT ![s] = Reading] /\ UNCHANGED cancelled
          /\ \/ /\ socket[s].next = "stop"
                /\ msg' = Closed(victim) /\ channel' = ChannelClosed(victim)
                /\ UNCHANGED <<last, producer>>
             \/ socket[s].next # "stop" /\ StartTurn(Closed(victim))
      BY <1>8, <2>3 DEF Resume, victim
    <3>2. /\ socket' \in [Sockets -> Frame]
          /\ \A w \in Awaiting' : w \in Awaiting /\ socket'[w] = socket[w]
          /\ \A w \in Awaiting : w \in Awaiting' \/ w = s
      BY <1>4, <3>1 DEF ChatTypeOK, Awaiting
    <3>3. CASE socket[s].next # "stop"
      <4>1. last < MaxTurns
        BY <2>1, <3>3, RoomToStart DEF Starting
      <4> QED BY <1>2, <3>1, <3>2, <3>3, <4>1, StartKeeps
    <3>4. CASE socket[s].next = "stop"
      <4>1. \A w \in Awaiting : w \in Awaiting' \/ socket[w].victim = victim
        BY <3>2 DEF victim
      <4> QED BY <2>1, <3>1, <3>2, <3>4, <4>1, CloseKeeps
    <3> QED BY <3>3, <3>4
  <2> QED BY <2>2, <2>3
<1> QED BY <1>6, <1>7, <1>8 DEF SocketStep

(* Every step keeps the room: a turn takes the place it was promised.        *)
LEMMA RoomStays ==
  ASSUME ChatTypeOK, RoomKept, [ChatNext]_chatVars
  PROVE  RoomKept'
<1> DEFINE N == Cardinality(Starting)
<1>1. IsFiniteSet(Starting) /\ N \in Nat
  BY RoomToStart
<1>2. ASSUME UNCHANGED <<last, socket>> PROVE RoomKept'
  BY <1>2 DEF RoomKept, Starting, Awaiting
<1>3. ASSUME NEW s \in Sockets, NEW next \in {"stop", "start", "redirect"}, NEW h,
             AbortTask(s, next, h), UNCHANGED last,
             s \in Starting \/ next = "stop" \/ Room
      PROVE  RoomKept'
  <2> DEFINE frame == [next |-> next, task |-> channel.task,
                       victim |-> LastStreaming(h)]
  <2>1. socket' = [socket EXCEPT ![s] = frame] /\ frame.next = next
    BY <1>3 DEF AbortTask
  <2> HIDE DEF frame
  <2>2. Starting' \in SUBSET (Starting \cup {s})
    BY <2>1 DEF ChatTypeOK, Starting, Awaiting
  <2>3. s \notin Starting /\ next = "stop" => Starting' \in SUBSET Starting
    BY <2>1 DEF ChatTypeOK, Starting, Awaiting
  <2>4. /\ IsFiniteSet(Starting \cup {s})
        /\ Cardinality(Starting \cup {s}) = IF s \in Starting THEN N ELSE N + 1
    BY <1>1, FS_AddElement
  <2>5. /\ Cardinality(Starting') \in Nat
        /\ Cardinality(Starting') <= Cardinality(Starting \cup {s})
    BY <2>2, <2>4, FS_Subset, FS_CardinalityType
  <2>6. s \notin Starting /\ next = "stop" => Cardinality(Starting') <= N
    BY <1>1, <2>3, FS_Subset
  <2> QED BY <1>1, <1>3, <2>4, <2>5, <2>6, ChatAssumption
          DEF RoomKept, Room, ChatTypeOK
<1>4. ASSUME Room, NEW h, StartTurn(h), UNCHANGED socket PROVE RoomKept'
  <2>1. Starting' = Starting /\ last' = last + 1
    BY <1>4 DEF StartTurn, Starting, Awaiting
  <2> QED BY <1>1, <1>4, <2>1, ChatAssumption DEF RoomKept, Room, ChatTypeOK
<1>5. ASSUME NEW s \in Sockets, socket' = [socket EXCEPT ![s] = Reading],
             \/ UNCHANGED last
             \/ s \in Starting /\ last' = last + 1
      PROVE  RoomKept'
  <2>1. Starting' = Starting \ {s}
    BY <1>5 DEF ChatTypeOK, Starting, Awaiting, Reading
  <2>2. Cardinality(Starting \ {s}) = IF s \in Starting THEN N - 1 ELSE N
    BY <1>1, FS_RemoveElement
  <2> QED BY <1>1, <1>5, <2>1, <2>2, ChatAssumption DEF RoomKept, ChatTypeOK
<1>6. ASSUME NEW t \in Turns, ProducerStep(t) PROVE UNCHANGED <<last, socket>>
  BY <1>6 DEF ProducerStep, Begin, GraphReturns, Emit, Complete, Fail, Abort
<1>7. ASSUME NEW s \in Sockets, UserMessage(s) PROVE RoomKept'
  BY <1>3, <1>4, <1>7 DEF UserMessage
<1>8. ASSUME NEW s \in Sockets, NEW next \in {"stop", "redirect"}, Interrupt(s, next)
      PROVE  RoomKept'
  BY <1>2, <1>3, <1>4, <1>8 DEF Interrupt
<1>9. ASSUME NEW s \in Sockets, Resume(s) PROVE RoomKept'
  <2>1. s \in Starting <=> socket[s].next # "stop"
    BY <1>9 DEF Resume, Starting
  <2>2. CASE socket[s].next = "redirect" /\ TaskLive
    BY <1>3, <1>9, <2>1, <2>2 DEF Resume
  <2>3. CASE ~(socket[s].next = "redirect" /\ TaskLive)
    BY <1>5, <1>9, <2>1, <2>3 DEF Resume, StartTurn
  <2> QED BY <2>2, <2>3
<1> QED BY <1>2, <1>6, <1>7, <1>8, <1>9 DEF ChatNext, SocketStep, chatVars

(* A session starts idle and empty.                                          *)
LEMMA ChatInvInit == ChatInit => ChatInv
<1> SUFFICES ASSUME ChatInit PROVE ChatInv
  OBVIOUS
<1> USE ChatAssumption DEF ChatInit, NoTurn, Reading
<1>1. ChatTypeOK
  BY DEF ChatTypeOK, Turns, Message, Producer, Channel, Frame
<1>2. Awaiting = {} /\ Starting = {}
  BY DEF Awaiting, Starting
<1>3. TurnsInOrder
  BY <1>2 DEF TurnsInOrder, LastIsActive, FramesFollow, LastStaysOpen,
              NoStuckStreaming, Turns
<1>4. RoomKept
  BY <1>2, FS_EmptySet DEF RoomKept
<1> QED BY <1>1, <1>3, <1>4 DEF ChatInv

(* The invariant of the chat survives every step.                            *)
LEMMA ChatInvStep == ChatInv /\ [ChatNext]_chatVars => ChatInv'
<1> SUFFICES ASSUME ChatInv, [ChatNext]_chatVars PROVE ChatInv'
  OBVIOUS
<1>1. ChatTypeOK /\ TurnsInOrder /\ RoomKept
  BY DEF ChatInv
<1>2. RoomKept'
  BY <1>1, RoomStays
<1>3. CASE UNCHANGED chatVars
  BY <1>1, <1>2, <1>3
  DEF ChatInv, chatVars, ChatTypeOK, TurnsInOrder, LastIsActive, FramesFollow,
      LastStaysOpen, NoStuckStreaming, Awaiting, Live
<1>4. CASE ChatNext
  BY <1>1, <1>2, <1>4, SocketKeeps, ProducerKeeps DEF ChatInv, ChatNext
<1> QED BY <1>3, <1>4

(* The turns of a session stay in order and its status never names an answer *)
(* that nobody is to finish, whatever its connections do to each other.     *)
THEOREM ChatInvariant == ChatSpec => []ChatInv
  BY ChatInvInit, ChatInvStep, PTL DEF ChatSpec

(* A session keeps its type: the turns it starts find room in the history.   *)
THEOREM ChatTypeCorrect == ChatSpec => []ChatTypeOK
<1>1. ChatInv => ChatTypeOK
  BY DEF ChatInv
<1> QED BY <1>1, ChatInvariant, PTL

(* A session shown as streaming is: somebody is left to end its open answer, *)
(* for any number of connections, turns and tokens.                         *)
THEOREM NeverStuckStreaming == ChatSpec => []NoStuckStreaming
<1>1. ChatInv => NoStuckStreaming
  BY DEF ChatInv, TurnsInOrder
<1> QED BY <1>1, ChatInvariant, PTL

(***************************************************************************)
(* Connections that do not cross.                                          *)
(***************************************************************************)

(* Only the last turn runs, and at most one connection waits, for that turn. *)
OneAtATime == /\ \A t \in Turns : Live(t) => t = last
              /\ \A s, w \in Awaiting : s = w
              /\ \A s \in Awaiting : socket[s].task = last

CalmInv == ChatInv /\ (~crossed => OneAtATime)

(* A turn that starts when none runs is the only one.                        *)
LEMMA StartAlone ==
  ASSUME ChatTypeOK, LastIsActive, NEW h, StartTurn(h),
         ~(last # NoTurn /\ Live(last)), \A t \in Turns : Live(t) => t = last,
         Awaiting' = {}
  PROVE  OneAtATime'
<1>1. last' = last + 1 /\ producer' = [producer EXCEPT ![last + 1] = "created"]
  BY DEF StartTurn
<1>2. ASSUME NEW t \in Turns, Live(t)' PROVE t = last'
  BY <1>1, <1>2, ChatAssumption DEF ChatTypeOK, Live, Turns, NoTurn
<1> QED BY <1>2 DEF OneAtATime

(* A connection that nobody crosses aborts the turn before it starts one.    *)
LEMMA SocketAlone ==
  ASSUME ChatInv, OneAtATime, NEW s \in Sockets, SocketStep(s),
         Awaiting \ {s} = {}
  PROVE  OneAtATime'
<1> USE DEF NoTurn
<1>1. ChatTypeOK /\ LastIsActive
  BY DEF ChatInv, TurnsInOrder
<1>2. socket[s] = Reading => Awaiting = {}
  BY DEF Awaiting, Reading
<1>3. ~TaskLive => ~(last # NoTurn /\ Live(last))
  BY <1>1 DEF LastIsActive, TaskLive, Live
<1>4. \A t \in Turns : Live(t) => t = last
  BY DEF OneAtATime
<1>abort. ASSUME NEW next \in {"stop", "start", "redirect"}, NEW h,
                 AbortTask(s, next, h), UNCHANGED <<last, producer>>
          PROVE  OneAtATime'
  <2>1. Awaiting' \subseteq {s} /\ socket'[s].task = last
    BY <1>1, <1>abort DEF AbortTask, Awaiting, ChatTypeOK, LastIsActive
  <2>2. \A t \in Turns : Live(t)' => t = last'
    BY <1>4, <1>abort DEF Live
  <2> QED BY <1>abort, <2>1, <2>2 DEF OneAtATime
<1>start. ASSUME NEW h, StartTurn(h), ~(last # NoTurn /\ Live(last)), Awaiting' = {}
          PROVE  OneAtATime'
  BY <1>1, <1>4, <1>start, StartAlone
<1>rest. ASSUME UNCHANGED <<last, producer>>, Awaiting' = {} PROVE OneAtATime'
  BY <1>4, <1>rest DEF OneAtATime, Live
<1>5. CASE UserMessage(s)
  <2>1. CASE TaskLive
    BY <1>5, <1>abort, <2>1 DEF UserMessage
  <2>2. CASE ~TaskLive
    BY <1>2, <1>3, <1>5, <1>start, <2>2 DEF UserMessage, Awaiting
  <2> QED BY <2>1, <2>2
<1>6. ASSUME NEW next \in {"stop", "redirect"}, Interrupt(s, next) PROVE OneAtATime'
  <2>1. CASE TaskLive
    BY <1>6, <1>abort, <2>1 DEF Interrupt
  <2>2. CASE ~TaskLive
    <3>1. Awaiting' = {} /\ ~(last # NoTurn /\ Live(last))
      BY <1>2, <1>3, <1>6, <2>2 DEF Interrupt, Awaiting
    <3>2. \/ StartTurn(Closed(LastStreaming(msg)))
          \/ UNCHANGED <<last, producer>>
      BY <1>6, <2>2 DEF Interrupt
    <3> QED BY <1>rest, <1>start, <3>1, <3>2
  <2> QED BY <2>1, <2>2
<1>7. CASE Resume(s)
  <2>1. socket[s].task = last /\ producer[last] = "done"
    BY <1>7 DEF Resume, TaskEnded, OneAtATime
  <2>2. ~TaskLive /\ ~(last # NoTurn /\ Live(last))
    BY <1>1, <2>1 DEF TaskLive, LastIsActive, Live
  <2>3. socket' = [socket EXCEPT ![s] = Reading]
    BY <1>7, <2>2 DEF Resume
  <2>4. Awaiting' = {}
    BY <1>1, <2>3 DEF Awaiting, Reading, ChatTypeOK
  <2>5. \/ StartTurn(Closed(socket[s].victim))
        \/ UNCHANGED <<last, producer>>
    BY <1>7, <2>2 DEF Resume
  <2> QED BY <1>rest, <1>start, <2>2, <2>4, <2>5
<1> QED BY <1>5, <1>6, <1>7 DEF SocketStep

(* Producers start nothing.                                                  *)
LEMMA ProducerAlone ==
  ASSUME ChatInv, OneAtATime, NEW t \in Turns, ProducerStep(t)
  PROVE  OneAtATime'
<1>1. UNCHANGED <<last, socket>> /\ Awaiting' = Awaiting
  BY DEF ProducerStep, Begin, GraphReturns, Emit, Complete, Fail, Abort, Awaiting
<1>2. ASSUME NEW u \in Turns, Live(u)' PROVE Live(u)
  <2>1. producer[t] \in {"created", "graph", "tokens"}
    BY DEF ProducerStep, Begin, GraphReturns, Emit, Complete, Fail, Abort
  <2>2. u # t => producer'[u] = producer[u]
    BY DEF ProducerStep, Begin, GraphReturns, Emit, Complete, Fail, Abort, Goto,
           ChatInv, ChatTypeOK
  <2> QED BY <1>2, <2>1, <2>2 DEF Live
<1> QED BY <1>1, <1>2 DEF OneAtATime

(* An interrupted message has no task that still writes it.                  *)
LEMMA InterruptedIsLeft ==
  ASSUME ChatInv, OneAtATime, ChatNext, NEW t \in Turns,
         msg[t].status = "interrupted"
  PROVE  msg'[t] = msg[t]
<1>1. ChatTypeOK /\ LastIsActive /\ t <= last
  BY DEF ChatInv, TurnsInOrder, LastIsActive, ChatTypeOK, Turns
<1>2. ~Live(t)
  BY <1>1 DEF ChatInv, TurnsInOrder, LastStaysOpen, OneAtATime, Turns, NoTurn
<1>3. \A v : Closed(v)[t] = msg[t]
  BY <1>1 DEF Closed, LeftOpen, ChatTypeOK
<1>4. ASSUME NEW h, h[t] = msg[t], StartTurn(h), h \in [Turns -> Message]
      PROVE  msg'[t] = msg[t]
  BY <1>1, <1>4 DEF StartTurn, ChatTypeOK, Turns
<1>5. ASSUME NEW s \in Sockets, SocketStep(s) PROVE msg'[t] = msg[t]
  <2>1. \A v : Closed(v) \in [Turns -> Message]
    BY <1>1, ClosedHistory DEF HistoryOK
  <2>2. msg \in [Turns -> Message]
    BY <1>1 DEF ChatTypeOK
  <2>3. \/ UNCHANGED msg
        \/ \E v : msg' = Closed(v)
        \/ StartTurn(msg)
        \/ \E v : StartTurn(Closed(v))
    BY <1>5 DEF SocketStep, UserMessage, Interrupt, Resume
  <2> QED BY <1>3, <1>4, <2>1, <2>2, <2>3
<1>6. ASSUME NEW u \in Turns, ProducerStep(u) PROVE msg'[t] = msg[t]
  <2>1. CASE u = t
    BY <1>2, <1>6, <2>1
    DEF ProducerStep, Begin, GraphReturns, Emit, Complete, Fail, Abort, Live
  <2>2. CASE u # t
    BY <1>1, <1>6, <2>2
    DEF ProducerStep, Begin, GraphReturns, Emit, Complete, Fail, Abort, ChatTypeOK
  <2> QED BY <2>1, <2>2
<1> QED BY <1>5, <1>6 DEF ChatNext

(* The order of the turns, and one at a time until two connections cross.    *)
LEMMA CalmInvStep ==
  ASSUME CalmInv, [MCNext]_<<chatVars, crossed>>
  PROVE  CalmInv'
<1>1. [ChatNext]_chatVars
  BY DEF MCNext, ChatNext
<1>2. ChatInv'
  BY <1>1, ChatInvStep DEF CalmInv
<1>3. ASSUME ~crossed' PROVE OneAtATime'
  <2>1. CASE UNCHANGED <<chatVars, crossed>>
    BY <1>3, <2>1 DEF CalmInv, OneAtATime, chatVars, Live, Awaiting
  <2>2. ASSUME NEW s \in Sockets, SocketStep(s),
               crossed' = (crossed \/ Awaiting \ {s} # {})
        PROVE  OneAtATime'
    BY <1>3, <2>2, SocketAlone DEF CalmInv
  <2>3. ASSUME NEW t \in Turns, ProducerStep(t), UNCHANGED crossed
        PROVE  OneAtATime'
    BY <1>3, <2>3, ProducerAlone DEF CalmInv
  <2> QED BY <2>1, <2>2, <2>3 DEF MCNext
<1> QED BY <1>2, <1>3 DEF CalmInv

(* Of every behaviour with the record of the crossings.                     *)
LEMMA CalmCorrect == MCSpec => []CalmInv
<1>1. MCInit => CalmInv
  BY ChatInvInit
  DEF MCInit, CalmInv, ChatInit, OneAtATime, Live, Awaiting, Reading
<1> QED BY <1>1, CalmInvStep, PTL DEF MCSpec

(* Until two connections cross, at most one generation runs at a time, for   *)
(* any number of connections, turns and tokens (start_user_turn).           *)
THEOREM OneGenerationUnlessCrossed == MCSpec => []OneLiveUnlessCrossed
<1>1. CalmInv => OneLiveUnlessCrossed
  BY DEF CalmInv, OneAtATime, OneLiveUnlessCrossed, OneLiveProducer
<1> QED BY <1>1, CalmCorrect, PTL

(* An answer marked interrupted is never written again, unless two           *)
(* connections have crossed.                                                *)
THEOREM InterruptedAnswersStay == MCSpec => InterruptedStays
<1>1. ASSUME CalmInv, [MCNext]_<<chatVars, crossed>>, ~crossed',
             NEW t \in Turns, msg[t].status = "interrupted"
      PROVE  msg'[t] = msg[t]
  <2>1. ~crossed
    BY <1>1 DEF MCNext
  <2>2. CASE UNCHANGED <<chatVars, crossed>>
    BY <2>2 DEF chatVars
  <2>3. CASE MCNext
    <3>1. ChatNext
      BY <2>3 DEF MCNext, ChatNext
    <3> QED BY <1>1, <2>1, <3>1, InterruptedIsLeft DEF CalmInv
  <2> QED BY <1>1, <2>2, <2>3
<1>2. CalmInv /\ [MCNext]_<<chatVars, crossed>> =>
        [~crossed' => \A t \in Turns : msg[t].status = "interrupted" =>
                                            msg'[t] = msg[t]]_<<chatVars, crossed>>
  BY <1>1
<1> QED BY <1>2, CalmCorrect, PTL DEF MCSpec, InterruptedStays
=============================================================================

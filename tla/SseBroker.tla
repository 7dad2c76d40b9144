------------------------------ MODULE SseBroker ------------------------------
(***************************************************************************)
(* The notifications of new RFP tickets: the broker with its replay buffer *)
(* and subscriber queues (sse.py), the requests that publish (routes/rfp.py*)
(* with persistence.py) and the dashboard that consumes them               *)
(* (useRfpSseNotifications.ts).  The broker runs on one event loop: a step *)
(* is the code from one yield of a stream to the next.                     *)
(***************************************************************************)
EXTENDS FiniteSets, Naturals, SequencesExt

CONSTANTS
    Ticket,      \* the tickets that will ever be uploaded
    Client,      \* dashboards
    NoTicket,    \* no Last-Event-ID
    MaxHistory,  \* max_history of the broker
    MaxQueue,    \* maxsize of a subscriber's queue
    SyncLimit,   \* rows a synchronisation reads
    ListLimit    \* rows the dashboard's list returns: no limit is sent with it

ASSUME SseAssumption ==
    /\ IsFiniteSet(Ticket)
    /\ NoTicket \notin Ticket
    /\ MaxHistory \in Nat /\ MaxQueue \in Nat /\ SyncLimit \in Nat /\ ListLimit \in Nat
    /\ ListLimit <= SyncLimit /\ ListLimit < MaxHistory  \* 50, 100 and 500

VARIABLES
    created,   \* the ticket rows, in the order of created_at
    upload,    \* upload[t]: how far the request that creates t is
    history,   \* the keys of _history, in its order
    stream,    \* stream[c]: the subscription of client c, and its connection
    seen,      \* seen[c]: the tickets the dashboard of c shows
    trust      \* trust[c], for the properties only: "lost" if a full queue dropped an
               \* event of c, or list and synchronisation both failed it; "listed"
               \* from a list that succeeded to the end of the replay; else "kept"

sseVars == <<created, upload, history, stream, seen, trust>>

Subscribed == {"open", "replay", "live"}
Off(last) == [at |-> "off", queue |-> <<>>, replay |-> <<>>, last |-> last]

SseTypeOK ==
    /\ created \in Seq(Ticket) /\ history \in Seq(Ticket)
    /\ upload \in [Ticket -> {"none", "committed", "published", "finished", "lost"}]
    /\ stream \in [Client -> [at : {"off", "fetched"} \cup Subscribed,
                              queue : Seq(Ticket), replay : Seq(Ticket),
                              last : Ticket \cup {NoTicket}]]
    /\ seen \in [Client -> SUBSET Ticket]
    /\ trust \in [Client -> {"listed", "kept", "lost"}]
    /\ \A c \in Client : Len(stream[c].queue) <= MaxQueue

SseInit == /\ created = <<>>
           /\ upload = [t \in Ticket |-> "none"]
           /\ history = <<>>
           /\ stream = [c \in Client |-> Off(NoTicket)]
           /\ seen = [c \in Client |-> {}]
           /\ trust = [c \in Client |-> "kept"]

(***************************************************************************)
(* Publishing.                                                             *)
(***************************************************************************)

(* The newest n rows, oldest first.                                          *)
Newest(n) == SubSeq(created, IF Len(created) > n THEN Len(created) - n + 1 ELSE 1,
                    Len(created))

(* Assigning to a key the dictionary has keeps its place.                    *)
Assign(h, t)  == IF t \in ToSet(h) THEN h ELSE Append(h, t)
AssignAll(h, s) ==
    LET after[i \in 0..Len(s)] == IF i = 0 THEN h ELSE Assign(after[i - 1], s[i])
    IN  after[Len(s)]
Trimmed(h)    == SubSeq(h, IF Len(h) > MaxHistory THEN Len(h) - MaxHistory + 1 ELSE 1,
                        Len(h))

(* The row is committed in a worker thread, before the request publishes.    *)
CommitTicket(t) == /\ upload[t] = "none"
                   /\ created' = Append(created, t)
                   /\ upload' = [upload EXCEPT ![t] = "committed"]
                   /\ UNCHANGED <<history, stream, seen, trust>>

\* Faulty variant: a stream registers its queue after the replay.
BroadcastLive(t) ==
    stream' = [c \in Client |->
                 IF stream[c].at = "live" /\ Len(stream[c].queue) < MaxQueue
                 THEN [stream[c] EXCEPT !.queue = Append(@, t)] ELSE stream[c]]
(* put_nowait to every subscriber; a full queue drops the event.             *)
Broadcast(t) ==
    stream' = [c \in Client |->
                 IF stream[c].at \in Subscribed /\ Len(stream[c].queue) < MaxQueue
                 THEN [stream[c] EXCEPT !.queue = Append(@, t)] ELSE stream[c]]
Overflows(c) == stream[c].at \in {"replay", "live"} /\ Len(stream[c].queue) >= MaxQueue

Publish(t) == /\ upload[t] = "committed"
              /\ upload' = [upload EXCEPT ![t] = "published"]
              /\ history' = Trimmed(Assign(history, t))
              /\ Broadcast(t)
              /\ trust' = [c \in Client |-> IF Overflows(c) THEN "lost" ELSE trust[c]]
              /\ UNCHANGED <<created, seen>>

(* The end of the intake pipeline records the ticket again, silently.        *)
PublishResult(t) == /\ upload[t] = "published"
                    /\ upload' = [upload EXCEPT ![t] = "finished"]
                    /\ history' = Trimmed(Assign(history, t))
                    /\ UNCHANGED <<created, stream, seen, trust>>

(***************************************************************************)
(* Subscribing.                                                            *)
(***************************************************************************)
Settled(x) == IF x = "lost" THEN "lost" ELSE "kept"

(* The dashboard lists the tickets first, whenever it connects, and takes    *)
(* the newest for its last event if it has none.  A failed list is ignored.  *)
FetchList(c) ==
    /\ stream[c].at = "off"
    /\ \/ /\ seen' = [seen EXCEPT ![c] = @ \cup ToSet(Newest(ListLimit))]
          /\ stream' = [stream EXCEPT
               ![c].at = "fetched",
               ![c].last = IF @ = NoTicket /\ Newest(ListLimit) # <<>>
                           THEN Last(created) ELSE @]
          /\ trust' = [trust EXCEPT ![c] = "listed"]
       \/ /\ stream' = [stream EXCEPT ![c].at = "fetched"]
          /\ UNCHANGED trust
          /\ UNCHANGED seen
    /\ UNCHANGED <<created, upload, history>>

(* The queue is there before the first keep-alive is sent.                   *)
Subscribe(c) == /\ stream[c].at = "fetched"
                /\ stream' = [stream EXCEPT ![c].at = "open"]
                /\ UNCHANGED <<created, upload, history, seen, trust>>

(* get_events_since: what follows the last event, or everything.             *)
EventsSince(h, last) ==
    IF last \in ToSet(h)
    THEN SubSeq(h, 1 + (CHOOSE i \in DOMAIN h : h[i] = last), Len(h))
    ELSE h

(* sync_from_database adds the rows the buffer misses, and trims nothing; if  *)
(* the database does not answer, the buffer is replayed as it is.            *)
Replay(c) ==
    /\ stream[c].at = "open"
    /\ \/ /\ history' = AssignAll(history, Newest(SyncLimit))
          /\ trust' = [trust EXCEPT ![c] = Settled(@)]
       \/ /\ UNCHANGED history
          /\ trust' = [trust EXCEPT ![c] = IF @ = "listed" THEN "kept" ELSE "lost"]
    /\ stream' = [stream EXCEPT ![c].at = "replay",
                                ![c].replay = EventsSince(history', stream[c].last)]
    /\ UNCHANGED <<created, upload, seen>>

Shows(c, t) == seen' = [seen EXCEPT ![c] = @ \cup {t}]

SendReplay(c) ==
    /\ stream[c].at = "replay"
    /\ IF stream[c].replay = <<>>
       THEN /\ stream' = [stream EXCEPT ![c].at = "live"]
            /\ UNCHANGED seen
       ELSE /\ stream' = [stream EXCEPT ![c].replay = Tail(@),
                                        ![c].last = Head(stream[c].replay)]
            /\ Shows(c, Head(stream[c].replay))
    /\ UNCHANGED <<created, upload, history, trust>>

(* Every queued event is sent, also one the replay has shown.                *)
SendLive(c) ==
    /\ stream[c].at = "live"
    /\ stream[c].queue # <<>>
    /\ stream' = [stream EXCEPT ![c].queue = Tail(@),
                                ![c].last = Head(stream[c].queue)]
    /\ Shows(c, Head(stream[c].queue))
    /\ UNCHANGED <<created, upload, history, trust>>

(* The connection breaks: the queue goes, the dashboard keeps its last event.*)
Disconnect(c) == /\ stream[c].at \in {"fetched"} \cup Subscribed
                 /\ stream' = [stream EXCEPT ![c] = Off(stream[c].last)]
                 /\ trust' = [trust EXCEPT ![c] = Settled(@)]
                 /\ UNCHANGED <<created, upload, history, seen>>

(* The server restarts: buffer, queues, requests and pipelines are gone.     *)
Restart == /\ history' = <<>>
           /\ stream' = [c \in Client |-> Off(stream[c].last)]
           /\ upload' = [t \in Ticket |->
                           CASE upload[t] = "committed" -> "lost"
                             [] upload[t] = "published" -> "finished"
                             [] OTHER                   -> upload[t]]
           /\ trust' = [c \in Client |-> Settled(trust[c])]
           /\ UNCHANGED <<created, seen>>

SseNext == \/ \E t \in Ticket : CommitTicket(t) \/ Publish(t) \/ PublishResult(t)
           \/ \E c \in Client : \/ FetchList(c) \/ Subscribe(c) \/ Replay(c)
                                \/ SendReplay(c) \/ SendLive(c) \/ Disconnect(c)
           \/ Restart

SseSpec == SseInit /\ [][SseNext]_sseVars

(***************************************************************************)
(* Properties.                                                             *)
(***************************************************************************)
Announced == {t \in Ticket : upload[t] \in {"published", "finished"}}
Pending(c) == ToSet(stream[c].queue) \cup ToSet(stream[c].replay)

(* A subscriber that has been given its replay has, or still is to get,      *)
(* every announced ticket that a list would show.  Not so one that lost an   *)
(* event to a full queue, or had neither list nor synchronisation, and has   *)
(* had no list since: a successful list makes up for whatever was lost.      *)
NoGap == \A c \in Client :
            stream[c].at \in {"replay", "live"} /\ trust[c] # "lost" =>
                Announced \cap ToSet(Newest(ListLimit)) \subseteq seen[c] \cup Pending(c)

(* The buffer lists tickets as they were created, and none is announced while *)
(* an older one is yet to be.                                                *)
InOrder ==
    \A i, j \in DOMAIN created : i < j =>
       /\ \A k, l \in DOMAIN history :
             history[k] = created[i] /\ history[l] = created[j] => k < l
       /\ created[j] \in Announced => upload[created[i]] # "committed"

(* "Missed event recovery via Last-Event-ID": an event published while a     *)
(* dashboard was away, or between its subscription and its replay, reaches   *)
(* it, also after a restart of the server, if only the list or only the      *)
(* synchronisation fails, or if a list succeeds after both had failed or a   *)
(* queue was full - as long as the buffer holds the tickets, and they are    *)
(* announced, in the order of creation.                                      *)
RecoversInOrder == ([]InOrder) => []NoGap
=============================================================================

------------------------------ MODULE RateLimiter ------------------------------
(***************************************************************************)
(* The sliding-window limiter of services/security/rate_limiter.py in front*)
(* of the support agent: a queue of (time, tokens) per key, pruned and     *)
(* consulted under one lock, and a monotonic clock.                        *)
(***************************************************************************)
EXTENDS Integers, Sequences

CONSTANTS
    Client,       \* the keys: a session user, a thread, or "anonymous"
    MaxRequests,  \* max_requests
    MaxTokens,    \* max_tokens
    Window,       \* window_seconds
    Cost,         \* the estimates of tokens a question may have
    LastTime      \* bound: the clock stops here

ASSUME LimiterAssumption ==
    /\ {MaxRequests, MaxTokens, Window, LastTime} \subseteq Nat \ {0}
    /\ Cost \subseteq Nat \ {0}

VARIABLES
    clock,   \* time.monotonic
    events,  \* events[c]: the queue of c, empty also while c has none
    log      \* every request admitted since the start or the last reset

limiterVars == <<clock, events, log>>

Request == [time : 0..LastTime, tokens : Cost]

Latest(queue, n) == SubSeq(queue, Len(queue) - n + 1, Len(queue))

LimiterTypeOK ==
    /\ clock \in 0..LastTime
    /\ events \in [Client -> Seq(Request)]
    /\ log \in [Client -> Seq(Request)]
    /\ \A c \in Client : events[c] = Latest(log[c], Len(events[c]))

LimiterInit == /\ clock = 0
               /\ events = [c \in Client |-> <<>>]
               /\ log = [c \in Client |-> <<>>]

TokensOf(queue) ==
    LET sum[i \in 0..Len(queue)] == IF i = 0 THEN 0 ELSE sum[i - 1] + queue[i].tokens
    IN  sum[Len(queue)]

(* What is left once popleft has met a request after the cutoff, or none.    *)
Since(queue, cutoff) ==
    LET popped == CHOOSE n \in 0..Len(queue) :
                     /\ \A i \in 1..n : queue[i].time <= cutoff
                     /\ n < Len(queue) => queue[n + 1].time > cutoff
    IN  SubSeq(queue, popped + 1, Len(queue))

\* Faulty variant: a request leaves the window one second early.
PrunedEarly(c) == Since(events[c], clock - Window + 1)
(* _prune, by the time of the check.                                         *)
Pruned(c) == Since(events[c], clock - Window)

Fits(queue, tokens) == /\ Len(queue) + 1 <= MaxRequests
                       /\ TokensOf(queue) + tokens <= MaxTokens

(* check; a refused request leaves the queue pruned.                         *)
Admit(c, tokens) ==
    LET request == [time |-> clock, tokens |-> tokens] IN
    /\ Fits(Pruned(c), tokens)
    /\ events' = [events EXCEPT ![c] = Append(Pruned(c), request)]
    /\ log' = [log EXCEPT ![c] = Append(@, request)]
    /\ UNCHANGED clock

Deny(c, tokens) == /\ ~Fits(Pruned(c), tokens)
                   /\ events' = [events EXCEPT ![c] = Pruned(c)]
                   /\ UNCHANGED <<clock, log>>

(* reset of one key, or of all of them.                                      *)
Reset(keys) ==
    LET cleared(queues) == [c \in Client |-> IF c \in keys THEN <<>> ELSE queues[c]]
    IN  /\ events' = cleared(events)
        /\ log' = cleared(log)
        /\ UNCHANGED clock

Tick == /\ clock < LastTime
        /\ clock' = clock + 1
        /\ UNCHANGED <<events, log>>

LimiterNext == \/ \E c \in Client, tokens \in Cost : Admit(c, tokens) \/ Deny(c, tokens)
               \/ \E keys \in {Client} \cup {{c} : c \in Client} : Reset(keys)
               \/ Tick

LimiterSpec == LimiterInit /\ [][LimiterNext]_limiterVars

(***************************************************************************)
(* Properties.                                                             *)
(***************************************************************************)
(* Whichever stretch of the admitted requests one takes, also one that was   *)
(* pruned long ago: if all of it fits into one window, it keeps both limits. *)
WindowKeepsLimits ==
    \A c \in Client : \A first, last \in DOMAIN log[c] :
        first <= last /\ log[c][last].time - log[c][first].time < Window =>
            /\ last - first + 1 <= MaxRequests
            /\ TokensOf(SubSeq(log[c], first, last)) <= MaxTokens
=============================================================================

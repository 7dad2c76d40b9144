------------------------------ MODULE MCWsChat ------------------------------
(***************************************************************************)
(* WsChat with a record of whether its connections ever got in each other's*)
(* way: one handled a frame while another waited for a cancelled task.     *)
(***************************************************************************)
EXTENDS WsChat

VARIABLE crossed

MCInit == ChatInit /\ crossed = FALSE

MCNext == \/ \E s \in Sockets : /\ SocketStep(s)
                                /\ crossed' = (crossed \/ Awaiting \ {s} # {})
          \/ \E t \in Turns : ProducerStep(t) /\ UNCHANGED crossed

MCSpec == /\ MCInit
          /\ [][MCNext]_<<chatVars, crossed>>
          /\ ChatRuns

(* Connections that do not cross keep to one generation at a time: whatever  *)
(* step of a turn a new question meets, start_user_turn aborts it first.    *)
OneLiveUnlessCrossed == ~crossed => OneLiveProducer

(* Once an answer is marked interrupted, no token follows and nothing else   *)
(* of it changes, wherever its producer was (test_websocket_chat.py).       *)
InterruptedStays ==
    [][~crossed' => \A t \in Turns : msg[t].status = "interrupted" =>
                                         msg'[t] = msg[t]]_<<chatVars, crossed>>
=============================================================================

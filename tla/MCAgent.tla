-------------------------------- MODULE MCAgent --------------------------------
(***************************************************************************)
(* The memory of the support agent, its rate limiter and the approval gate *)
(* for the model checker.  They share no state, so a behaviour follows one *)
(* of them (focus) and leaves the others in one of their initial states.   *)
(***************************************************************************)
EXTENDS AgentMemory, RateLimiter, ApprovalGate

VARIABLE focus

agentVars == <<memoryVars, limiterVars, gateVars, focus>>

(* One initial state of each part that the behaviour does not follow.        *)
MemoryAtRest ==
    run = [r \in Run |-> [thread |-> CHOOSE t \in Thread : TRUE, rule |-> Nothing,
                          held |-> Nothing, intent |-> "ambiguous", asks |-> TRUE,
                          row |-> Nothing, at |-> "new"]]
GateAtRest ==
    /\ action = [a \in Action |-> [type |-> "return_approval", human |-> FALSE,
                                   requester |-> CHOOSE p \in Person : TRUE,
                                   status |-> "absent"]]
    /\ decision = [d \in Decision |-> [of |-> CHOOSE a \in Action : TRUE, approve |-> TRUE,
                                       by |-> CHOOSE p \in Person : TRUE, at |-> "new"]]
    /\ execution = [e \in Execution |-> [of |-> CHOOSE a \in Action : TRUE, at |-> "new"]]

MCInit == /\ focus \in {"memory", "limiter", "gate"}
          /\ focus # "memory" => MemoryAtRest
          /\ focus # "gate" => GateAtRest
          /\ MemoryInit /\ LimiterInit /\ GateInit

MCNext ==
    /\ UNCHANGED focus
    /\ \/ /\ focus = "memory" /\ MemoryNext
          /\ UNCHANGED <<limiterVars, gateVars>>
       \/ /\ focus = "limiter" /\ LimiterNext
          /\ UNCHANGED <<memoryVars, gateVars>>
       \/ /\ focus = "gate" /\ GateNext
          /\ UNCHANGED <<memoryVars, limiterVars>>

MCSpec == MCInit /\ [][MCNext]_agentVars

(* The types of the three parts.                                             *)
AgentTypeOK == MemoryTypeOK /\ LimiterTypeOK /\ GateTypeOK
=============================================================================

---------------------------- MODULE MCApiServices ----------------------------
(***************************************************************************)
(* The services of the API for the model checker.  They share no state, so *)
(* a behaviour follows one of them (focus) and leaves the others in one of *)
(* their initial states: TLC explores the sum of the state spaces.  The    *)
(* stream promises recovery only while tickets come in order, so behaviours*)
(* of the stream are followed up to the first step out of that order; the  *)
(* run stream_recovery and the theorems follow it without this bound.      *)
(***************************************************************************)
EXTENDS SseBroker, CachedRecords, Inventory, Accounts

VARIABLE focus

apiVars == <<sseVars, recordsVars, inventoryVars, accountsVars, focus>>

(* One initial state of each service that the behaviour does not follow.     *)
RecordsAtRest == /\ router = "suppliers"
                 /\ file = [i \in Record |-> Absent]
                 /\ req = [r \in Request |->
                             [kind |-> "list", id |-> CHOOSE i \in Record : TRUE,
                              status |-> "open", at |-> "new", copy |-> Absent]]
InventoryAtRest == /\ product = [s \in Sku |-> NoProduct]
                   /\ order = [o \in Order |->
                                 CHOOSE r \in OrderRequest({"new"}, {0}) : TRUE]
AccountsAtRest == /\ call = [c \in Call |->
                               [kind |-> "reset", user |-> CHOOSE u \in User : TRUE,
                                email |-> CHOOSE e \in Email : TRUE, active |-> TRUE,
                                token |-> CHOOSE t \in Token : TRUE,
                                at |-> "new", copy |-> Nobody]]
                  /\ db = [users    |-> [u \in User |-> NoUser],
                           profiles |-> {},
                           tokens   |-> [t \in Token |-> NoToken]]

MCInit == /\ focus \in {"sse", "records", "inventory", "accounts"}
          /\ focus # "records" => RecordsAtRest
          /\ focus # "inventory" => InventoryAtRest
          /\ focus # "accounts" => AccountsAtRest
          /\ SseInit /\ RecordsInit /\ InventoryInit /\ AccountsInit

MCNext ==
    /\ UNCHANGED focus
    /\ \/ /\ focus = "sse" /\ InOrder /\ SseNext
          /\ UNCHANGED <<recordsVars, inventoryVars, accountsVars>>
       \/ /\ focus = "records" /\ RecordsNext
          /\ UNCHANGED <<sseVars, inventoryVars, accountsVars>>
       \/ /\ focus = "inventory" /\ InventoryNext
          /\ UNCHANGED <<sseVars, recordsVars, accountsVars>>
       \/ /\ focus = "accounts" /\ AccountsNext
          /\ UNCHANGED <<sseVars, recordsVars, inventoryVars>>

MCSpec == MCInit /\ [][MCNext]_apiVars

(* The types of the four services.                                           *)
ServicesTypeOK == SseTypeOK /\ RecordsTypeOK /\ InventoryTypeOK /\ AccountsTypeOK
=============================================================================

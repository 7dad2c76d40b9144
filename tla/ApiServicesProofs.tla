-------------------------- MODULE ApiServicesProofs --------------------------
(***************************************************************************)
(* The stock, the cached records, the accounts and the event stream, for   *)
(* any requests: the types of each, what it keeps while the calls that its *)
(* property names do not overlap, and what a stream owes its dashboard.    *)
(***************************************************************************)
EXTENDS MCApiServices, DataInduction, FiniteSetTheorems, SequenceTheorems, TLAPS

(* Of a set with at most one member, any two are one.                        *)
LEMMA AtMostOne ==
  ASSUME NEW S, IsFiniteSet(S), Cardinality(S) <= 1, NEW a \in S, NEW b \in S
  PROVE  a = b
<1> SUFFICES ASSUME a # b PROVE FALSE
  OBVIOUS
<1>1. Cardinality({a, b}) <= Cardinality(S)
  BY FS_Subset
<1>2. IsFiniteSet({a}) /\ Cardinality({a}) = 1
  BY FS_Singleton
<1>3. Cardinality({a} \cup {b}) = 2
  BY <1>2, FS_AddElement, SMTT(30)
<1>4. {a} \cup {b} = {a, b}
  OBVIOUS
<1>5. Cardinality(S) \in Nat
  BY FS_CardinalityType
<1> QED BY <1>1, <1>3, <1>4, <1>5

(***************************************************************************)
(* Inventory.                                                              *)
(***************************************************************************)
OrderPlaces == {"new", "found", "summed", "counted", "accepted", "done", "refused"}

StockTypeOK == /\ inbound \in [Sku -> Nat] /\ outbound \in [Sku -> Nat]
               /\ order \in [Order -> OrderRequest(OrderPlaces, Nat)]

(* What an exit has summed is still there when it leaves.                    *)
SumsHold(o) ==
    LET s == order[o].sku IN
    /\ order[o].at \in {"summed", "counted", "accepted"} =>
          order[o].kind = "outbound" /\ order[o].came <= inbound[s]
    /\ order[o].at \in {"counted", "accepted"} => order[o].went = outbound[s]
    /\ order[o].at = "accepted" => order[o].quantity <= order[o].came - order[o].went

StockInv == /\ StockTypeOK
            /\ \A o \in Order : SumsHold(o)
            /\ \A s \in Sku : outbound[s] <= inbound[s]

(* Every step of an order keeps the types.                                   *)
LEMMA StockTypeStep ==
  ASSUME StockTypeOK, [InventoryNext]_inventoryVars
  PROVE  StockTypeOK'
<1> USE InventoryAssumption DEF StockTypeOK, OrderRequest, OrderPlaces, OrderGoes
<1>1. CASE UNCHANGED inventoryVars
  BY <1>1 DEF inventoryVars
<1>2. ASSUME NEW o \in Order, FindProduct(o) \/ InsertProduct(o) \/ Address(o)
      PROVE  StockTypeOK'
  BY <1>2 DEF FindProduct, InsertProduct, Address
<1>3. ASSUME NEW o \in Order, CreateInbound(o)
      PROVE  StockTypeOK'
  BY <1>3 DEF CreateInbound
<1>4. ASSUME NEW o \in Order, CreateOutbound(o)
      PROVE  StockTypeOK'
  <2>1. order[o].sku \in Sku /\ order[o].quantity \in Nat
    OBVIOUS
  <2>2. outbound' \in [Sku -> Nat] /\ inbound' \in [Sku -> Nat]
    BY <1>4, <2>1 DEF CreateOutbound
  <2>3. order' \in [Order -> OrderRequest(OrderPlaces, Nat)]
    BY <1>4 DEF CreateOutbound
  <2> QED BY <2>2, <2>3
<1>5. ASSUME NEW o \in Order, SumInbound(o) \/ SumOutbound(o)
      PROVE  StockTypeOK'
  <2> DEFINE sku == order[o].sku
             x == [order[o] EXCEPT !.at = "summed", !.came = inbound[sku]]
             y == [order[o] EXCEPT !.at = "counted", !.went = outbound[sku]]
  <2>1. x \in OrderRequest(OrderPlaces, Nat) /\ y \in OrderRequest(OrderPlaces, Nat)
    OBVIOUS
  <2>2. /\ UNCHANGED <<inbound, outbound>>
        /\ order' = [order EXCEPT ![o] = x] \/ order' = [order EXCEPT ![o] = y]
    BY <1>5 DEF SumInbound, SumOutbound
  <2> HIDE DEF x, y
  <2> QED BY <2>1, <2>2
<1>6. ASSUME NEW o \in Order, CheckStock(o) \/ OrderFails(o)
      PROVE  StockTypeOK'
  BY <1>6 DEF CheckStock, OrderFails
<1> QED BY <1>1, <1>2, <1>3, <1>4, <1>5, <1>6 DEF InventoryNext

(* Two exits of one product that have begun to count are one.                *)
LEMMA OneExit ==
  ASSUME OneExitAtATime, StockTypeOK, NEW o \in Order, NEW p \in Order,
         order[o].sku = order[p].sku,
         order[o].kind = "outbound", order[o].at \in {"summed", "counted", "accepted"},
         order[p].kind = "outbound", order[p].at \in {"summed", "counted", "accepted"}
  PROVE  o = p
<1> DEFINE s == order[o].sku
<1>1. s \in Sku
  BY DEF StockTypeOK, OrderRequest
<1>2. o \in Leaving(s) /\ p \in Leaving(s)
  BY DEF Leaving
<1>3. IsFiniteSet(Leaving(s))
  BY InventoryAssumption, FS_Subset DEF Leaving
<1>4. Cardinality(Leaving(s)) <= 1
  BY <1>1 DEF OneExitAtATime
<1> HIDE DEF s
<1> QED BY <1>2, <1>3, <1>4, AtMostOne

(* While exits come one at a time, what one has summed is still there when   *)
(* it leaves.                                                                *)
LEMMA StockStep ==
  ASSUME StockInv, OneExitAtATime, [InventoryNext]_inventoryVars
  PROVE  StockInv'
<1> SUFFICES (\A p \in Order : SumsHold(p)') /\ (\A s \in Sku : outbound'[s] <= inbound'[s])
  BY StockTypeStep DEF StockInv
<1> USE InventoryAssumption DEF StockInv, StockTypeOK, OrderRequest, OrderGoes, SumsHold
<1>1. CASE UNCHANGED inventoryVars
  BY <1>1 DEF inventoryVars
<1>2. ASSUME NEW o \in Order, FindProduct(o) \/ InsertProduct(o) \/ Address(o)
      PROVE  (\A p \in Order : SumsHold(p)') /\ (\A s \in Sku : outbound'[s] <= inbound'[s])
  BY <1>2 DEF FindProduct, InsertProduct, Address
<1>3. ASSUME NEW o \in Order, CreateInbound(o)
      PROVE  (\A p \in Order : SumsHold(p)') /\ (\A s \in Sku : outbound'[s] <= inbound'[s])
  BY <1>3 DEF CreateInbound
<1>4. ASSUME NEW o \in Order, CreateOutbound(o)
      PROVE  (\A p \in Order : SumsHold(p)') /\ (\A s \in Sku : outbound'[s] <= inbound'[s])
  <2> DEFINE s == order[o].sku
  <2>1. /\ order[o].at = "accepted" /\ order[o].kind = "outbound" /\ s \in Sku
        /\ order' = [order EXCEPT ![o].at = "done"] /\ inbound' = inbound
        /\ outbound' = [outbound EXCEPT ![s] = @ + order[o].quantity]
        /\ order[o].quantity \in Nat
    BY <1>4 DEF CreateOutbound
  <2>2. outbound[s] + order[o].quantity <= inbound[s]
    BY <2>1
  <2>3. ASSUME NEW p \in Order, p # o
        PROVE  order[p].sku = s => order[p].at \notin {"summed", "counted", "accepted"}
    BY <2>1, <2>3, OneExit
  <2>4. \A p \in Order : SumsHold(p)'
    BY <2>1, <2>3
  <2> QED BY <2>1, <2>2, <2>4
<1>5. ASSUME NEW o \in Order, SumInbound(o)
      PROVE  (\A p \in Order : SumsHold(p)') /\ (\A s \in Sku : outbound'[s] <= inbound'[s])
  BY <1>5 DEF SumInbound
<1>6. ASSUME NEW o \in Order, SumOutbound(o)
      PROVE  (\A p \in Order : SumsHold(p)') /\ (\A s \in Sku : outbound'[s] <= inbound'[s])
  BY <1>6 DEF SumOutbound
<1>7. ASSUME NEW o \in Order, CheckStock(o)
      PROVE  (\A p \in Order : SumsHold(p)') /\ (\A s \in Sku : outbound'[s] <= inbound'[s])
  BY <1>7 DEF CheckStock, Available
<1>8. ASSUME NEW o \in Order, OrderFails(o)
      PROVE  (\A p \in Order : SumsHold(p)') /\ (\A s \in Sku : outbound'[s] <= inbound'[s])
  BY <1>8 DEF OrderFails
<1> QED BY <1>1, <1>2, <1>3, <1>4, <1>5, <1>6, <1>7, <1>8 DEF InventoryNext

(* A product never leaves what it does not have, as long as its exits do not *)
(* overlap, although entries are added between the two sums                  *)
(* (_calculate_current_stock, create_outbound_order).                        *)
THEOREM StockNeverOversold == InventorySpec => NeverOversoldAlone
<1>1. InventoryInit => StockInv
  BY DEF InventoryInit, StockInv, StockTypeOK, OrderRequest, OrderPlaces, SumsHold
<1>2. StockInv /\ OneExitAtATime /\ [InventoryNext]_inventoryVars => StockInv'
  BY StockStep
<1>3. StockInv => \A s \in Sku : Stock(s) >= 0
  BY DEF StockInv, StockTypeOK, Stock
<1> QED BY <1>1, <1>2, <1>3, PTL DEF InventorySpec, NeverOversoldAlone

(***************************************************************************)
(* The cached records.                                                     *)
(***************************************************************************)
RequestRecord == [kind : Reads \cup Writes, id : Record, status : Status,
                  at : {"new", "checked", "loaded", "stored", "missed",
                        "read", "done", "failed"},
                  copy : {Absent} \cup Answer]
HoldsFile(r)  == req[r].at \in {"loaded", "stored"} => req[r].copy \in RecordFile

(* Lists and details are answers, and so is a copy of the file.              *)
LEMMA ViewIsAnswer ==
  ASSUME NEW f \in RecordFile
  PROVE  /\ \A k \in Key : View(f, k) \in Answer
         /\ f \in Answer
<1>1. \A k \in Key : Covered(k) \subseteq Record /\ View(f, k) \in [Covered(k) -> Status \cup {Absent}]
  BY DEF View, Covered, Key, RecordFile
<1>2. Covered(All) = Record /\ All \in Key
  BY DEF Covered, Key
<1> QED BY <1>1, <1>2 DEF Answer, RecordFile

(* A request goes on and keeps what it asked for.                            *)
LEMMA MovesFacts ==
  ASSUME RecordsTypeOK, NEW r \in Request, NEW from,
         NEW to \in {"checked", "loaded", "stored", "missed", "read", "done", "failed"},
         NEW copy \in {Absent} \cup Answer, Moves(r, from, to, copy),
         to \in {"loaded", "stored"} => copy \in RecordFile
  PROVE  /\ req' \in [Request -> RequestRecord]
         /\ \A q \in Request : HoldsFile(q)'
         /\ req[r].at = from
         /\ req' = [req EXCEPT ![r] = [req[r] EXCEPT !.at = to, !.copy = copy]]
         /\ req'[r] = [req[r] EXCEPT !.at = to, !.copy = copy]
         /\ \A q \in Request \ {r} : req'[q] = req[q]
         /\ \A q \in Request : /\ req'[q].id = req[q].id /\ req'[q].kind = req[q].kind
                               /\ req'[q].status = req[q].status
         /\ req'[r].at = to /\ req'[r].copy = copy
<1>1. req \in [Request -> RequestRecord] /\ \A q \in Request : HoldsFile(q)
  BY DEF RecordsTypeOK, RequestRecord, HoldsFile
<1> DEFINE x == [req[r] EXCEPT !.at = to, !.copy = copy]
<1>2. /\ x \in RequestRecord /\ x.at = to /\ x.copy = copy
      /\ x.id = req[r].id /\ x.kind = req[r].kind /\ x.status = req[r].status
  BY <1>1 DEF RequestRecord
<1>3. req' = [req EXCEPT ![r] = x] /\ req[r].at = from
  BY DEF Moves
<1> HIDE DEF x
<1>4. /\ req' \in [Request -> RequestRecord] /\ req'[r] = x
      /\ \A q \in Request \ {r} : req'[q] = req[q]
  BY <1>1, <1>2, <1>3
<1>5. \A q \in Request : HoldsFile(q)'
  BY <1>1, <1>2, <1>4 DEF HoldsFile
<1> QED BY <1>2, <1>3, <1>4, <1>5 DEF x

(* Every step moves one request to a place with a copy of its type, or is an *)
(* entry that expires.                                                       *)
LEMMA RecordsTypeStep ==
  ASSUME RecordsTypeOK, [RecordsNext]_recordsVars
  PROVE  RecordsTypeOK'
<1> DEFINE Typed == /\ router \in {"incidents", "suppliers"} /\ file \in RecordFile
                    /\ cache \in [Key -> {Absent} \cup Answer]
<1>1. Typed /\ req \in [Request -> RequestRecord] /\ \A q \in Request : HoldsFile(q)
  BY DEF RecordsTypeOK, RequestRecord, HoldsFile
<1>2. \A r \in Request : KeyOf(r) \in Key /\ req[r].id \in Record
  BY <1>1 DEF KeyOf, Key, RequestRecord
<1>3. (\A k \in Key : View(file, k) \in Answer) /\ file \in Answer
  BY <1>1, ViewIsAnswer
<1> SUFFICES /\ Typed' /\ req' \in [Request -> RequestRecord]
             /\ \A q \in Request : HoldsFile(q)'
  BY DEF RecordsTypeOK, RequestRecord, HoldsFile
<1>4. CASE UNCHANGED recordsVars
  BY <1>1, <1>4 DEF recordsVars, HoldsFile
<1>5. ASSUME NEW k \in Key, Expire(k)
      PROVE  /\ Typed' /\ req' \in [Request -> RequestRecord]
             /\ \A q \in Request : HoldsFile(q)'
  BY <1>1, <1>5 DEF Expire, HoldsFile
<1>6. ASSUME NEW r \in Request, Lookup(r)
      PROVE  /\ Typed' /\ req' \in [Request -> RequestRecord]
             /\ \A q \in Request : HoldsFile(q)'
  <2>1. cache[KeyOf(r)] \in {Absent} \cup Answer
    BY <1>1, <1>2
  <2>2. \/ Moves(r, "new", "done", cache[KeyOf(r)])
        \/ Moves(r, "new", "missed", Absent)
    BY <1>6 DEF Lookup
  <2>3. Typed'
    BY <1>1, <1>6 DEF Lookup
  <2> QED BY <2>1, <2>2, <2>3, MovesFacts
<1>7. ASSUME NEW r \in Request, ReadFile(r)
      PROVE  /\ Typed' /\ req' \in [Request -> RequestRecord]
             /\ \A q \in Request : HoldsFile(q)'
  <2>1. View(file, KeyOf(r)) \in Answer
    BY <1>2, <1>3
  <2>2. \/ Moves(r, "missed", "failed", View(file, KeyOf(r)))
        \/ Moves(r, "missed", "read", View(file, KeyOf(r)))
    BY <1>7 DEF ReadFile
  <2>3. Typed'
    BY <1>1, <1>7 DEF ReadFile
  <2> QED BY <2>1, <2>2, <2>3, MovesFacts
<1>8. ASSUME NEW r \in Request, Fill(r)
      PROVE  /\ Typed' /\ req' \in [Request -> RequestRecord]
             /\ \A q \in Request : HoldsFile(q)'
  <2>1. req[r].copy \in {Absent} \cup Answer
    BY <1>1 DEF RequestRecord
  <2>2. Moves(r, "read", "done", req[r].copy)
    BY <1>8 DEF Fill
  <2>3. Typed'
    BY <1>1, <1>2, <1>8, <2>1 DEF Fill
  <2> QED BY <2>1, <2>2, <2>3, MovesFacts
<1>9. ASSUME NEW r \in Request, Check(r) \/ RereadFails(r) \/ AccessFails(r)
      PROVE  /\ Typed' /\ req' \in [Request -> RequestRecord]
             /\ \A q \in Request : HoldsFile(q)'
  <2>1. \E from, to : Moves(r, from, to, Absent) /\ to \in {"checked", "failed"}
    BY <1>9 DEF Check, RereadFails, AccessFails
  <2>2. Typed'
    BY <1>1, <1>9 DEF Check, RereadFails, AccessFails
  <2> QED BY <2>1, <2>2, MovesFacts
<1>10. ASSUME NEW r \in Request, Load(r)
       PROVE  /\ Typed' /\ req' \in [Request -> RequestRecord]
              /\ \A q \in Request : HoldsFile(q)'
  <2>1. \E from : Moves(r, from, "loaded", file)
    BY <1>10 DEF Load
  <2>2. Typed'
    BY <1>1, <1>10 DEF Load
  <2> QED BY <1>1, <1>3, <2>1, <2>2, MovesFacts
<1>11. ASSUME NEW r \in Request, Store(r)
       PROVE  /\ Typed' /\ req' \in [Request -> RequestRecord]
              /\ \A q \in Request : HoldsFile(q)'
  <2>1. Moves(r, "loaded", "stored", req[r].copy)
    BY <1>11 DEF Store
  <2>2. req[r].copy \in RecordFile /\ req[r].copy \in {Absent} \cup Answer /\ req[r].status \in Status
    BY <1>1, <2>1 DEF Moves, HoldsFile, RequestRecord
  <2>3. Changed(r) \in RecordFile
    BY <1>2, <2>2 DEF Changed, RecordFile, Status
  <2>4. Typed'
    BY <1>1, <1>11, <2>3 DEF Store
  <2> QED BY <2>1, <2>2, <2>4, MovesFacts
<1>12. ASSUME NEW r \in Request, Finish(r)
       PROVE  /\ Typed' /\ req' \in [Request -> RequestRecord]
              /\ \A q \in Request : HoldsFile(q)'
  <2>1. Moves(r, "stored", "done", Absent)
    BY <1>12 DEF Finish
  <2>2. Typed'
    BY <1>1, <1>12 DEF Finish, Invalidated
  <2> QED BY <2>1, <2>2, MovesFacts
<1> HIDE DEF Typed
<1> QED BY <1>4, <1>5, <1>6, <1>7, <1>8, <1>9, <1>10, <1>11, <1>12
        DEF RecordsNext, RequestStep

(* Where a step leaves no write between its storage and its invalidation,    *)
(* the cache is current: the step has just emptied it, or a reader has added *)
(* what the file holds.                                                      *)
CacheInv == RecordsTypeOK /\ \A k \in Key : Current(k) \/ Invalidating

(* Without a fill that crosses a write, no step leaves a stale entry that    *)
(* nobody will invalidate.                                                   *)
LEMMA CacheStep ==
  ASSUME CacheInv, ~Crossed, ~Crossed', [RecordsNext]_recordsVars
  PROVE  CacheInv'
<1> SUFFICES ASSUME NEW k \in Key
             PROVE  Current(k)' \/ Invalidating'
  BY RecordsTypeStep DEF CacheInv
<1>1. /\ RecordsTypeOK /\ cache \in [Key -> {Absent} \cup Answer]
      /\ req \in [Request -> RequestRecord]
      /\ Current(k) \/ Invalidating
  BY DEF CacheInv, RecordsTypeOK, RequestRecord
<1>2. CASE UNCHANGED recordsVars
  BY <1>1, <1>2 DEF recordsVars, Current, View, Covered, Invalidating
<1>3. ASSUME NEW j \in Key, Expire(j)
      PROVE  Current(k)' \/ Invalidating'
  BY <1>1, <1>3 DEF Expire, Current, View, Covered, Invalidating
<1>4. ASSUME NEW r \in Request, NEW from, from # "stored", NEW to, NEW copy,
             Moves(r, from, to, copy), UNCHANGED <<file, cache>>
      PROVE  Current(k)' \/ Invalidating'
  <2>1. Invalidating => Invalidating'
    BY <1>1, <1>4 DEF Moves, Invalidating
  <2>2. Current(k) => Current(k)'
    BY <1>4 DEF Current, View, Covered
  <2> QED BY <1>1, <2>1, <2>2
<1>5. ASSUME NEW r \in Request,
             Lookup(r) \/ ReadFile(r) \/ Check(r) \/ Load(r) \/ AccessFails(r)
      PROVE  Current(k)' \/ Invalidating'
  <2>1. UNCHANGED <<file, cache>>
    BY <1>5 DEF Lookup, ReadFile, Check, Load, AccessFails
  <2>2. \E from, to, copy : Moves(r, from, to, copy) /\ from # "stored"
    BY <1>5 DEF Lookup, ReadFile, Check, Load, AccessFails
  <2> QED BY <1>4, <2>1, <2>2
<1>6. ASSUME NEW r \in Request, Fill(r)
      PROVE  Current(k)' \/ Invalidating'
  <2>1. /\ req[r].at = "read" /\ file' = file
        /\ cache' = [cache EXCEPT ![KeyOf(r)] = req[r].copy]
        /\ Moves(r, "read", "done", req[r].copy)
    BY <1>6 DEF Fill, Moves
  <2>2. Invalidating => Invalidating'
    BY <1>1, <2>1 DEF Moves, Invalidating
  <2>3. Invalidating \/ req[r].copy = View(file, KeyOf(r))
    BY <2>1 DEF Crossed
  <2>4. req[r].copy = View(file, KeyOf(r)) /\ Current(k) => Current(k)'
    BY <1>1, <2>1 DEF Current, View, Covered
  <2> QED BY <1>1, <2>2, <2>3, <2>4
<1>7. ASSUME NEW r \in Request, Store(r)
      PROVE  Current(k)' \/ Invalidating'
  BY <1>1, <1>7 DEF Store, Moves, Invalidating, RequestRecord
<1>8. ASSUME NEW r \in Request, Finish(r)
      PROVE  Current(k)' \/ Invalidating'
  BY <1>8 DEF Finish, Invalidated, Current
<1>9. ASSUME NEW r \in Request, RereadFails(r)
      PROVE  Current(k)' \/ Invalidating'
  BY <1>1, <1>9 DEF RereadFails, Moves, Crossed, RequestRecord
<1> QED BY <1>2, <1>3, <1>5, <1>6, <1>7, <1>8, <1>9 DEF RecordsNext, RequestStep

(* The file and the requests are typed at the start.                         *)
LEMMA RecordsTypeStart == RecordsInit => RecordsTypeOK
<1> SUFFICES ASSUME RecordsInit PROVE RecordsTypeOK
  OBVIOUS
<1>1. /\ router \in {"incidents", "suppliers"} /\ file \in RecordFile
      /\ cache \in [Key -> {Absent} \cup Answer]
  BY DEF RecordsInit, RecordFile, Status
<1>2. req \in [Request -> RequestRecord] /\ \A r \in Request : HoldsFile(r)
  BY DEF RecordsInit, RequestRecord, RequestKinds, Reads, Writes, HoldsFile
<1> QED BY <1>1, <1>2 DEF RecordsTypeOK, RequestRecord, HoldsFile

(* Unless a reader crosses an invalidation or a patch fails before its own,  *)
(* no answer of the cache is stale but while the write that made it so is    *)
(* about to empty the cache (TTLCache.invalidate_prefix in the routers).     *)
THEOREM CacheIsCurrent == RecordsSpec => CurrentUnlessCrossed
<1>1. RecordsInit => CacheInv
  BY RecordsTypeStart DEF RecordsInit, CacheInv, Current
<1>2. CacheInv /\ ~Crossed /\ (~Crossed)' /\ [RecordsNext]_recordsVars => CacheInv'
  BY CacheStep
<1>3. CacheInv => \A k \in Key : Current(k) \/ Invalidating
  BY DEF CacheInv
<1> QED BY <1>1, <1>2, <1>3, PTL DEF RecordsSpec, CurrentUnlessCrossed

(* What a request has checked and copied is still so: only another writer    *)
(* could change it.                                                          *)
Right(r) == /\ req[r].at = "loaded" => req[r].copy = file
            /\ req[r].at \in {"checked", "loaded"} /\ req[r].kind = "patch" =>
                  req[r].status \in Transitions(file[req[r].id])
WriteInv == RecordsTypeOK /\ \A r \in Request : Right(r)

(* While one request writes at a time, its copy of the file and its check    *)
(* stay true.                                                                *)
LEMMA WriteStep ==
  ASSUME WriteInv, OneWriter, [RecordsNext]_recordsVars
  PROVE  WriteInv'
<1> SUFFICES ASSUME NEW q \in Request
             PROVE  Right(q)'
  BY RecordsTypeStep DEF WriteInv
<1>1. /\ RecordsTypeOK /\ Right(q) /\ \A p \in Request : Right(p)
      /\ req \in [Request -> RequestRecord]
  BY DEF WriteInv, RecordsTypeOK, RequestRecord
<1>2. CASE UNCHANGED recordsVars
  BY <1>1, <1>2 DEF recordsVars, Right, Transitions
<1>3. ASSUME NEW k \in Key, Expire(k)
      PROVE  Right(q)'
  BY <1>1, <1>3 DEF Expire, Right, Transitions
<1>4. ASSUME NEW r \in Request, NEW from, NEW to, NEW copy,
             Moves(r, from, to, copy), UNCHANGED <<router, file>>,
             to \notin {"checked", "loaded"}
      PROVE  Right(q)'
  BY <1>1, <1>4 DEF Moves, Right, Transitions, RequestRecord
<1>5. ASSUME NEW r \in Request,
             Lookup(r) \/ ReadFile(r) \/ Fill(r) \/ Finish(r) \/ RereadFails(r) \/ AccessFails(r)
      PROVE  Right(q)'
  <2>1. UNCHANGED <<router, file>>
    BY <1>5 DEF Lookup, ReadFile, Fill, Finish, RereadFails, AccessFails
  <2>2. \E from, to, copy : Moves(r, from, to, copy) /\ to \notin {"checked", "loaded"}
    BY <1>5 DEF Lookup, ReadFile, Fill, Finish, RereadFails, AccessFails
  <2> QED BY <1>4, <2>1, <2>2
<1>6. ASSUME NEW r \in Request, Check(r)
      PROVE  Right(q)'
  <2>1. /\ UNCHANGED <<router, file>>
        /\ Moves(r, "new", IF Permitted(r) THEN "checked" ELSE "failed", Absent)
    BY <1>6 DEF Check
  <2>2. CASE q = r
    BY <1>1, <2>1, <2>2 DEF Moves, Right, Transitions, Permitted, RequestRecord
  <2>3. CASE q # r
    BY <1>1, <2>1, <2>3 DEF Moves, Right, Transitions, RequestRecord
  <2> QED BY <2>2, <2>3
<1>7. ASSUME NEW r \in Request, Load(r)
      PROVE  Right(q)'
  <2>1. /\ UNCHANGED <<router, file>>
        /\ \/ Moves(r, "checked", "loaded", file)
           \/ req[r].kind = "create" /\ Moves(r, "new", "loaded", file)
    BY <1>7 DEF Load
  <2>2. CASE q = r
    BY <1>1, <2>1, <2>2 DEF Moves, Right, Transitions, RequestRecord
  <2>3. CASE q # r
    BY <1>1, <2>1, <2>3 DEF Moves, Right, Transitions, RequestRecord
  <2> QED BY <2>2, <2>3
<1>8. ASSUME NEW r \in Request, Store(r)
      PROVE  Right(q)'
  <2> DEFINE W == {p \in Request : req[p].at \in {"checked", "loaded"}}
  <2>1. Moves(r, "loaded", "stored", req[r].copy)
    BY <1>8 DEF Store
  <2>2. IsFiniteSet(W) /\ Cardinality(W) <= 1 /\ r \in W
    BY <2>1, RecordsAssumption, FS_Subset DEF OneWriter, Moves
  <2>3. q \in W => q = r
    BY <2>2, AtMostOne
  <2>4. req'[q].at \notin {"checked", "loaded"}
    BY <1>1, <2>1, <2>3 DEF Moves, RequestRecord
  <2> QED BY <2>4 DEF Right
<1> QED BY <1>2, <1>3, <1>5, <1>6, <1>7, <1>8 DEF RecordsNext, RequestStep

(* While writers do not overlap, a write takes nothing back and a status     *)
(* moves along STATUS_TRANSITIONS, although the request checks in one access *)
(* to the file and writes in another (update_incident_status).               *)
THEOREM WritesAreRight == RecordsSpec => WritesRightAlone
<1>1. RecordsInit => WriteInv
  <2> SUFFICES ASSUME RecordsInit PROVE \A r \in Request : Right(r)
    BY RecordsTypeStart DEF WriteInv
  <2>1. \A r \in Request : req[r].at = "new"
    BY DEF RecordsInit
  <2> QED BY <2>1 DEF Right
<1>2. WriteInv /\ OneWriter /\ [RecordsNext]_recordsVars => WriteInv'
  BY WriteStep
<1>3. WriteInv => \A r \in Request : req[r].at = "loaded" => StillRight(r)
  BY DEF WriteInv, Right, StillRight
<1> QED BY <1>1, <1>2, <1>3, PTL DEF RecordsSpec, WritesRightAlone

(***************************************************************************)
(* The accounts.                                                           *)
(***************************************************************************)
CallRecord == [kind : CallKinds, user : User, email : Email, active : BOOLEAN,
               token : Token, at : Places, copy : UsersFile \cup {Nobody}]
TwoWrites  == {"create", "delete", "reset"}

AccountsRecords ==
    /\ db \in UsersFile
    /\ call \in [Call -> CallRecord]
    /\ \A c \in Call : call[c].at \in {"second", "second loaded"} => call[c].kind \in TwoWrites

(* The four kinds of step: the file and the calls stay, but for a call that  *)
(* goes on without writing; the two writes; and a step of none.              *)
GoesOn(c) == \/ call'[c].at = call[c].at
             \/ call[c].at = "new" /\ call'[c].at = "first" /\ Passes(c)
             \/ call[c].at = "first" /\ call'[c].at = "first loaded"
             \/ call[c].at = "second" /\ call'[c].at = "second loaded"
             \/ call[c].at \in {"new", "first", "first loaded"} /\ call'[c].at = "refused"
             \/ call[c].at \in {"second", "second loaded"} /\ call'[c].at = "half"
OthersStay(c) == \A o \in Call \ {c} : call'[o].at = call[o].at
WritesFirst(c) ==
    /\ call[c].at = "first loaded" /\ db' = First(c, db) /\ OthersStay(c)
    /\ call'[c].at = IF call[c].kind \in TwoWrites THEN "second" ELSE "done"
WritesSecond(c) ==
    /\ call[c].at = "second loaded" /\ db' = Second(c, db) /\ OthersStay(c)
    /\ call'[c].at = "done"
Asks == /\ \A c \in Call : /\ call'[c].kind = call[c].kind /\ call'[c].user = call[c].user
                           /\ call'[c].email = call[c].email
                           /\ call'[c].token = call[c].token

(* Moving one call leaves the others and what was asked alone.               *)
LEMMA CallGoesFacts ==
  ASSUME AccountsRecords, NEW c \in Call, NEW to \in Places, NEW copy \in UsersFile \cup {Nobody},
         call' = [call EXCEPT ![c].at = to, ![c].copy = copy]
  PROVE  call' \in [Call -> CallRecord] /\ call'[c].at = to /\ OthersStay(c) /\ Asks
<1> DEFINE x == [call[c] EXCEPT !.at = to, !.copy = copy]
<1>1. call \in [Call -> CallRecord]
  BY DEF AccountsRecords
<1>2. /\ x \in CallRecord /\ x.at = to /\ x.kind = call[c].kind /\ x.user = call[c].user
      /\ x.email = call[c].email /\ x.token = call[c].token
  BY <1>1 DEF CallRecord
<1>3. call' = [call EXCEPT ![c] = x]
  OBVIOUS
<1> HIDE DEF x
<1> QED BY <1>1, <1>2, <1>3 DEF OthersStay, Asks

(* A step either moves calls without writing, or is the first or second      *)
(* write of one call, made on the file as it is.                             *)
LEMMA AccountsSteps ==
  ASSUME AccountsRecords, NothingLost, [AccountsNext]_accountsVars
  PROVE  /\ call' \in [Call -> CallRecord] /\ Asks
         /\ \/ db' = db /\ \A c \in Call : GoesOn(c)
            \/ \E c \in Call : WritesFirst(c) \/ WritesSecond(c)
<1> DEFINE Step == /\ call' \in [Call -> CallRecord] /\ Asks
                   /\ \/ db' = db /\ \A c \in Call : GoesOn(c)
                      \/ \E c \in Call : WritesFirst(c) \/ WritesSecond(c)
<1> SUFFICES Step
  OBVIOUS
<1>1. CASE UNCHANGED <<db, call>>
  BY <1>1 DEF AccountsRecords, GoesOn, Asks
<1>2. ASSUME NEW c \in Call, Begin(c)
      PROVE  Step
  <2>1. /\ call' = [call EXCEPT ![c].at = IF Passes(c) THEN "first" ELSE "refused",
                                ![c].copy = Nobody]
        /\ call[c].at = "new" /\ db' = db
    BY <1>2 DEF Begin, CallGoes
  <2>2. (IF Passes(c) THEN "first" ELSE "refused") \in Places
    BY DEF Places, Ended
  <2> QED BY <2>1, <2>2, CallGoesFacts, ZenonT(60) DEF GoesOn, OthersStay
<1>3. ASSUME NEW c \in Call, LoadFile(c)
      PROVE  Step
  <2>1. PICK to \in Places : /\ call' = [call EXCEPT ![c].at = to, ![c].copy = db]
                             /\ call[c].at = "first" => to = "first loaded"
                             /\ call[c].at = "second" => to = "second loaded"
    BY <1>3 DEF LoadFile, Places, Loaded, AccountsRecords, CallRecord
  <2>2. db \in UsersFile \cup {Nobody}
    BY DEF AccountsRecords
  <2>3. /\ call' \in [Call -> CallRecord] /\ call'[c].at = to /\ OthersStay(c) /\ Asks
        /\ call[c].at \in {"first", "second"} /\ db' = db
    BY <1>3, <2>1, <2>2, CallGoesFacts DEF LoadFile
  <2>4. \A o \in Call : GoesOn(o)
    BY <2>1, <2>3 DEF GoesOn, OthersStay
  <2> QED BY <2>3, <2>4
<1>4. ASSUME NEW c \in Call, StoreFirst(c)
      PROVE  Step
  <2>1. /\ call' = [call EXCEPT ![c].at = IF call[c].kind \in TwoWrites THEN "second" ELSE "done",
                                ![c].copy = Nobody]
        /\ call[c].at = "first loaded" /\ db' = First(c, db)
    BY <1>4 DEF StoreFirst, CallGoes, TwoWrites, NothingLost, Loaded
  <2>2. (IF call[c].kind \in TwoWrites THEN "second" ELSE "done") \in Places
    BY DEF Places, Ended
  <2> QED BY <2>1, <2>2, CallGoesFacts DEF WritesFirst
<1>5. ASSUME NEW c \in Call, StoreSecond(c)
      PROVE  Step
  <2>1. /\ call' = [call EXCEPT ![c].at = "done", ![c].copy = Nobody]
        /\ call[c].at = "second loaded" /\ db' = Second(c, db)
    BY <1>5 DEF StoreSecond, CallGoes, NothingLost, Loaded
  <2> QED BY <2>1, CallGoesFacts DEF WritesSecond, Places, Ended
<1>6. ASSUME NEW c \in Call, CallFails(c)
      PROVE  Step
  <2>1. PICK to \in {"refused", "half"} :
          /\ call' = [call EXCEPT ![c].at = to, ![c].copy = Nobody] /\ db' = db
          /\ to = "refused" => call[c].at \in {"new", "first", "first loaded"}
          /\ to = "half" => call[c].at \in {"second", "second loaded"}
    BY <1>6 DEF CallFails, CallGoes
  <2> QED BY <2>1, CallGoesFacts DEF GoesOn, OthersStay, Places, Ended
<1> HIDE DEF Step
<1>7. ASSUME NEW t \in Token, TokenExpires(t)
      PROVE  Step
  BY <1>1, <1>7 DEF TokenExpires
<1>8. CASE UNCHANGED accountsVars
  BY <1>1, <1>8 DEF accountsVars
<1> QED
  BY <1>2, <1>3, <1>4, <1>5, <1>6, <1>7, <1>8 DEF AccountsNext

(* What the two writes change.                                               *)
LEMMA FirstFacts ==
  ASSUME AccountsRecords, NEW c \in Call, db' = First(c, db)
  PROVE  /\ db' \in UsersFile /\ db'.profiles = db.profiles
         /\ \A v \in User : v # call[c].user => db'.users[v] = db.users[v]
         /\ \A t \in Token : t # call[c].token => db'.tokens[t] = db.tokens[t]
         /\ call[c].kind = "create" => db'.users[call[c].user].email = call[c].email
         /\ call[c].kind = "create" => db'.users[call[c].user] # NoUser
         /\ call[c].kind = "update" =>
               \/ db'.users = db.users
               \/ /\ db.users[call[c].user] # NoUser /\ db'.users[call[c].user] # NoUser
                  /\ db'.users[call[c].user].email = call[c].email
         /\ call[c].kind = "delete" => db'.users[call[c].user] = NoUser
         /\ call[c].kind \in {"forgot", "reset", "profile"} => db'.users = db.users
         /\ call[c].kind = "forgot" => /\ db'.tokens[call[c].token] # NoToken
                                       /\ ~db'.tokens[call[c].token].used
         /\ call[c].kind # "forgot" => db'.tokens = db.tokens
<1> DEFINE u == call[c].user
           t == call[c].token
           row == [email |-> call[c].email, active |-> TRUE]
           new == [email |-> call[c].email, active |-> call[c].active]
           tok == [of |-> u, used |-> FALSE]
<1>1. /\ u \in User /\ t \in Token /\ row \in UserRow /\ new \in UserRow /\ tok \in TokenRow
      /\ row.email = call[c].email /\ new.email = call[c].email /\ ~tok.used
      /\ row # NoUser /\ new # NoUser /\ tok # NoToken
      /\ call[c].kind \in CallKinds
  BY DEF AccountsRecords, CallRecord, UserRow, TokenRow, NoUser, NoToken
<1>2. /\ db.users \in [User -> UserRow \cup {NoUser}] /\ db.profiles \in SUBSET User
      /\ db.tokens \in [Token -> TokenRow \cup {NoToken}]
      /\ db = [users |-> db.users, profiles |-> db.profiles, tokens |-> db.tokens]
  BY DEF AccountsRecords, UsersFile
<1>3. /\ call[c].kind = "create" => db' = [db EXCEPT !.users[u] = row]
      /\ call[c].kind = "update" => \/ db' = db
                                    \/ db.users[u] # NoUser /\ db' = [db EXCEPT !.users[u] = new]
      /\ call[c].kind = "delete" => db' = [db EXCEPT !.users[u] = NoUser]
      /\ call[c].kind = "forgot" => db' = [db EXCEPT !.tokens[t] = tok]
      /\ call[c].kind \in {"reset", "profile"} => db' = db
  BY <1>1 DEF First, CallKinds
<1> HIDE DEF row, new, tok
<1>4. CASE call[c].kind = "create"
  BY <1>1, <1>2, <1>3, <1>4 DEF UsersFile
<1>5. CASE call[c].kind = "update"
  BY <1>1, <1>2, <1>3, <1>5 DEF UsersFile
<1>6. CASE call[c].kind = "delete"
  BY <1>1, <1>2, <1>3, <1>6 DEF UsersFile
<1>7. CASE call[c].kind = "forgot"
  BY <1>1, <1>2, <1>3, <1>7 DEF UsersFile
<1>8. CASE call[c].kind \in {"reset", "profile"}
  BY <1>1, <1>2, <1>3, <1>8 DEF UsersFile
<1> QED BY <1>1, <1>4, <1>5, <1>6, <1>7, <1>8 DEF CallKinds

(* What the second write of a call changes, and what it leaves alone.        *)
LEMMA SecondFacts ==
  ASSUME AccountsRecords, NEW c \in Call, db' = Second(c, db), call[c].kind \in TwoWrites,
         call[c].kind = "reset" => db.tokens[call[c].token] # NoToken
  PROVE  /\ db' \in UsersFile /\ db'.users = db.users
         /\ \A v \in User : v # call[c].user => (v \in db'.profiles <=> v \in db.profiles)
         /\ \A t \in Token : t # call[c].token => db'.tokens[t] = db.tokens[t]
         /\ call[c].kind = "create" => call[c].user \in db'.profiles
         /\ call[c].kind = "delete" => call[c].user \notin db'.profiles
         /\ call[c].kind = "reset" => /\ db'.profiles = db.profiles
                                      /\ db'.tokens[call[c].token] # NoToken
                                      /\ db'.tokens[call[c].token].used
         /\ call[c].kind # "reset" => db'.tokens = db.tokens
<1> DEFINE u == call[c].user
           t == call[c].token
           tok == [db.tokens[t] EXCEPT !.used = TRUE]
<1>1. u \in User /\ t \in Token
  BY DEF AccountsRecords, CallRecord
<1>2. /\ db.users \in [User -> UserRow \cup {NoUser}] /\ db.profiles \in SUBSET User
      /\ db.tokens \in [Token -> TokenRow \cup {NoToken}]
      /\ db = [users |-> db.users, profiles |-> db.profiles, tokens |-> db.tokens]
  BY DEF AccountsRecords, UsersFile
<1>3. CASE call[c].kind = "create"
  BY <1>1, <1>2, <1>3 DEF Second, UsersFile
<1>4. CASE call[c].kind = "delete"
  BY <1>1, <1>2, <1>4 DEF Second, UsersFile
<1>5. CASE call[c].kind = "reset"
  <2>1. tok \in TokenRow /\ tok.used /\ tok # NoToken
    BY <1>1, <1>2, <1>5 DEF TokenRow, NoToken
  <2>2. db' = [db EXCEPT !.tokens[t] = tok]
    BY <1>5 DEF Second
  <2> HIDE DEF tok
  <2> QED BY <1>1, <1>2, <1>5, <2>1, <2>2 DEF UsersFile
<1> QED BY <1>3, <1>4, <1>5 DEF TwoWrites

(* A token that is being reset exists.                                       *)
Resettable == \A c \in Call :
    call[c].kind = "reset" /\ call[c].at \in {"first", "first loaded", "second", "second loaded"}
        => db.tokens[call[c].token] # NoToken
AccountsInv == AccountsRecords /\ Resettable

(* The types, and the token of a reset under way, survive every step.        *)
LEMMA AccountsInvStep ==
  ASSUME AccountsInv, NothingLost, [AccountsNext]_accountsVars
  PROVE  AccountsInv'
<1>1. /\ AccountsRecords /\ Resettable /\ Asks /\ call' \in [Call -> CallRecord]
      /\ \/ db' = db /\ \A c \in Call : GoesOn(c)
         \/ \E c \in Call : WritesFirst(c) \/ WritesSecond(c)
  BY AccountsSteps DEF AccountsInv
<1>2. CASE db' = db /\ \A c \in Call : GoesOn(c)
  <2>1. AccountsRecords'
    BY <1>1, <1>2 DEF AccountsRecords, Asks, GoesOn
  <2>2. \A c \in Call : call[c].kind = "reset" /\ Passes(c) => db.tokens[call[c].token] # NoToken
    BY DEF Passes, Valid
  <2>3. Resettable'
    BY <1>1, <1>2, <2>2 DEF Resettable, Asks, GoesOn
  <2> QED BY <2>1, <2>3 DEF AccountsInv
<1>3. ASSUME NEW c \in Call, WritesFirst(c)
      PROVE  AccountsInv'
  <2>1. AccountsRecords'
    BY <1>1, <1>3, FirstFacts, ZenonT(60) DEF AccountsRecords, Asks, WritesFirst, OthersStay
  <2>2. \A t \in Token : db.tokens[t] # NoToken => db'.tokens[t] # NoToken
    BY <1>1, <1>3, FirstFacts DEF WritesFirst, AccountsRecords, CallRecord
  <2>3. \A o \in Call : call[o].token \in Token
    BY <1>1 DEF AccountsRecords, CallRecord
  <2>4. Resettable'
    BY <1>1, <1>3, <2>2, <2>3, ZenonT(60) DEF Resettable, Asks, WritesFirst, OthersStay
  <2> QED BY <2>1, <2>4 DEF AccountsInv
<1>4. ASSUME NEW c \in Call, WritesSecond(c)
      PROVE  AccountsInv'
  <2>1. /\ call[c].kind \in TwoWrites
        /\ call[c].kind = "reset" => db.tokens[call[c].token] # NoToken
    BY <1>1, <1>4 DEF AccountsRecords, Resettable, WritesSecond
  <2>2. AccountsRecords'
    BY <1>1, <1>4, <2>1, SecondFacts DEF AccountsRecords, Asks, WritesSecond, OthersStay
  <2>3. \A t \in Token : db.tokens[t] # NoToken => db'.tokens[t] # NoToken
    BY <1>1, <1>4, <2>1, SecondFacts DEF WritesSecond, AccountsRecords, CallRecord
  <2>4. \A o \in Call : call[o].token \in Token
    BY <1>1 DEF AccountsRecords, CallRecord
  <2>5. Resettable'
    BY <1>1, <1>4, <2>3, <2>4, ZenonT(60) DEF Resettable, Asks, WritesSecond, OthersStay
  <2> QED BY <2>2, <2>5 DEF AccountsInv
<1> QED BY <1>1, <1>2, <1>3, <1>4

(* Nothing is under way at the start.                                        *)
LEMMA AccountsInvStart == AccountsInit => AccountsInv
<1> SUFFICES ASSUME AccountsInit PROVE AccountsInv
  OBVIOUS
<1>1. PICK there \in SUBSET User, mail \in [User -> Email], sent \in SUBSET Token :
        /\ \A u, v \in there : mail[u] = mail[v] => u = v
        /\ there = {} => sent = {}
        /\ db = [users    |-> [u \in User |-> IF u \in there
                                 THEN [email |-> mail[u], active |-> TRUE] ELSE NoUser],
                 profiles |-> there,
                 tokens   |-> [t \in Token |-> IF t \in sent
                                 THEN [of |-> CHOOSE u \in there : TRUE, used |-> FALSE]
                                 ELSE NoToken]]
  BY DEF AccountsInit
<1>2. sent # {} => (CHOOSE u \in there : TRUE) \in User
  BY <1>1
<1>3. db \in UsersFile
  BY <1>1, <1>2 DEF UsersFile, UserRow, TokenRow
<1>4. call \in [Call -> CallRecord] /\ \A c \in Call : call[c].at = "new"
  BY DEF AccountsInit, CallRecord, Places
<1> QED BY <1>3, <1>4 DEF AccountsInv, AccountsRecords, Resettable

(* Two calls of the given kinds that are under way are one.                  *)
LEMMA OneBetween ==
  ASSUME NEW kinds, Cardinality(Between(kinds)) <= 1,
         NEW a \in Between(kinds), NEW b \in Between(kinds)
  PROVE  a = b
<1>1. IsFiniteSet(Between(kinds))
  BY AccountsAssumption, FS_Subset DEF Between
<1> QED BY <1>1, AtMostOne

(* Users with one address are one user, and an address that a call has found *)
(* free is free until it writes.                                             *)
Unique == \A u, v \in User :
    db.users[u] # NoUser /\ db.users[v] # NoUser /\ db.users[u].email = db.users[v].email
        => u = v
FoundFree(c) == call[c].kind \in {"create", "update"} /\ call[c].at \in {"first", "first loaded"}
                    => EmailFree(c)
EmailInv == AccountsInv /\ Unique /\ \A c \in Call : FoundFree(c)

(* While addresses are claimed one at a time, one found free is free when it *)
(* is written.                                                               *)
LEMMA EmailStep ==
  ASSUME EmailInv, NothingLost, Cardinality(Between({"create", "update"})) <= 1,
         [AccountsNext]_accountsVars
  PROVE  EmailInv'
<1>1. /\ AccountsRecords /\ Unique /\ \A c \in Call : FoundFree(c)
      /\ AccountsInv' /\ Asks
      /\ \/ db' = db /\ \A c \in Call : GoesOn(c)
         \/ \E c \in Call : WritesFirst(c) \/ WritesSecond(c)
  BY AccountsSteps, AccountsInvStep DEF EmailInv, AccountsInv
<1>2. ASSUME db'.users = db.users, NEW c \in Call, EmailFree(c)
      PROVE  EmailFree(c)'
  BY <1>1, <1>2 DEF EmailFree, Holder, Asks
<1>3. CASE db' = db /\ \A c \in Call : GoesOn(c)
  <2>1. \A c \in Call : call[c].kind \in {"create", "update"} /\ Passes(c) => EmailFree(c)
    BY DEF Passes
  <2>2. \A c \in Call : FoundFree(c)'
    BY <1>1, <1>2, <1>3, <2>1 DEF FoundFree, GoesOn, Asks
  <2> QED BY <1>1, <1>3, <2>2 DEF EmailInv, Unique
<1>4. ASSUME NEW c \in Call, WritesSecond(c)
      PROVE  EmailInv'
  <2>1. db'.users = db.users
    BY <1>4, SecondFacts DEF EmailInv, AccountsInv, AccountsRecords, Resettable, WritesSecond
  <2>2. \A o \in Call : FoundFree(o)'
    BY <1>1, <1>2, <1>4, <2>1 DEF FoundFree, WritesSecond, OthersStay, Asks
  <2> QED BY <1>1, <2>1, <2>2 DEF EmailInv, Unique
<1>5. ASSUME NEW c \in Call, WritesFirst(c)
      PROVE  EmailInv'
  <2>1. /\ call[c].at = "first loaded" /\ db' = First(c, db) /\ call'[c].at \in {"second", "done"}
        /\ \A o \in Call \ {c} : call'[o].at = call[o].at
        /\ call[c].kind \in CallKinds /\ call[c].user \in User
    BY <1>1, <1>5 DEF WritesFirst, OthersStay, AccountsRecords, CallRecord
  <2>2. CASE call[c].kind \in {"create", "update"}
    <3>1. c \in Between({"create", "update"})
      BY <2>1, <2>2 DEF Between, Ended
    <3>2. ASSUME NEW o \in Call, o # c, call[o].kind \in {"create", "update"},
                 call[o].at \in {"first", "first loaded"}
          PROVE  FALSE
      <4>1. o \in Between({"create", "update"})
        BY <3>2 DEF Between, Ended
      <4> QED BY <3>1, <3>2, <4>1, OneBetween
    <3>3. \A o \in Call : FoundFree(o)'
      BY <1>1, <2>1, <3>2 DEF FoundFree, Asks
    <3>4. EmailFree(c)
      BY <1>1, <2>1, <2>2 DEF FoundFree
    <3>5. \A v \in User : v # call[c].user => /\ db'.users[v] = db.users[v]
                                              /\ db.users[v].email # call[c].email
      BY <1>1, <2>1, <3>4, FirstFacts DEF EmailFree, Holder
    <3>6. \/ db'.users = db.users
          \/ db'.users[call[c].user].email = call[c].email
      BY <1>1, <2>1, <2>2, FirstFacts
    <3>7. Unique'
      <4>1. CASE db'.users = db.users
        BY <1>1, <4>1 DEF Unique
      <4>2. CASE db'.users[call[c].user].email = call[c].email
        <5> SUFFICES ASSUME NEW u \in User, NEW v \in User, db'.users[u] # NoUser,
                            db'.users[v] # NoUser, db'.users[u].email = db'.users[v].email
                     PROVE  u = v
          BY DEF Unique
        <5>1. CASE u # call[c].user /\ v # call[c].user
          BY <1>1, <3>5, <5>1 DEF Unique
        <5>2. CASE u = call[c].user \/ v = call[c].user
          BY <3>5, <4>2, <5>2
        <5> QED BY <5>1, <5>2
      <4> QED BY <3>6, <4>1, <4>2
    <3> QED BY <1>1, <3>3, <3>7 DEF EmailInv
  <2>3. CASE call[c].kind = "delete"
    <3>1. \A v \in User : db'.users[v] = IF v = call[c].user THEN NoUser ELSE db.users[v]
      BY <1>1, <2>1, <2>3, FirstFacts
    <3>2. Unique'
      BY <1>1, <3>1 DEF Unique
    <3>3. \A o \in Call : call[o].email # Nobody /\ NoUser.email = Nobody
      BY <1>1, AccountsAssumption DEF AccountsRecords, CallRecord, NoUser
    <3>4. \A o \in Call : EmailFree(o) => EmailFree(o)'
      BY <1>1, <3>1, <3>3 DEF EmailFree, Holder, Asks
    <3>5. \A o \in Call : FoundFree(o)'
      BY <1>1, <2>1, <2>3, <3>4 DEF FoundFree, Asks
    <3> QED BY <1>1, <3>2, <3>5 DEF EmailInv
  <2>4. CASE call[c].kind \in {"forgot", "reset", "profile"}
    <3>1. db'.users = db.users
      BY <1>1, <2>1, <2>4, FirstFacts
    <3>2. \A o \in Call : FoundFree(o)'
      BY <1>1, <1>2, <2>1, <3>1 DEF FoundFree, Asks
    <3> QED BY <1>1, <3>1, <3>2 DEF EmailInv, Unique
  <2> QED BY <2>1, <2>2, <2>3, <2>4 DEF CallKinds
<1> QED BY <1>1, <1>3, <1>4, <1>5

(* While no two calls that look for an address overlap and no write is lost, *)
(* an address belongs to one user (get_user_record_by_email before insert).  *)
THEOREM AddressesAreUnique == AccountsSpec => EmailsUniqueAlone
<1>1. AccountsInit => EmailInv
  <2> SUFFICES ASSUME AccountsInit PROVE Unique /\ \A c \in Call : FoundFree(c)
    BY AccountsInvStart DEF EmailInv
  <2>1. Unique
    BY DEF AccountsInit, Unique
  <2>2. \A c \in Call : call[c].at = "new"
    BY DEF AccountsInit
  <2> QED BY <2>1, <2>2 DEF FoundFree
<1>2. EmailInv /\ NothingLost /\ Cardinality(Between({"create", "update"})) <= 1
         /\ [AccountsNext]_accountsVars => EmailInv'
  BY EmailStep
<1>3. EmailInv => EmailsUnique
  <2> SUFFICES ASSUME EmailInv, NEW e \in Email
               PROVE  Cardinality(Holder(db, e)) <= 1
    BY DEF EmailsUnique
  <2>1. \A u \in Holder(db, e) : db.users[u] # NoUser
    BY AccountsAssumption DEF Holder, NoUser
  <2>2. \A u, v \in Holder(db, e) : u = v
    BY <2>1 DEF EmailInv, Unique, Holder
  <2>3. CASE Holder(db, e) = {}
    BY <2>3, FS_EmptySet
  <2>4. ASSUME NEW u \in Holder(db, e)
        PROVE  Cardinality(Holder(db, e)) <= 1
    <3>1. Holder(db, e) = {u}
      BY <2>2, <2>4
    <3>2. Cardinality({u}) = 1
      BY FS_Singleton
    <3> QED BY <3>1, <3>2
  <2> QED BY <2>3, <2>4
<1> QED BY <1>1, <1>2, <1>3, PTL DEF AccountsSpec, EmailsUniqueAlone

(* Where a user and a profile part, a creation or a deletion is between its  *)
(* two writes; and the first of the two is still there.                      *)
Half(c, u)   == /\ call[c].user = u /\ call[c].at \in HalfDone
                /\ call[c].kind \in {"create", "delete"}
PairedFor(u) == (Exists(u) <=> u \in db.profiles) \/ \E c \in Call : Half(c, u)
FirstHolds(c) == call[c].at \in {"second", "second loaded"} =>
                    /\ call[c].kind = "create" => Exists(call[c].user)
                    /\ call[c].kind = "delete" => ~Exists(call[c].user)
PairInv == /\ AccountsInv
           /\ \A u \in User : PairedFor(u)
           /\ \A c \in Call : FirstHolds(c)

(* The first half of a call holds as long as nobody touches its user.        *)
LEMMA HoldsKept ==
  ASSUME NEW c \in Call, FirstHolds(c), Asks,
         db'.users[call[c].user] = db.users[call[c].user],
         call'[c].at \in {"second", "second loaded"} => call[c].at \in {"second", "second loaded"}
  PROVE  FirstHolds(c)'
BY DEF FirstHolds, Asks, Exists

(* While each user has one call at a time, a user without profile has a call *)
(* half done.                                                                *)
LEMMA PairStep ==
  ASSUME PairInv, NothingLost, OnePerUser, [AccountsNext]_accountsVars
  PROVE  PairInv'
<1>1. /\ AccountsRecords /\ AccountsInv' /\ Asks
      /\ \A u \in User : PairedFor(u)
      /\ \A c \in Call : FirstHolds(c)
      /\ \A c \in Call : call[c].user \in User /\ call[c].kind \in CallKinds
      /\ \/ db' = db /\ \A c \in Call : GoesOn(c)
         \/ \E c \in Call : WritesFirst(c) \/ WritesSecond(c)
  BY AccountsSteps, AccountsInvStep DEF PairInv, AccountsInv, AccountsRecords, CallRecord
<1>2. CASE db' = db /\ \A c \in Call : GoesOn(c)
  <2>1. \A u \in User, c \in Call : Half(c, u) => Half(c, u)'
    BY <1>1, <1>2 DEF Half, GoesOn, Asks, HalfDone
  <2>2. \A u \in User : PairedFor(u)'
    BY <1>1, <1>2, <2>1 DEF PairedFor, Exists
  <2>3. \A c \in Call : FirstHolds(c)'
    BY <1>1, <1>2 DEF FirstHolds, GoesOn, Asks, Exists
  <2> QED BY <1>1, <2>2, <2>3 DEF PairInv
<1>3. ASSUME NEW c \in Call, WritesSecond(c)
      PROVE  PairInv'
  <2>1. /\ call[c].at = "second loaded" /\ call'[c].at = "done" /\ db'.users = db.users
        /\ \A o \in Call \ {c} : call'[o].at = call[o].at
        /\ \A v \in User : v # call[c].user => (v \in db'.profiles <=> v \in db.profiles)
        /\ call[c].kind = "create" => call[c].user \in db'.profiles
        /\ call[c].kind = "delete" => call[c].user \notin db'.profiles
        /\ call[c].kind = "reset" => db'.profiles = db.profiles
        /\ call[c].kind \in TwoWrites
    BY <1>3, SecondFacts
       DEF PairInv, AccountsInv, AccountsRecords, Resettable, WritesSecond, OthersStay
  <2>2. \A u \in User, o \in Call \ {c} : Half(o, u) => Half(o, u)'
    BY <1>1, <2>1 DEF Half, Asks
  <2>3. ASSUME NEW u \in User
        PROVE  PairedFor(u)'
    <3>1. CASE Half(c, u)
      <4>1. FirstHolds(c) /\ call[c].user = u /\ call[c].kind \in {"create", "delete"}
        BY <1>1, <3>1 DEF Half
      <4>2. CASE call[c].kind = "create"
        BY <2>1, <4>1, <4>2 DEF PairedFor, FirstHolds, Exists
      <4>3. CASE call[c].kind = "delete"
        BY <2>1, <4>1, <4>3 DEF PairedFor, FirstHolds, Exists
      <4> QED BY <4>1, <4>2, <4>3
    <3>2. CASE ~Half(c, u)
      <4>1. call[c].kind \in {"create", "delete"} => call[c].user # u
        BY <2>1, <3>2 DEF Half, HalfDone
      <4>2. u \in db'.profiles <=> u \in db.profiles
        BY <2>1, <4>1 DEF TwoWrites
      <4>3. Exists(u)' <=> Exists(u)
        BY <2>1 DEF Exists
      <4> QED BY <1>1, <2>2, <3>2, <4>2, <4>3 DEF PairedFor
    <3> QED BY <3>1, <3>2
  <2>4. \A o \in Call : FirstHolds(o)'
    BY <1>1, <2>1 DEF FirstHolds, Asks, Exists
  <2> QED BY <1>1, <2>3, <2>4 DEF PairInv
<1>4. ASSUME NEW c \in Call, WritesFirst(c)
      PROVE  PairInv'
  <2>1. /\ call[c].at = "first loaded" /\ db' = First(c, db)
        /\ call'[c].at = IF call[c].kind \in TwoWrites THEN "second" ELSE "done"
        /\ \A o \in Call \ {c} : call'[o].at = call[o].at
        /\ db'.profiles = db.profiles
        /\ \A v \in User : v # call[c].user => db'.users[v] = db.users[v]
        /\ call[c].kind = "create" => Exists(call[c].user)'
        /\ call[c].kind = "delete" => ~Exists(call[c].user)'
        /\ call[c].kind \notin {"create", "delete"} =>
              (Exists(call[c].user) <=> Exists(call[c].user)')
    BY <1>1, <1>4, FirstFacts, ZenonT(60) DEF WritesFirst, OthersStay, Exists, CallKinds, Asks
  <2>2. \A u \in User, o \in Call : Half(o, u) => Half(o, u)'
    BY <1>1, <2>1 DEF Half, Asks, HalfDone
  <2>3. ASSUME NEW u \in User
        PROVE  PairedFor(u)'
    <3>1. CASE call[c].kind \in {"create", "delete"} /\ u = call[c].user
      <4>1. Half(c, u)'
        BY <1>1, <2>1, <3>1 DEF Half, Asks, HalfDone, TwoWrites
      <4> QED BY <4>1 DEF PairedFor
    <3>2. CASE ~(call[c].kind \in {"create", "delete"} /\ u = call[c].user)
      <4>1. Exists(u) <=> Exists(u)'
        BY <1>1, <2>1, <3>2 DEF Exists, Asks
      <4> QED BY <1>1, <2>1, <2>2, <4>1 DEF PairedFor
    <3> QED BY <3>1, <3>2
  <2>4. ASSUME NEW o \in Call
        PROVE  FirstHolds(o)'
    <3>1. CASE o = c
      BY <2>1, <3>1, <1>1 DEF FirstHolds, Asks
    <3>2. CASE o # c /\ call[o].user # call[c].user
      BY <1>1, <2>1, <3>2, HoldsKept
    <3>3. CASE o # c /\ call[o].user = call[c].user /\ call[c].kind \notin {"create", "delete"}
      BY <1>1, <2>1, <3>3, ZenonT(60) DEF FirstHolds, Asks, Exists
    <3>4. CASE /\ o # c /\ call[o].user = call[c].user /\ call[c].kind \in {"create", "delete"}
               /\ call[o].kind \in {"create", "delete"}
      <4> DEFINE B == {x \in Between({"create", "delete"}) : call[x].user = call[c].user}
      <4>1. CASE call[o].at \in {"second", "second loaded"}
        <5>1. o \in B /\ c \in B
          BY <2>1, <3>4, <4>1 DEF Between, Ended
        <5>2. IsFiniteSet(B) /\ Cardinality(B) <= 1
          BY <1>1, AccountsAssumption, FS_Subset DEF Between, OnePerUser
        <5> QED BY <3>4, <5>1, <5>2, AtMostOne
      <4>2. CASE call[o].at \notin {"second", "second loaded"}
        BY <2>1, <3>4, <4>2 DEF FirstHolds
      <4> QED BY <4>1, <4>2
    <3>5. CASE call[o].kind \notin {"create", "delete"}
      BY <1>1, <3>5 DEF FirstHolds, Asks
    <3> QED BY <3>1, <3>2, <3>3, <3>4, <3>5
  <2> QED BY <1>1, <2>3, <2>4 DEF PairInv
<1> QED BY <1>1, <1>2, <1>3, <1>4

(* Where a user is without a profile or a profile without its user, a call   *)
(* that creates or deletes is half done, unless calls on one user overlap    *)
(* (create_user, delete_my_account).                                         *)
THEOREM UsersHaveProfiles == AccountsSpec => PairedUnlessLost
<1>1. AccountsInit => PairInv
  <2> SUFFICES ASSUME AccountsInit
               PROVE  (\A u \in User : PairedFor(u)) /\ (\A c \in Call : FirstHolds(c))
    BY AccountsInvStart DEF PairInv
  <2>1. \A u \in User : Exists(u) <=> u \in db.profiles
    <3>1. PICK there \in SUBSET User, mail \in [User -> Email], sent \in SUBSET Token :
            /\ \A u, v \in there : mail[u] = mail[v] => u = v
            /\ there = {} => sent = {}
            /\ db = [users    |-> [u \in User |-> IF u \in there
                                     THEN [email |-> mail[u], active |-> TRUE] ELSE NoUser],
                     profiles |-> there,
                     tokens   |-> [t \in Token |-> IF t \in sent
                                     THEN [of |-> CHOOSE u \in there : TRUE, used |-> FALSE]
                                     ELSE NoToken]]
      BY DEF AccountsInit
    <3>2. \A u \in User : [email |-> mail[u], active |-> TRUE] # NoUser
      BY DEF NoUser
    <3> QED BY <3>1, <3>2 DEF Exists
  <2>2. \A c \in Call : call[c].at = "new"
    BY DEF AccountsInit
  <2> QED BY <2>1, <2>2 DEF PairedFor, FirstHolds
<1>2. PairInv /\ NothingLost /\ OnePerUser /\ [AccountsNext]_accountsVars => PairInv'
  BY PairStep
<1>3. PairInv => Paired
  BY DEF PairInv, PairedFor, Half, Paired
<1> QED BY <1>1, <1>2, <1>3, PTL DEF AccountsSpec, PairedUnlessLost

(* A token that has reset a password is marked, one that is about to reset it*)
(* is not, and one that is about to be sent does not exist; and of the resets*)
(* of a token at most one is done.                                           *)
Sending == {"first", "first loaded"}
TokenRight(c) ==
    LET t == call[c].token IN
    /\ call[c].kind = "forgot" /\ call[c].at \in Sending => db.tokens[t] = NoToken
    /\ call[c].kind = "reset" /\ call[c].at \in Sending \cup {"second", "second loaded"} =>
          ~db.tokens[t].used
    /\ call[c].kind = "reset" /\ call[c].at = "done" =>
          db.tokens[t] # NoToken /\ db.tokens[t].used
Apart(c, o) ==
    /\ call[c].kind = "forgot" /\ call[o].kind = "forgot" => call[c].token # call[o].token
    /\ call[c].kind = "reset" /\ call[o].kind = "reset"
         /\ call[c].at = "done" /\ call[o].at = "done" => call[c].token # call[o].token
TokenInv == /\ AccountsInv
            /\ \A c \in Call : TokenRight(c)
            /\ \A c, o \in Call : c # o => Apart(c, o)

(* What is known of a token holds as long as nobody writes it.               *)
LEMMA TokenKept ==
  ASSUME NEW c \in Call, TokenRight(c), Asks,
         db'.tokens[call[c].token] = db.tokens[call[c].token],
         call'[c].at \in Sending => call[c].at \in Sending,
         call'[c].at \in {"second", "second loaded"} =>
             call[c].at \in Sending \cup {"second", "second loaded"},
         call[c].kind = "reset" /\ call'[c].at = "done" => call[c].at = "done"
  PROVE  TokenRight(c)'
BY DEF TokenRight, Asks

(* Two calls that do not conflict never come to conflict.                    *)
LEMMA ApartKept ==
  ASSUME NEW c \in Call, NEW o \in Call, Apart(c, o), Asks,
         call[c].kind = "reset" /\ call'[c].at = "done" => call[c].at = "done",
         call[o].kind = "reset" /\ call'[o].at = "done" => call[o].at = "done"
  PROVE  Apart(c, o)'
BY DEF Apart, Asks

(* While resets come one at a time, a token found unused is unused when the  *)
(* password changes.                                                         *)
LEMMA TokenStep ==
  ASSUME TokenInv, NothingLost, OneReset, [AccountsNext]_accountsVars
  PROVE  TokenInv'
<1>1. /\ AccountsRecords /\ Resettable /\ AccountsInv' /\ Asks
      /\ \A c \in Call : TokenRight(c)
      /\ \A c, o \in Call : c # o => Apart(c, o)
      /\ \A c \in Call : call[c].token \in Token /\ call[c].kind \in CallKinds
      /\ \/ db' = db /\ \A c \in Call : GoesOn(c)
         \/ \E c \in Call : WritesFirst(c) \/ WritesSecond(c)
  BY AccountsSteps, AccountsInvStep DEF TokenInv, AccountsInv, AccountsRecords, CallRecord
<1>2. CASE db' = db /\ \A c \in Call : GoesOn(c)
  <2>1. \A c \in Call : call[c].kind = "forgot" /\ Passes(c) => db.tokens[call[c].token] = NoToken
    BY DEF Passes
  <2>2. \A c \in Call : call[c].kind = "reset" /\ Passes(c) => ~db.tokens[call[c].token].used
    BY DEF Passes, Valid
  <2>3. \A c \in Call : TokenRight(c)'
    BY <1>1, <1>2, <2>1, <2>2, ZenonT(60) DEF TokenRight, GoesOn, Asks, Sending
  <2>4. \A c, o \in Call : c # o => Apart(c, o)'
    BY <1>1, <1>2, ApartKept, ZenonT(60) DEF GoesOn
  <2> QED BY <1>1, <2>3, <2>4 DEF TokenInv
<1>3. ASSUME NEW c \in Call, WritesFirst(c)
      PROVE  TokenInv'
  <2>1. /\ call[c].at = "first loaded" /\ db' = First(c, db)
        /\ call'[c].at = IF call[c].kind \in TwoWrites THEN "second" ELSE "done"
        /\ \A o \in Call \ {c} : call'[o].at = call[o].at
        /\ \A t \in Token : t # call[c].token => db'.tokens[t] = db.tokens[t]
        /\ call[c].kind # "forgot" => db'.tokens = db.tokens
    BY <1>1, <1>3, FirstFacts DEF WritesFirst, OthersStay
  <2>2. \A x, o \in Call : x # o => Apart(x, o)'
    <3>1. \A x \in Call : call[x].kind = "reset" /\ call'[x].at = "done" => call[x].at = "done"
      BY <2>1 DEF TwoWrites
    <3> QED BY <1>1, <3>1, ApartKept
  <2>3. CASE call[c].kind # "forgot"
    <3>1. ASSUME NEW o \in Call
          PROVE  TokenRight(o)'
      <4>1. CASE o = c
        BY <1>1, <2>1, <2>3, <4>1, TokenKept DEF Sending, TwoWrites
      <4>2. CASE o # c
        BY <1>1, <2>1, <2>3, <4>2, TokenKept
      <4> QED BY <4>1, <4>2
    <3> QED BY <1>1, <2>2, <3>1 DEF TokenInv
  <2>4. CASE call[c].kind = "forgot"
    <3>1. db.tokens[call[c].token] = NoToken
      BY <1>1, <2>1, <2>4 DEF TokenRight, Sending
    <3>2. ASSUME NEW o \in Call, o # c
          PROVE  TokenRight(o)'
      <4>1. CASE call[o].token # call[c].token
        BY <1>1, <2>1, <3>2, <4>1, TokenKept
      <4>2. CASE call[o].token = call[c].token
        <5>1. /\ call[o].kind # "forgot"
              /\ call[o].kind = "reset" =>
                    call[o].at \notin Sending \cup {"second", "second loaded", "done"}
          BY <1>1, <2>4, <3>1, <3>2, <4>2 DEF Apart, TokenRight, Resettable, Sending
        <5> QED BY <1>1, <2>1, <3>2, <5>1 DEF TokenRight, Asks
      <4> QED BY <4>1, <4>2
    <3>3. TokenRight(c)'
      BY <1>1, <2>1, <2>4 DEF TokenRight, Asks, TwoWrites, Sending
    <3> QED BY <1>1, <2>2, <3>2, <3>3 DEF TokenInv
  <2> QED BY <2>3, <2>4
<1>4. ASSUME NEW c \in Call, WritesSecond(c)
      PROVE  TokenInv'
  <2>1. /\ call[c].at = "second loaded" /\ call'[c].at = "done"
        /\ \A o \in Call \ {c} : call'[o].at = call[o].at
        /\ \A t \in Token : t # call[c].token => db'.tokens[t] = db.tokens[t]
        /\ call[c].kind = "reset" => /\ db'.tokens[call[c].token] # NoToken
                                     /\ db'.tokens[call[c].token].used
        /\ call[c].kind # "reset" => db'.tokens = db.tokens
    BY <1>1, <1>4, SecondFacts DEF AccountsRecords, Resettable, WritesSecond, OthersStay
  <2>2. CASE call[c].kind # "reset"
    <3>1. \A o \in Call : TokenRight(o)'
      BY <1>1, <2>1, <2>2, ZenonT(60) DEF TokenRight, Asks, Sending
    <3>2. \A x, o \in Call : x # o => Apart(x, o)'
      BY <1>1, <2>1, <2>2, ApartKept, ZenonT(60)
    <3> QED BY <1>1, <3>1, <3>2 DEF TokenInv
  <2>3. CASE call[c].kind = "reset"
    <3> DEFINE R == Resets(call[c].token) \cap Between({"reset"})
    <3>1. c \in R /\ IsFiniteSet(R) /\ Cardinality(R) <= 1
      BY <1>1, <2>1, <2>3, AccountsAssumption, FS_Subset DEF Resets, Between, Ended, OneReset
    <3>2. db.tokens[call[c].token] # NoToken /\ ~db.tokens[call[c].token].used
      BY <1>1, <2>1, <2>3 DEF TokenRight, Resettable, Sending
    <3>3. ASSUME NEW o \in Call, o # c, call[o].token = call[c].token
          PROVE  /\ call[o].kind = "reset" =>
                       call[o].at \notin Sending \cup {"second", "second loaded", "done"}
                 /\ call[o].kind = "forgot" => call[o].at \notin Sending
      <4>1. o \notin R
        BY <3>1, <3>3, AtMostOne
      <4> HIDE DEF R
      <4>2. call[o].kind = "reset" => call[o].at \notin Sending \cup {"second", "second loaded"}
        BY <3>3, <4>1 DEF R, Resets, Between, Ended, Sending
      <4> QED BY <1>1, <3>2, <3>3, <4>2 DEF TokenRight, Sending
    <3>4. ASSUME NEW o \in Call
          PROVE  TokenRight(o)'
      <4>1. CASE o = c
        BY <1>1, <2>1, <2>3, <4>1 DEF TokenRight, Asks, Sending
      <4>2. CASE o # c /\ call[o].token # call[c].token
        BY <1>1, <2>1, <4>2, TokenKept
      <4>3. CASE o # c /\ call[o].token = call[c].token
        BY <1>1, <2>1, <3>3, <4>3, ZenonT(60) DEF TokenRight, Asks
      <4> QED BY <4>1, <4>2, <4>3
    <3>5. ASSUME NEW x \in Call, NEW o \in Call, x # o
          PROVE  Apart(x, o)'
      <4>1. CASE x # c /\ o # c
        <5>1. call'[x].at = call[x].at /\ call'[o].at = call[o].at
          BY <2>1, <3>5, <4>1
        <5> QED BY <1>1, <3>5, <5>1, ApartKept
      <4>2. CASE x = c
        BY <1>1, <2>1, <2>3, <3>3, <3>5, <4>2, ZenonT(60) DEF Apart, Asks
      <4>3. CASE o = c
        BY <1>1, <2>1, <2>3, <3>3, <3>5, <4>3, ZenonT(60) DEF Apart, Asks
      <4> QED BY <4>1, <4>2, <4>3
    <3> QED BY <1>1, <3>4, <3>5 DEF TokenInv
  <2> QED BY <2>2, <2>3
<1> QED BY <1>1, <1>2, <1>3, <1>4

(* A token resets one password once, unless two resets with it overlap or one*)
(* fails between the password and the mark (reset_password).                 *)
THEOREM TokensResetOnce == AccountsSpec => UsedOnceAlone
<1>1. AccountsInit => TokenInv
  <2> SUFFICES ASSUME AccountsInit
               PROVE  (\A c \in Call : TokenRight(c)) /\ (\A c, o \in Call : c # o => Apart(c, o))
    BY AccountsInvStart DEF TokenInv
  <2>1. /\ \A c \in Call : call[c].at = "new"
        /\ \A c, o \in Call : c # o /\ call[c].kind = call[o].kind /\ call[c].kind = "forgot"
              => call[c].token # call[o].token
    BY DEF AccountsInit
  <2> QED BY <2>1 DEF TokenRight, Apart, Sending
<1>2. TokenInv /\ NothingLost /\ OneReset /\ [AccountsNext]_accountsVars => TokenInv'
  BY TokenStep
<1>3. TokenInv => \A t \in Token : Cardinality({c \in Resets(t) : call[c].at = "done"}) <= 1
  <2> SUFFICES ASSUME TokenInv, NEW t \in Token
               PROVE  Cardinality({c \in Resets(t) : call[c].at = "done"}) <= 1
    OBVIOUS
  <2> DEFINE D == {c \in Resets(t) : call[c].at = "done"}
  <2>1. \A c, o \in D : c = o
    BY DEF TokenInv, Apart, Resets
  <2> HIDE DEF D
  <2>2. CASE D = {}
    BY <2>2, FS_EmptySet DEF D
  <2>3. ASSUME NEW c \in D
        PROVE  Cardinality(D) <= 1
    <3>1. D = {c} /\ Cardinality({c}) = 1
      BY <2>1, <2>3, FS_Singleton
    <3> QED BY <3>1
  <2> QED BY <2>2, <2>3 DEF D
<1> QED BY <1>1, <1>2, <1>3, PTL DEF AccountsSpec, UsedOnceAlone

(***************************************************************************)
(* The types of the stock and of the accounts, whatever overlaps.          *)
(***************************************************************************)

(* Only an exit counts, and what an order of a product has found is there.   *)
OrderRight(o) ==
    /\ order[o].at \in {"summed", "counted", "accepted"} => order[o].kind = "outbound"
    /\ order[o].kind # "product" /\ order[o].at \in {"found", "summed", "counted", "accepted"} =>
          product[order[o].sku] # NoProduct

InventoryShape == /\ StockTypeOK
                  /\ product \in [Sku -> Warehouse \cup {NoProduct}]
                  /\ \A o \in Order : OrderRight(o)
                  /\ \A s \in Sku : product[s] = NoProduct => inbound[s] = 0 /\ outbound[s] = 0

(* Orders go on one at a time, and what they ask for stays.                  *)
LEMMA OrderFrame ==
  ASSUME StockTypeOK, [InventoryNext]_inventoryVars, NEW o \in Order
  PROVE  /\ order'[o].kind = order[o].kind /\ order'[o].sku = order[o].sku
         /\ \/ order'[o].at \in {order[o].at, "done", "refused"}
            \/ order[o].kind = "product" /\ order'[o].at = "found"
            \/ Addressed(o) /\ order[o].kind # "product" /\ order'[o].at = "found"
            \/ order[o].at = "found" /\ order[o].kind = "outbound" /\ order'[o].at = "summed"
            \/ order[o].at = "summed" /\ order'[o].at = "counted"
            \/ order[o].at = "counted" /\ order'[o].at = "accepted"
<1> USE DEF StockTypeOK, OrderRequest, OrderPlaces, OrderGoes
<1>1. ASSUME NEW p \in Order,
             FindProduct(p) \/ InsertProduct(p) \/ Address(p) \/ CreateInbound(p)
      PROVE  /\ order'[o].kind = order[o].kind /\ order'[o].sku = order[o].sku
             /\ \/ order'[o].at \in {order[o].at, "done", "refused"}
                \/ order[o].kind = "product" /\ order'[o].at = "found"
                \/ Addressed(o) /\ order[o].kind # "product" /\ order'[o].at = "found"
  BY <1>1 DEF FindProduct, InsertProduct, Address, CreateInbound
<1>2. ASSUME NEW p \in Order, CheckStock(p) \/ CreateOutbound(p) \/ OrderFails(p)
      PROVE  /\ order'[o].kind = order[o].kind /\ order'[o].sku = order[o].sku
             /\ \/ order'[o].at \in {order[o].at, "done", "refused"}
                \/ order[o].at = "counted" /\ order'[o].at = "accepted"
  BY <1>2 DEF CheckStock, CreateOutbound, OrderFails
<1>3. ASSUME NEW p \in Order, SumInbound(p) \/ SumOutbound(p)
      PROVE  /\ order'[o].kind = order[o].kind /\ order'[o].sku = order[o].sku
             /\ \/ order'[o].at = order[o].at
                \/ order[o].at = "found" /\ order[o].kind = "outbound" /\ order'[o].at = "summed"
                \/ order[o].at = "summed" /\ order'[o].at = "counted"
  BY <1>3 DEF SumInbound, SumOutbound
<1>4. CASE UNCHANGED inventoryVars
  BY <1>4 DEF inventoryVars
<1> QED BY <1>1, <1>2, <1>3, <1>4 DEF InventoryNext

(* A product that was created stays, and orders only count what is there.    *)
LEMMA InventoryShapeStep == InventoryShape /\ [InventoryNext]_inventoryVars => InventoryShape'
<1> SUFFICES ASSUME InventoryShape, [InventoryNext]_inventoryVars PROVE InventoryShape'
  OBVIOUS
<1>1. /\ StockTypeOK /\ StockTypeOK' /\ product \in [Sku -> Warehouse \cup {NoProduct}]
      /\ \A o \in Order : OrderRight(o) /\ order[o].sku \in Sku /\ order[o].warehouse \in Warehouse
  BY StockTypeStep DEF InventoryShape, StockTypeOK, OrderRequest
<1>2. /\ product' \in [Sku -> Warehouse \cup {NoProduct}]
      /\ \A s \in Sku : product[s] # NoProduct => product'[s] # NoProduct
  <2>1. ASSUME NEW o \in Order, InsertProduct(o)
        PROVE  /\ product' \in [Sku -> Warehouse \cup {NoProduct}]
               /\ \A s \in Sku : product[s] # NoProduct => product'[s] # NoProduct
    BY <1>1, <2>1 DEF InsertProduct
  <2> QED BY <1>1, <2>1 DEF InventoryNext, inventoryVars, FindProduct, Address, CreateInbound,
          SumInbound, SumOutbound, CheckStock, CreateOutbound, OrderFails
<1>3. ASSUME NEW o \in Order
      PROVE  OrderRight(o)'
  <2>1. Addressed(o) /\ order[o].sku \in Sku => product[order[o].sku] # NoProduct
    BY <1>1, InventoryAssumption DEF Addressed
  <2> QED BY <1>1, <1>2, <2>1, OrderFrame DEF OrderRight
<1>4. ASSUME NEW s \in Sku, product'[s] = NoProduct
      PROVE  inbound'[s] = 0 /\ outbound'[s] = 0
  <2>1. product[s] = NoProduct /\ inbound[s] = 0 /\ outbound[s] = 0
    BY <1>2, <1>4 DEF InventoryShape
  <2>2. ASSUME NEW o \in Order, CreateInbound(o)
        PROVE  inbound'[s] = 0
    <3>1. order[o].sku # s
      BY <1>1, <2>1, <2>2 DEF CreateInbound, OrderGoes, OrderRight
    <3> QED BY <1>1, <2>1, <2>2, <3>1 DEF CreateInbound, StockTypeOK
  <2>3. ASSUME NEW o \in Order, CreateOutbound(o)
        PROVE  outbound'[s] = 0
    <3>1. order[o].sku # s
      BY <1>1, <2>1, <2>3 DEF CreateOutbound, OrderGoes, OrderRight
    <3> QED BY <1>1, <2>1, <2>3, <3>1 DEF CreateOutbound, StockTypeOK
  <2>4. \/ UNCHANGED <<inbound, outbound>>
        \/ \E o \in Order : CreateInbound(o) /\ UNCHANGED outbound
        \/ \E o \in Order : CreateOutbound(o) /\ UNCHANGED inbound
    BY DEF InventoryNext, inventoryVars, FindProduct, InsertProduct, Address, CreateInbound,
           SumInbound, SumOutbound, CheckStock, CreateOutbound, OrderFails
  <2> QED BY <2>1, <2>2, <2>3, <2>4
<1> QED BY <1>1, <1>2, <1>3, <1>4 DEF InventoryShape

(* Nothing was ordered at the start.                                         *)
LEMMA InventoryShapeStart == InventoryInit => InventoryShape
BY DEF InventoryInit, InventoryShape, StockTypeOK, OrderRequest, OrderPlaces, OrderRight

(* Only calls of three kinds make a second write.                            *)
AccountsShape == /\ AccountsTypeOK
                 /\ \A c \in Call : call[c].at \in {"second", "second loaded"} =>
                                       call[c].kind \in TwoWrites

(* The first write of a call leaves a file, whatever copy it is made on.     *)
LEMMA FirstIsFile ==
  ASSUME NEW c \in Call, call[c] \in CallRecord, NEW d \in UsersFile
  PROVE  First(c, d) \in UsersFile
<1> DEFINE u == call[c].user
           t == call[c].token
           row == [email |-> call[c].email, active |-> TRUE]
           new == [email |-> call[c].email, active |-> call[c].active]
           tok == [of |-> u, used |-> FALSE]
<1>1. /\ u \in User /\ t \in Token /\ row \in UserRow /\ new \in UserRow /\ tok \in TokenRow
  BY DEF CallRecord, UserRow, TokenRow
<1>2. /\ d.users \in [User -> UserRow \cup {NoUser}] /\ d.profiles \in SUBSET User
      /\ d.tokens \in [Token -> TokenRow \cup {NoToken}]
      /\ d = [users |-> d.users, profiles |-> d.profiles, tokens |-> d.tokens]
  BY DEF UsersFile
<1>3. First(c, d) \in {[d EXCEPT !.users[u] = row], [d EXCEPT !.users[u] = new],
                       [d EXCEPT !.users[u] = NoUser], [d EXCEPT !.tokens[t] = tok], d}
  BY DEF First
<1> HIDE DEF row, new, tok, u, t
<1>4. [d EXCEPT !.users[u] = row] \in UsersFile /\ [d EXCEPT !.users[u] = new] \in UsersFile
  BY <1>1, <1>2 DEF UsersFile
<1>5. [d EXCEPT !.users[u] = NoUser] \in UsersFile /\ [d EXCEPT !.tokens[t] = tok] \in UsersFile
  BY <1>1, <1>2 DEF UsersFile
<1> QED BY <1>3, <1>4, <1>5

(* And so does the second: marking a token that is gone changes nothing.     *)
LEMMA SecondIsFile ==
  ASSUME NEW c \in Call, call[c] \in CallRecord, NEW d \in UsersFile, call[c].kind \in TwoWrites
  PROVE  Second(c, d) \in UsersFile
<1> DEFINE u == call[c].user
           t == call[c].token
           mark == [d.tokens[t] EXCEPT !.used = TRUE]
<1>1. u \in User /\ t \in Token
  BY DEF CallRecord
<1>2. /\ d.users \in [User -> UserRow \cup {NoUser}] /\ d.profiles \in SUBSET User
      /\ d.tokens \in [Token -> TokenRow \cup {NoToken}]
      /\ d = [users |-> d.users, profiles |-> d.profiles, tokens |-> d.tokens]
  BY DEF UsersFile
<1>3. mark \in TokenRow \cup {NoToken}
  <2>1. CASE d.tokens[t] \in TokenRow
    BY <2>1 DEF TokenRow
  <2>2. CASE d.tokens[t] = NoToken
    <3>1. [NoToken EXCEPT !.used = TRUE] = NoToken
      BY DEF NoToken
    <3> QED BY <2>2, <3>1
  <2> QED BY <1>1, <1>2, <2>1, <2>2
<1>4. Second(c, d) \in {[d EXCEPT !.profiles = @ \cup {u}], [d EXCEPT !.profiles = @ \ {u}],
                        [d EXCEPT !.tokens[t] = mark]}
  BY DEF Second, TwoWrites
<1> HIDE DEF u, t, mark
<1>5. [d EXCEPT !.profiles = @ \cup {u}] \in UsersFile /\ [d EXCEPT !.profiles = @ \ {u}] \in UsersFile
  BY <1>1, <1>2 DEF UsersFile
<1>6. [d EXCEPT !.tokens[t] = mark] \in UsersFile
  BY <1>1, <1>2, <1>3 DEF UsersFile
<1> QED BY <1>4, <1>5, <1>6

(* Moving one call leaves the others alone.                                  *)
LEMMA CallMoves ==
  ASSUME AccountsShape, NEW c \in Call, NEW to \in Places, NEW copy \in UsersFile \cup {Nobody},
         call' = [call EXCEPT ![c].at = to, ![c].copy = copy],
         copy # Nobody <=> to \in Loaded,
         to \in {"second", "second loaded"} => call[c].kind \in TwoWrites
  PROVE  /\ call' \in [Call -> CallRecord]
         /\ \A o \in Call : /\ call'[o].copy # Nobody <=> call'[o].at \in Loaded
                            /\ call'[o].at \in {"second", "second loaded"} =>
                                  call'[o].kind \in TwoWrites
<1> DEFINE x == [call[c] EXCEPT !.at = to, !.copy = copy]
<1>1. call \in [Call -> CallRecord]
  BY DEF AccountsShape, AccountsTypeOK, CallRecord
<1>2. x \in CallRecord /\ x.at = to /\ x.kind = call[c].kind /\ x.copy = copy
  BY <1>1 DEF CallRecord
<1>3. call' = [call EXCEPT ![c] = x]
  OBVIOUS
<1> HIDE DEF x
<1>4. call' \in [Call -> CallRecord] /\ call'[c] = x
  BY <1>1, <1>2, <1>3
<1>5. \A o \in Call : o # c => call'[o] = call[o]
  BY <1>1, <1>3
<1>6. \A o \in Call : /\ call[o].copy # Nobody <=> call[o].at \in Loaded
                      /\ call[o].at \in {"second", "second loaded"} =>
                            call[o].kind \in TwoWrites
  BY DEF AccountsShape, AccountsTypeOK
<1>7. ASSUME NEW o \in Call
      PROVE  /\ call'[o].copy # Nobody <=> call'[o].at \in Loaded
             /\ call'[o].at \in {"second", "second loaded"} =>
                   call'[o].kind \in TwoWrites
  <2>1. CASE o = c
    BY <1>2, <1>4, <2>1
  <2>2. CASE o # c
    BY <1>5, <1>6, <2>2
  <2> QED BY <2>1, <2>2
<1> QED BY <1>4, <1>7

(* Calls may lose what others have written, but never the form of the file.  *)
LEMMA AccountsShapeStep == AccountsShape /\ [AccountsNext]_accountsVars => AccountsShape'
<1> SUFFICES ASSUME AccountsShape, [AccountsNext]_accountsVars PROVE AccountsShape'
  OBVIOUS
<1>1. /\ db \in UsersFile /\ late \in SUBSET Token /\ call \in [Call -> CallRecord]
      /\ \A c \in Call : /\ call[c] \in CallRecord
                         /\ call[c].copy # Nobody <=> call[c].at \in Loaded
                         /\ call[c].at \in {"second", "second loaded"} =>
                               call[c].kind \in TwoWrites
  BY DEF AccountsShape, AccountsTypeOK, CallRecord
<1> DEFINE CallsOK == /\ call' \in [Call -> CallRecord]
                      /\ \A o \in Call : /\ call'[o].copy # Nobody <=> call'[o].at \in Loaded
                                         /\ call'[o].at \in {"second", "second loaded"} =>
                                               call'[o].kind \in TwoWrites
<1>2. ASSUME CallsOK, db' \in UsersFile, late' \in SUBSET Token
      PROVE  AccountsShape'
  BY <1>2 DEF AccountsShape, AccountsTypeOK, CallRecord
<1>3. ASSUME NEW c \in Call, NEW from, NEW to \in Places, CallGoes(c, from, to), to \notin Loaded,
             to = "second" => call[c].kind \in TwoWrites
      PROVE  CallsOK
  <2>1. call' = [call EXCEPT ![c].at = to, ![c].copy = Nobody]
    BY <1>3 DEF CallGoes
  <2> HIDE DEF CallsOK
  <2>2. to # "second loaded" /\ Nobody \in UsersFile \cup {Nobody}
    BY <1>3 DEF Loaded
  <2>3. CallsOK
    BY <1>3, <2>1, <2>2, CallMoves DEF CallsOK
  <2> QED BY <2>3
<1>4. {"first", "second", "refused", "done", "half"} \subseteq Places \ Loaded
  BY DEF Places, Ended, Loaded
<1> HIDE DEF CallsOK
<1>5. CASE UNCHANGED accountsVars
  BY <1>1, <1>2, <1>5 DEF accountsVars, CallsOK
<1>6. ASSUME NEW c \in Call, Begin(c)
      PROVE  AccountsShape'
  <2>1. CallGoes(c, "new", "first") \/ CallGoes(c, "new", "refused")
    BY <1>6 DEF Begin
  <2>2. CallsOK
    BY <1>3, <1>4, <2>1
  <2> QED BY <1>1, <1>2, <1>6, <2>2 DEF Begin
<1>7. ASSUME NEW c \in Call, LoadFile(c)
      PROVE  AccountsShape'
  <2>1. PICK to \in Loaded : /\ call' = [call EXCEPT ![c].at = to, ![c].copy = db]
                             /\ to = "second loaded" => call[c].at = "second"
    BY <1>1, <1>7 DEF LoadFile, Loaded
  <2>2. db # Nobody /\ to \in Places /\ to # "second"
    BY <1>1, CopyAssumption DEF Loaded, Places
  <2>3. to \in {"second", "second loaded"} => call[c].kind \in TwoWrites
    BY <1>1, <2>1, <2>2
  <2>4. CallsOK
    BY <1>1, <2>1, <2>2, <2>3, CallMoves DEF CallsOK
  <2> QED BY <1>1, <1>2, <1>7, <2>4 DEF LoadFile
<1>8. ASSUME NEW c \in Call, StoreFirst(c)
      PROVE  AccountsShape'
  <2>1. call[c].at = "first loaded"
    BY <1>8 DEF StoreFirst, CallGoes
  <2>2. call[c].copy \in UsersFile
    BY <1>1, <2>1 DEF CallRecord, Loaded
  <2>3. db' \in UsersFile
    BY <1>1, <1>8, <2>2, FirstIsFile DEF StoreFirst
  <2>4. \/ CallGoes(c, "first loaded", "second") /\ call[c].kind \in TwoWrites
        \/ CallGoes(c, "first loaded", "done")
    BY <1>8 DEF StoreFirst, TwoWrites
  <2>5. CallsOK
    BY <1>3, <1>4, <2>4
  <2> QED BY <1>1, <1>2, <1>8, <2>3, <2>5 DEF StoreFirst
<1>9. ASSUME NEW c \in Call, StoreSecond(c)
      PROVE  AccountsShape'
  <2>1. call[c].at = "second loaded" /\ call[c].kind \in TwoWrites
    BY <1>1, <1>9 DEF StoreSecond, CallGoes
  <2>2. call[c].copy \in UsersFile
    BY <1>1, <2>1 DEF CallRecord, Loaded
  <2>3. db' \in UsersFile
    BY <1>1, <1>9, <2>1, <2>2, SecondIsFile DEF StoreSecond
  <2>4. CallsOK
    BY <1>3, <1>4, <1>9 DEF StoreSecond
  <2> QED BY <1>1, <1>2, <1>9, <2>3, <2>4 DEF StoreSecond
<1>10. ASSUME NEW c \in Call, CallFails(c)
       PROVE  AccountsShape'
  <2>1. CallsOK
    BY <1>3, <1>4, <1>10 DEF CallFails
  <2> QED BY <1>1, <1>2, <1>10, <2>1 DEF CallFails
<1>11. ASSUME NEW t \in Token, TokenExpires(t)
       PROVE  AccountsShape'
  BY <1>1, <1>2, <1>11 DEF TokenExpires, CallsOK
<1> QED BY <1>5, <1>6, <1>7, <1>8, <1>9, <1>10, <1>11 DEF AccountsNext

(* No call holds a copy at the start.                                        *)
LEMMA AccountsShapeStart == AccountsInit => AccountsShape
<1> SUFFICES ASSUME AccountsInit PROVE AccountsShape
  OBVIOUS
<1>1. db \in UsersFile
  BY AccountsInvStart DEF AccountsInv, AccountsRecords
<1>2. /\ call \in [Call -> CallRecord] /\ late \in SUBSET Token
      /\ \A c \in Call : call[c].at = "new" /\ call[c].copy = Nobody
  BY DEF AccountsInit, CallRecord, Places
<1> QED BY <1>1, <1>2 DEF AccountsShape, AccountsTypeOK, CallRecord, Loaded

(***************************************************************************)
(* The event stream.                                                       *)
(***************************************************************************)
StreamRecord == [at : {"off", "fetched"} \cup Subscribed, queue : Seq(Ticket),
                 replay : Seq(Ticket), last : Ticket \cup {NoTicket}]

(* The end of a list, whatever it begins with, is a list.                    *)
LEMMA EndOfList ==
  ASSUME NEW h \in Seq(Ticket), NEW n \in Nat, n >= 1
  PROVE  SubSeq(h, n, Len(h)) \in Seq(Ticket)
<1>1. Len(h) \in Nat /\ \A i \in n..Len(h) : h[i] \in Ticket
  BY LenProperties, ElementOfSeq
<1> QED BY <1>1, SubSeqProperties

(* What is read of the database, and what is left of a list that is trimmed, *)
(* are lists of tickets.                                                     *)
LEMMA NewestIsList ==
  ASSUME created \in Seq(Ticket), NEW n \in Nat
  PROVE  Newest(n) \in Seq(Ticket)
<1>1. Len(created) \in Nat
  BY LenProperties
<1> DEFINE from == IF Len(created) > n THEN Len(created) - n + 1 ELSE 1
<1>2. from \in Nat /\ from >= 1
  BY <1>1
<1>3. Newest(n) = SubSeq(created, from, Len(created))
  BY DEF Newest
<1> HIDE DEF from
<1> QED BY <1>2, <1>3, EndOfList

(* Without rows nothing is read.                                             *)
LEMMA NewestOfNone ==
  ASSUME created \in Seq(Ticket), NEW n \in Nat, Newest(n) # <<>>
  PROVE  created # <<>>
<1> SUFFICES ASSUME created = <<>> PROVE Newest(n) = <<>>
  OBVIOUS
<1>1. Len(created) = 0
  BY EmptySeq
<1>2. Newest(n) = SubSeq(created, 1, 0)
  BY <1>1 DEF Newest
<1> QED BY <1>2, SubSeqProperties, EmptySeq

(* The same of the buffer that is trimmed.                                   *)
LEMMA TrimmedIsList ==
  ASSUME NEW h \in Seq(Ticket)
  PROVE  Trimmed(h) \in Seq(Ticket)
<1>1. Len(h) \in Nat /\ MaxHistory \in Nat
  BY SseAssumption, LenProperties
<1> DEFINE from == IF Len(h) > MaxHistory THEN Len(h) - MaxHistory + 1 ELSE 1
<1>2. from \in Nat /\ from >= 1
  BY <1>1
<1>3. Trimmed(h) = SubSeq(h, from, Len(h))
  BY DEF Trimmed
<1> HIDE DEF from
<1> QED BY <1>2, <1>3, EndOfList

(* A ticket that is recorded joins the buffer, or is there.                  *)
LEMMA AssignIsList ==
  ASSUME NEW h \in Seq(Ticket), NEW t \in Ticket
  PROVE  Assign(h, t) \in Seq(Ticket)
BY AppendProperties DEF Assign

(* after is the recursion of AssignAll, up to n.                             *)
Assigned(h, s, n, after) ==
  after[0] = h /\ \A i \in 1..n : after[i] = Assign(after[i - 1], s[i])

(* Recording a list of tickets one after another gives a buffer.             *)
LEMMA AllAssigned ==
  ASSUME NEW h \in Seq(Ticket), NEW s \in Seq(Ticket)
  PROVE  \E after \in [0..Len(s) -> Seq(Ticket)] :
            Assigned(h, s, Len(s), after) /\ AssignAll(h, s) = after[Len(s)]
<1> DEFINE S == {n \in Nat : n <= Len(s) =>
                    \E f \in [0..n -> Seq(Ticket)] : Assigned(h, s, n, f)}
<1>0. Len(s) \in Nat /\ \A i \in 1..Len(s) : s[i] \in Ticket
  BY LenProperties, ElementOfSeq
<1>1. 0 \in S
  <2>1. [i \in 0..0 |-> h] \in [0..0 -> Seq(Ticket)] /\ Assigned(h, s, 0, [i \in 0..0 |-> h])
    BY DEF Assigned
  <2> QED BY <2>1
<1>2. ASSUME NEW n \in Nat, n \in S PROVE n + 1 \in S
  <2> SUFFICES ASSUME n + 1 <= Len(s)
               PROVE  \E g \in [0..(n + 1) -> Seq(Ticket)] : Assigned(h, s, n + 1, g)
    OBVIOUS
  <2>1. PICK f \in [0..n -> Seq(Ticket)] : Assigned(h, s, n, f)
    BY <1>0, <1>2
  <2> HIDE DEF S
  <2> DEFINE next == Assign(f[n], s[n + 1])
             g == [i \in 0..(n + 1) |-> IF i = n + 1 THEN next ELSE f[i]]
  <2>2. f[n] \in Seq(Ticket) /\ s[n + 1] \in Ticket
    BY <1>0
  <2>3. next \in Seq(Ticket)
    BY <2>2, AssignIsList
  <2> HIDE DEF next
  <2>4. g \in [0..(n + 1) -> Seq(Ticket)]
    BY <2>3
  <2>5. (\A i \in 0..n : g[i] = f[i]) /\ g[n + 1] = next
    OBVIOUS
  <2> HIDE DEF g
  <2>6. g[0] = h
    BY <2>1, <2>5 DEF Assigned
  <2>7. ASSUME NEW i \in 1..(n + 1) PROVE g[i] = Assign(g[i - 1], s[i])
    <3>1. CASE i \in 1..n
      <4>1. i - 1 \in 0..n /\ i \in 0..n
        BY <3>1
      <4>2. f[i] = Assign(f[i - 1], s[i])
        BY <2>1, <3>1 DEF Assigned
      <4> QED BY <2>5, <4>1, <4>2
    <3>2. CASE i = n + 1
      <4>1. i - 1 = n /\ n \in 0..n
        BY <3>2
      <4> QED BY <2>5, <3>2, <4>1 DEF next
    <3> QED BY <3>1, <3>2
  <2> QED BY <2>4, <2>6, <2>7 DEF Assigned
<1>3. Len(s) \in S
  <2> HIDE DEF S
  <2> QED BY <1>0, <1>1, <1>2, SetInduction
<1>4. PICK f \in [0..Len(s) -> Seq(Ticket)] : Assigned(h, s, Len(s), f)
  BY <1>0, <1>3
<1> HIDE DEF S
<1> DEFINE Recursion(a) == a = [i \in 0..Len(s) |->
                                  IF i = 0 THEN h ELSE Assign(a[i - 1], s[i])]
           after == CHOOSE a : Recursion(a)
<1>5. Recursion(f)
  <2>1. f = [i \in 0..Len(s) |-> f[i]]
    OBVIOUS
  <2>2. \A i \in 0..Len(s) : f[i] = IF i = 0 THEN h ELSE Assign(f[i - 1], s[i])
    BY <1>0, <1>4 DEF Assigned
  <2> QED BY <2>1, <2>2
<1>6. Recursion(after)
  <2> HIDE DEF Recursion
  <2> QED BY <1>5
<1>7. AssignAll(h, s) = after[Len(s)]
  BY DEF AssignAll
<1> HIDE DEF after
<1>8. Assigned(h, s, Len(s), after)
  <2>1. \A i \in 0..Len(s) : after[i] = IF i = 0 THEN h ELSE Assign(after[i - 1], s[i])
    BY <1>6
  <2> QED BY <1>0, <2>1 DEF Assigned
<1>9. after \in [0..Len(s) -> Seq(Ticket)]
  <2> DEFINE T == {n \in Nat : n <= Len(s) => after[n] \in Seq(Ticket)}
  <2>1. 0 \in T
    BY <1>8 DEF Assigned
  <2>2. ASSUME NEW n \in Nat, n \in T PROVE n + 1 \in T
    <3> SUFFICES ASSUME n + 1 <= Len(s) PROVE after[n + 1] \in Seq(Ticket)
      OBVIOUS
    <3>1. after[n] \in Seq(Ticket) /\ s[n + 1] \in Ticket /\ n + 1 \in 1..Len(s)
      BY <1>0, <2>2
    <3>2. after[n + 1] = Assign(after[(n + 1) - 1], s[n + 1]) /\ (n + 1) - 1 = n
      BY <1>8, <3>1 DEF Assigned
    <3> QED BY <3>1, <3>2, AssignIsList
  <2> HIDE DEF T
  <2>3. Nat \subseteq T
    BY <2>1, <2>2, SetInduction
  <2>4. \A i \in 0..Len(s) : after[i] \in Seq(Ticket)
    BY <1>0, <2>3 DEF T
  <2>5. after = [i \in 0..Len(s) |-> after[i]]
    BY <1>6
  <2> QED BY <2>4, <2>5
<1> QED BY <1>7, <1>8, <1>9

(* Moving one stream leaves the others alone.                                *)
LEMMA StreamMoves ==
  ASSUME SseTypeOK, NEW c \in Client, NEW x \in StreamRecord, Len(x.queue) <= MaxQueue,
         stream' = [stream EXCEPT ![c] = x]
  PROVE  /\ stream' \in [Client -> StreamRecord]
         /\ \A d \in Client : Len(stream'[d].queue) <= MaxQueue
BY DEF SseTypeOK, StreamRecord

Trust == {"listed", "kept", "lost"}

(* What follows the last event in a buffer is a list of tickets.             *)
LEMMA EventsAreList ==
  ASSUME NEW h \in Seq(Ticket), NEW last
  PROVE  EventsSince(h, last) \in Seq(Ticket)
<1>1. CASE last \in ToSet(h)
  <2> DEFINE place == CHOOSE i \in DOMAIN h : h[i] = last
  <2>1. \E i \in DOMAIN h : h[i] = last
    BY <1>1 DEF ToSet
  <2>2. place \in 1..Len(h) /\ Len(h) \in Nat
    BY <2>1, LenProperties
  <2>3. EventsSince(h, last) = SubSeq(h, 1 + place, Len(h))
    BY <1>1 DEF EventsSince
  <2> HIDE DEF place
  <2>4. 1 + place \in Nat /\ 1 + place >= 1
    BY <2>2
  <2> QED BY <2>3, <2>4, EndOfList
<1>2. CASE last \notin ToSet(h)
  BY <1>2 DEF EventsSince
<1> QED BY <1>1, <1>2

(* Every step of the event stream keeps the types, and no queue outgrows its *)
(* limit.                                                                    *)
LEMMA SseTypeStep == SseTypeOK /\ [SseNext]_sseVars => SseTypeOK'
<1> SUFFICES ASSUME SseTypeOK, [SseNext]_sseVars PROVE SseTypeOK'
  OBVIOUS
<1> USE DEF StreamRecord, Trust
<1>1. /\ created \in Seq(Ticket) /\ history \in Seq(Ticket)
      /\ upload \in [Ticket -> {"none", "committed", "published", "finished", "lost"}]
      /\ stream \in [Client -> StreamRecord]
      /\ seen \in [Client -> SUBSET Ticket]
      /\ trust \in [Client -> Trust]
      /\ \A c \in Client : Len(stream[c].queue) <= MaxQueue
  BY DEF SseTypeOK, Trust
<1>2. MaxQueue \in Nat /\ SyncLimit \in Nat /\ ListLimit \in Nat
  BY SseAssumption
<1>3. \A s \in Seq(Ticket) : ToSet(s) \subseteq Ticket
  BY LenProperties, ElementOfSeq DEF ToSet
<1> DEFINE StreamsOK == /\ stream' \in [Client -> StreamRecord]
                        /\ \A c \in Client : Len(stream'[c].queue) <= MaxQueue
<1>4. CASE UNCHANGED sseVars
  BY <1>1, <1>4 DEF sseVars, SseTypeOK
<1>5. ASSUME NEW t \in Ticket, CommitTicket(t)
      PROVE  SseTypeOK'
  BY <1>1, <1>5, AppendProperties DEF CommitTicket, SseTypeOK
<1>6. ASSUME NEW t \in Ticket, Publish(t)
      PROVE  SseTypeOK'
  <2>1. history' \in Seq(Ticket)
    BY <1>1, <1>6, AssignIsList, TrimmedIsList DEF Publish
  <2>2. ASSUME NEW c \in Client
        PROVE  stream'[c] \in StreamRecord /\ Len(stream'[c].queue) <= MaxQueue
    <3>1. stream[c].queue \in Seq(Ticket) /\ Len(stream[c].queue) \in Nat
      BY <1>1, LenProperties
    <3>2. CASE stream'[c] = stream[c]
      BY <1>1, <3>2
    <3>3. CASE /\ stream'[c] = [stream[c] EXCEPT !.queue = Append(@, t)]
               /\ Len(stream[c].queue) < MaxQueue
      <4> DEFINE longer == Append(stream[c].queue, t)
      <4>1. longer \in Seq(Ticket) /\ Len(longer) = Len(stream[c].queue) + 1
        BY <3>1, AppendProperties
      <4>2. stream'[c] = [stream[c] EXCEPT !.queue = longer]
        BY <3>3
      <4>3. Len(longer) <= MaxQueue
        BY <1>2, <3>1, <3>3, <4>1
      <4> HIDE DEF longer
      <4> QED BY <1>1, <4>1, <4>2, <4>3
    <3> QED BY <1>6, <3>2, <3>3 DEF Publish, Broadcast
  <2>3. stream' \in [Client -> StreamRecord]
    BY <1>6, <2>2 DEF Publish, Broadcast
  <2>4. trust' \in [Client -> Trust]
    BY <1>1, <1>6 DEF Publish
  <2> QED BY <1>1, <1>6, <2>1, <2>2, <2>3, <2>4 DEF Publish, SseTypeOK
<1>7. ASSUME NEW t \in Ticket, PublishResult(t)
      PROVE  SseTypeOK'
  <2>1. history' \in Seq(Ticket)
    BY <1>1, <1>7, AssignIsList, TrimmedIsList DEF PublishResult
  <2> QED BY <1>1, <1>7, <2>1 DEF PublishResult, SseTypeOK
<1>8. ASSUME NEW c \in Client, FetchList(c)
      PROVE  SseTypeOK'
  <2>1. ToSet(Newest(ListLimit)) \subseteq Ticket
    BY <1>1, <1>2, <1>3, NewestIsList
  <2>2. Newest(ListLimit) # <<>> => Last(created) \in Ticket
    <3>1. Newest(ListLimit) # <<>> => created # <<>>
      BY <1>1, <1>2, NewestOfNone
    <3>2. created # <<>> => Len(created) \in 1..Len(created)
      BY <1>1, EmptySeq
    <3> QED BY <1>1, <3>1, <3>2, ElementOfSeq DEF Last
  <2>3. PICK last \in Ticket \cup {NoTicket} :
           stream' = [stream EXCEPT ![c].at = "fetched", ![c].last = last]
    <3>1. stream[c].last \in Ticket \cup {NoTicket}
      BY <1>1
    <3>2. CASE stream' = [stream EXCEPT ![c].at = "fetched"]
      <4>1. stream' = [stream EXCEPT ![c].at = "fetched", ![c].last = stream[c].last]
        BY <1>1, <3>2
      <4> QED BY <3>1, <4>1
    <3>3. CASE stream' = [stream EXCEPT
               ![c].at = "fetched",
               ![c].last = IF @ = NoTicket /\ Newest(ListLimit) # <<>>
                           THEN Last(created) ELSE @]
      BY <1>1, <2>2, <3>1, <3>3
    <3> QED BY <1>8, <3>2, <3>3 DEF FetchList
  <2> DEFINE x == [stream[c] EXCEPT !.at = "fetched", !.last = last]
  <2>4. x \in StreamRecord /\ Len(x.queue) <= MaxQueue /\ stream' = [stream EXCEPT ![c] = x]
    BY <1>1, <2>3 DEF Subscribed
  <2>5. StreamsOK
    <3> HIDE DEF x
    <3> QED BY <2>4, StreamMoves
  <2>6. seen' \in [Client -> SUBSET Ticket]
    <3> DEFINE listed == ToSet(Newest(ListLimit))
    <3>1. seen' = seen \/ seen' = [seen EXCEPT ![c] = @ \cup listed]
      BY <1>8 DEF FetchList
    <3> HIDE DEF listed
    <3>2. listed \subseteq Ticket
      BY <2>1 DEF listed
    <3> QED BY <1>1, <3>1, <3>2
  <2>7. trust' \in [Client -> Trust]
    BY <1>1, <1>8 DEF FetchList
  <2> QED BY <1>1, <1>8, <2>5, <2>6, <2>7 DEF FetchList, SseTypeOK
<1>9. ASSUME NEW c \in Client, Subscribe(c)
      PROVE  SseTypeOK'
  <2> DEFINE x == [stream[c] EXCEPT !.at = "open"]
  <2>1. x \in StreamRecord /\ Len(x.queue) <= MaxQueue /\ stream' = [stream EXCEPT ![c] = x]
    BY <1>1, <1>9 DEF Subscribe, Subscribed
  <2>2. StreamsOK
    <3> HIDE DEF x
    <3> QED BY <2>1, StreamMoves
  <2> QED BY <1>1, <1>9, <2>2 DEF Subscribe, SseTypeOK
<1>10. ASSUME NEW c \in Client, Replay(c)
       PROVE  SseTypeOK'
  <2> DEFINE synced == AssignAll(history, Newest(SyncLimit))
             missed == EventsSince(history', stream[c].last)
             x == [stream[c] EXCEPT !.at = "replay", !.replay = missed]
  <2>1. synced \in Seq(Ticket)
    <3>1. PICK s \in Seq(Ticket) : s = Newest(SyncLimit)
      BY <1>1, <1>2, NewestIsList
    <3>2. PICK after \in [0..Len(s) -> Seq(Ticket)] : AssignAll(history, s) = after[Len(s)]
      BY <1>1, AllAssigned
    <3>3. Len(s) \in 0..Len(s)
      BY LenProperties
    <3> QED BY <3>1, <3>2, <3>3
  <2>2. /\ history' = synced \/ history' = history
        /\ stream' = [stream EXCEPT ![c] = x]
        /\ UNCHANGED <<created, upload, seen>>
    BY <1>10 DEF Replay
  <2>8. trust' \in [Client -> Trust]
    BY <1>1, <1>10 DEF Replay, Settled
  <2> HIDE DEF synced
  <2>9. history' \in Seq(Ticket)
    BY <1>1, <2>1, <2>2
  <2>3. missed \in Seq(Ticket)
    BY <2>9, EventsAreList
  <2> HIDE DEF missed
  <2>4. x \in StreamRecord /\ Len(x.queue) <= MaxQueue
    BY <1>1, <2>3 DEF Subscribed
  <2> HIDE DEF x
  <2>5. StreamsOK
    BY <2>2, <2>4, StreamMoves
  <2> QED BY <1>1, <2>2, <2>5, <2>8, <2>9 DEF SseTypeOK
<1>11. ASSUME NEW c \in Client, SendReplay(c)
       PROVE  SseTypeOK'
  <2> DEFINE replay == stream[c].replay
  <2>1. replay \in Seq(Ticket)
    BY <1>1
  <2>2. CASE replay = <<>>
    <3> DEFINE x == [stream[c] EXCEPT !.at = "live"]
    <3>1. x \in StreamRecord /\ Len(x.queue) <= MaxQueue /\ stream' = [stream EXCEPT ![c] = x]
      BY <1>1, <1>11, <2>2 DEF SendReplay, Subscribed
    <3>2. StreamsOK
      <4> HIDE DEF x
      <4> QED BY <3>1, StreamMoves
    <3> QED BY <1>1, <1>11, <2>2, <3>2 DEF SendReplay, SseTypeOK
  <2>3. CASE replay # <<>>
    <3> DEFINE x == [stream[c] EXCEPT !.replay = Tail(replay), !.last = Head(replay)]
    <3>1. Head(replay) \in Ticket /\ Tail(replay) \in Seq(Ticket)
      BY <2>1, <2>3, HeadTailProperties
    <3>2. stream' = [stream EXCEPT ![c] = x]
      BY <1>11, <2>3 DEF SendReplay
    <3>3. x \in StreamRecord /\ Len(x.queue) <= MaxQueue
      BY <1>1, <3>1
    <3>4. StreamsOK
      <4> HIDE DEF x
      <4> QED BY <3>2, <3>3, StreamMoves
    <3>5. seen' \in [Client -> SUBSET Ticket]
      <4> DEFINE shown == Head(replay)
      <4>1. seen' = [seen EXCEPT ![c] = @ \cup {shown}] /\ shown \in Ticket
        BY <1>11, <2>3, <3>1 DEF SendReplay, Shows
      <4> HIDE DEF shown
      <4> QED BY <1>1, <4>1
    <3> QED BY <1>1, <1>11, <3>4, <3>5 DEF SendReplay, SseTypeOK
  <2> QED BY <2>2, <2>3
<1>12. ASSUME NEW c \in Client, SendLive(c)
       PROVE  SseTypeOK'
  <2> DEFINE queue == stream[c].queue
             x == [stream[c] EXCEPT !.queue = Tail(queue), !.last = Head(queue)]
  <2>1. /\ queue \in Seq(Ticket) /\ queue # <<>> /\ Len(queue) <= MaxQueue
        /\ Len(queue) \in Nat
    BY <1>1, <1>12, LenProperties DEF SendLive
  <2>2. Head(queue) \in Ticket /\ Tail(queue) \in Seq(Ticket) /\ Len(Tail(queue)) = Len(queue) - 1
    BY <2>1, HeadTailProperties
  <2>3. stream' = [stream EXCEPT ![c] = x]
    BY <1>12 DEF SendLive
  <2>4. Len(Tail(queue)) <= MaxQueue
    BY <1>2, <2>1, <2>2
  <2>5. x \in StreamRecord /\ Len(x.queue) <= MaxQueue
    BY <1>1, <2>2, <2>4
  <2>6. StreamsOK
    <3> HIDE DEF x
    <3> QED BY <2>3, <2>5, StreamMoves
  <2>7. seen' \in [Client -> SUBSET Ticket]
    BY <1>1, <1>12, <2>2 DEF SendLive, Shows
  <2> QED BY <1>1, <1>12, <2>6, <2>7 DEF SendLive, SseTypeOK
<1>13. \A last \in Ticket \cup {NoTicket} :
         Off(last) \in StreamRecord /\ Len(Off(last).queue) <= MaxQueue
  BY <1>2, EmptySeq DEF Off
<1>14. ASSUME NEW c \in Client, Disconnect(c)
       PROVE  SseTypeOK'
  <2> DEFINE x == Off(stream[c].last)
  <2>1. x \in StreamRecord /\ Len(x.queue) <= MaxQueue /\ stream' = [stream EXCEPT ![c] = x]
    BY <1>1, <1>13, <1>14 DEF Disconnect
  <2>2. StreamsOK
    <3> HIDE DEF x
    <3> QED BY <2>1, StreamMoves
  <2>3. trust' \in [Client -> Trust]
    BY <1>1, <1>14 DEF Disconnect, Settled
  <2> QED BY <1>1, <1>14, <2>2, <2>3 DEF Disconnect, SseTypeOK
<1>15. CASE Restart
  <2>1. StreamsOK
    BY <1>1, <1>13, <1>15 DEF Restart
  <2>2. history' \in Seq(Ticket)
    BY <1>15, EmptySeq DEF Restart
  <2>3. upload' \in [Ticket -> {"none", "committed", "published", "finished", "lost"}]
    BY <1>1, <1>15 DEF Restart
  <2>4. trust' \in [Client -> Trust]
    BY <1>1, <1>15 DEF Restart, Settled
  <2> QED BY <1>1, <1>15, <2>1, <2>2, <2>3, <2>4 DEF Restart, SseTypeOK
<1> QED BY <1>4, <1>5, <1>6, <1>7, <1>8, <1>9, <1>10, <1>11, <1>12, <1>14, <1>15 DEF SseNext

(* Nothing is created and nobody listens at the start.                       *)
LEMMA SseTypeStart == SseInit => SseTypeOK
BY SseAssumption, EmptySeq DEF SseInit, SseTypeOK, Off

(***************************************************************************)
(* Recovery after a gap.  The order of creation is the order of the rows;  *)
(* a stream is described by what it still owes its dashboard.              *)
(***************************************************************************)
Later(s, a, b) == \E i, j \in DOMAIN s : i < j /\ s[i] = a /\ s[j] = b

(* The last n of a list; the rows a list returns, and those of them whose    *)
(* upload came through.                                                     *)
LastOf(s, n) == SubSeq(s, IF Len(s) > n THEN Len(s) - n + 1 ELSE 1, Len(s))
Recent(s)    == ToSet(LastOf(s, ListLimit))
Owed(s, up)  == {t \in Recent(s) : up[t] # "lost"}
Out(up)      == {t \in Ticket : up[t] \in {"published", "finished"}}

(* Rows stay, nothing but rows is announced or buffered, and nothing twice.  *)
NoRepeats(s)     == \A i, j \in DOMAIN s : s[i] = s[j] => i = j
RowsOK(s, up, h) == /\ \A t \in Ticket : t \in ToSet(s) <=> up[t] # "none"
                    /\ ToSet(h) \subseteq ToSet(s)
                    /\ NoRepeats(s) /\ NoRepeats(h)

(* Queue and replay hold rows, in the order of creation, and are empty when  *)
(* the stream has no use for them.                                          *)
ShapeOK(s, up, x) ==
    /\ x.last # NoTicket => x.last \in ToSet(s)
    /\ x.at # "replay" => x.replay = <<>>
    /\ x.at \notin Subscribed => x.queue = <<>>
    /\ ToSet(x.queue) \subseteq Out(up)
    /\ \A i, j \in DOMAIN x.queue : i < j => Later(s, x.queue[i], x.queue[j])
    /\ ToSet(x.replay) \subseteq ToSet(s)
    /\ \A i, j \in DOMAIN x.replay : i < j => ~Later(s, x.replay[j], x.replay[i])

(* A dashboard has seen what is owed up to its last event.                   *)
CaughtUp(s, up, x, shown) ==
    x.last # NoTicket => \A t \in Owed(s, up) : Later(s, x.last, t) \/ t \in shown

(* What it has not seen is in its replay, or comes after the replay: in its  *)
(* queue, or announced later.                                               *)
StillComes(s, up, x, shown) ==
    x.at \in {"replay", "live"} =>
        \A t \in Owed(s, up) :
            \/ t \in shown \cup ToSet(x.replay)
            \/ /\ up[t] = "committed" \/ t \in ToSet(x.queue)
               /\ \A r \in ToSet(x.replay) : Later(s, r, t)
Served(s, up, x, shown) == CaughtUp(s, up, x, shown) /\ StillComes(s, up, x, shown)

(* What a dashboard that has its list has not seen is in the buffer, or comes *)
(* after all the buffer holds: a replay needs no database.                   *)
Buffered(s, up, h, shown) ==
    \A t \in Owed(s, up) : \/ t \in shown \cup ToSet(h)
                           \/ /\ up[t] = "committed"
                              /\ \A r \in ToSet(h) : Later(s, r, t)

Follows(s, up, h, x, shown, tr) ==
    /\ ShapeOK(s, up, x)
    /\ tr # "lost" => Served(s, up, x, shown)
    /\ tr = "listed" => x.at \in {"fetched", "open"} /\ Buffered(s, up, h, shown)

SseInv == /\ SseTypeOK
          /\ RowsOK(created, upload, history)
          /\ \A c \in Client :
                Follows(created, upload, history, stream[c], seen[c], trust[c])

(* Of two rows one is the later.                                             *)
LEMMA OneIsLater ==
  ASSUME NEW s \in Seq(Ticket), NEW a \in ToSet(s), NEW b \in ToSet(s), a # b
  PROVE  Later(s, a, b) \/ Later(s, b, a)
<1>1. Len(s) \in Nat
  BY LenProperties
<1>2. PICK i \in DOMAIN s : s[i] = a
  BY DEF ToSet
<1>3. PICK j \in DOMAIN s : s[j] = b
  BY DEF ToSet
<1>4. i < j \/ j < i
  BY <1>1, <1>2, <1>3
<1> QED BY <1>2, <1>3, <1>4 DEF Later

(* The later rows of a list are rows.                                        *)
LEMMA LaterRows ==
  ASSUME NEW s \in Seq(Ticket), NEW a, NEW b, Later(s, a, b)
  PROVE  a \in ToSet(s) /\ b \in ToSet(s)
BY DEF Later, ToSet

(* A new row comes after the others and leaves their order alone.            *)
LEMMA NewRow ==
  ASSUME NEW s \in Seq(Ticket), NEW t \in Ticket, t \notin ToSet(s)
  PROVE  /\ ToSet(Append(s, t)) = ToSet(s) \cup {t}
         /\ \A a, b \in Ticket : Later(s, a, b) => Later(Append(s, t), a, b)
         /\ \A a \in ToSet(s) : Later(Append(s, t), a, t)
         /\ \A a, b \in ToSet(s) : Later(Append(s, t), a, b) => Later(s, a, b)
<1> DEFINE s2 == Append(s, t)
           n == Len(s)
<1>1. /\ n \in Nat /\ DOMAIN s = 1..n /\ DOMAIN s2 = 1..(n + 1)
      /\ \A i \in 1..n : s2[i] = s[i]
      /\ s2[n + 1] = t
  BY LenProperties, AppendProperties
<1> HIDE DEF s2, n
<1>2. ToSet(s2) = ToSet(s) \cup {t}
  <2>1. 1..(n + 1) = (1..n) \cup {n + 1}
    BY <1>1
  <2> QED BY <1>1, <2>1 DEF ToSet
<1>3. ASSUME NEW a, NEW b, Later(s, a, b)
      PROVE  Later(s2, a, b)
  BY <1>1, <1>3 DEF Later
<1>4. ASSUME NEW a \in ToSet(s)
      PROVE  Later(s2, a, t)
  <2>1. PICK i \in 1..n : s[i] = a
    BY <1>1, <1>4 DEF ToSet
  <2>2. i < n + 1 /\ i \in 1..(n + 1) /\ n + 1 \in 1..(n + 1)
    BY <1>1
  <2> QED BY <1>1, <2>1, <2>2 DEF Later
<1>5. ASSUME NEW a \in ToSet(s), NEW b \in ToSet(s), Later(s2, a, b)
      PROVE  Later(s, a, b)
  <2>1. PICK i, j \in 1..(n + 1) : i < j /\ s2[i] = a /\ s2[j] = b
    BY <1>1, <1>5 DEF Later
  <2>2. i # n + 1 /\ j # n + 1
    BY <1>1, <2>1
  <2>3. i \in 1..n /\ j \in 1..n
    BY <1>1, <2>2
  <2> QED BY <1>1, <2>1, <2>3 DEF Later
<1> QED BY <1>2, <1>3, <1>4, <1>5 DEF s2

(* The end of a list holds nothing but what the list holds.                  *)
LEMMA EndHolds ==
  ASSUME NEW h \in Seq(Ticket), NEW from \in Nat, from >= 1
  PROVE  /\ SubSeq(h, from, Len(h)) \in Seq(Ticket)
         /\ \A i \in DOMAIN SubSeq(h, from, Len(h)) :
               /\ (from + i) - 1 \in DOMAIN h
               /\ SubSeq(h, from, Len(h))[i] = h[(from + i) - 1]
         /\ \A j \in DOMAIN h : j >= from => h[j] \in ToSet(SubSeq(h, from, Len(h)))
         /\ ToSet(SubSeq(h, from, Len(h))) \subseteq ToSet(h)
<1> DEFINE n == Len(h)
           e == SubSeq(h, from, n)
<1>1. n \in Nat /\ DOMAIN h = 1..n
  BY LenProperties
<1>2. \A i \in from..n : h[i] \in Ticket
  BY <1>1, ElementOfSeq
<1>3. /\ e \in Seq(Ticket)
      /\ Len(e) = IF from <= n THEN (n - from) + 1 ELSE 0
      /\ \A i \in 1..((n - from) + 1) : e[i] = h[(from + i) - 1]
  BY <1>1, <1>2, SubSeqProperties, SMTT(30)
<1>4. DOMAIN e = 1..Len(e)
  BY <1>3, LenProperties
<1> HIDE DEF e, n
<1>5. DOMAIN e = 1..((n - from) + 1)
  BY <1>1, <1>3, <1>4
<1>6. \A i \in 1..((n - from) + 1) : (from + i) - 1 \in 1..n
  BY <1>1
<1>7. ASSUME NEW j \in 1..n, j >= from
      PROVE  h[j] \in ToSet(e)
  <2>1. (j - from) + 1 \in 1..((n - from) + 1) /\ (from + ((j - from) + 1)) - 1 = j
    BY <1>1, <1>7
  <2>2. e[(j - from) + 1] = h[j]
    BY <1>3, <2>1
  <2> QED BY <1>5, <2>1, <2>2 DEF ToSet
<1>8. ToSet(e) \subseteq ToSet(h)
  BY <1>1, <1>3, <1>5, <1>6 DEF ToSet
<1> QED BY <1>1, <1>3, <1>5, <1>6, <1>7, <1>8 DEF e, n

(* The last n of a list are those at its last n places.                      *)
LEMMA LastPlaces ==
  ASSUME NEW s \in Seq(Ticket), NEW limit \in Nat
  PROVE  /\ LastOf(s, limit) \in Seq(Ticket)
         /\ ToSet(LastOf(s, limit)) = {s[i] : i \in {j \in DOMAIN s : j > Len(s) - limit}}
<1> DEFINE n == Len(s)
           from == IF n > limit THEN n - limit + 1 ELSE 1
           e == SubSeq(s, from, n)
<1>1. n \in Nat /\ DOMAIN s = 1..n
  BY LenProperties
<1>2. from \in Nat /\ from >= 1 /\ from <= n + 1
  BY <1>1
<1>3. \A j \in 1..n : j > n - limit <=> j >= from
  BY <1>1
<1>4. LastOf(s, limit) = e
  BY DEF LastOf
<1> HIDE DEF from
<1>5. \A i \in from..n : s[i] \in Ticket
  BY <1>2, ElementOfSeq
<1>6. /\ e \in Seq(Ticket) /\ Len(e) = (n - from) + 1
      /\ \A i \in 1..((n - from) + 1) : e[i] = s[(from + i) - 1]
  BY <1>1, <1>2, <1>5, SubSeqProperties, SMTT(30)
<1>7. DOMAIN e = 1..((n - from) + 1)
  BY <1>6, LenProperties
<1> HIDE DEF e, n
<1>8. ASSUME NEW j \in 1..n, j >= from
      PROVE  s[j] \in ToSet(e)
  <2>1. (j - from) + 1 \in 1..((n - from) + 1) /\ (from + ((j - from) + 1)) - 1 = j
    BY <1>1, <1>2, <1>8
  <2>2. e[(j - from) + 1] = s[j]
    BY <1>6, <2>1
  <2> QED BY <1>7, <2>1, <2>2 DEF ToSet
<1>9. ASSUME NEW t \in ToSet(e)
      PROVE  \E j \in 1..n : j >= from /\ s[j] = t
  <2>1. PICK i \in 1..((n - from) + 1) : e[i] = t
    BY <1>7 DEF ToSet
  <2>2. (from + i) - 1 \in 1..n /\ (from + i) - 1 >= from
    BY <1>1, <1>2
  <2> QED BY <1>6, <2>1, <2>2
<1> QED BY <1>1, <1>3, <1>4, <1>6, <1>8, <1>9 DEF n

(* The recent rows are at the last ListLimit places, and a synchronisation   *)
(* reads them all.                                                          *)
LEMMA RecentRows ==
  ASSUME NEW s \in Seq(Ticket)
  PROVE  /\ Recent(s) = {s[i] : i \in {j \in DOMAIN s : j > Len(s) - ListLimit}}
         /\ Recent(s) \subseteq ToSet(LastOf(s, SyncLimit))
         /\ ToSet(LastOf(s, SyncLimit)) \subseteq ToSet(s)
<1>1. Len(s) \in Nat /\ DOMAIN s = 1..Len(s)
  BY LenProperties
<1>2. ListLimit \in Nat /\ SyncLimit \in Nat /\ ListLimit <= SyncLimit
  BY SseAssumption
<1>3. /\ Recent(s) = {s[i] : i \in {j \in DOMAIN s : j > Len(s) - ListLimit}}
      /\ ToSet(LastOf(s, SyncLimit)) = {s[i] : i \in {j \in DOMAIN s : j > Len(s) - SyncLimit}}
  BY <1>2, LastPlaces DEF Recent
<1>4. \A j \in DOMAIN s : j > Len(s) - ListLimit => j > Len(s) - SyncLimit
  BY <1>1, <1>2
<1> QED BY <1>3, <1>4 DEF ToSet

(* They are rows, and a new row only adds itself.                            *)
LEMMA RecentAppend ==
  ASSUME NEW s \in Seq(Ticket), NEW t \in Ticket
  PROVE  /\ Recent(s) \subseteq ToSet(s)
         /\ Recent(Append(s, t)) \subseteq Recent(s) \cup {t}
<1> DEFINE s2 == Append(s, t)
           n == Len(s)
<1>1. /\ n \in Nat /\ ListLimit \in Nat /\ DOMAIN s = 1..n /\ DOMAIN s2 = 1..(n + 1)
      /\ \A i \in 1..n : s2[i] = s[i]
      /\ s2[n + 1] = t /\ s2 \in Seq(Ticket) /\ Len(s2) = n + 1
  BY SseAssumption, LenProperties, AppendProperties
<1>2. Recent(s) = {s[i] : i \in {j \in 1..n : j > n - ListLimit}}
  BY <1>1, RecentRows
<1>3. Recent(s2) = {s2[i] : i \in {j \in 1..(n + 1) : j > (n + 1) - ListLimit}}
  BY <1>1, RecentRows, Zenon
<1> HIDE DEF s2, n
<1>4. Recent(s) \subseteq ToSet(s)
  BY <1>1, <1>2 DEF ToSet
<1>5. ASSUME NEW b \in Recent(s2), b # t
      PROVE  b \in Recent(s)
  <2>1. PICK i \in 1..(n + 1) : i > (n + 1) - ListLimit /\ s2[i] = b
    BY <1>3
  <2>2. i \in 1..n /\ i > n - ListLimit
    BY <1>1, <1>5, <2>1
  <2> QED BY <1>1, <1>2, <2>1, <2>2
<1> QED BY <1>4, <1>5 DEF s2

(* A new element does not repeat any.                                        *)
LEMMA NewOnce ==
  ASSUME NEW s \in Seq(Ticket), NEW t \in Ticket, t \notin ToSet(s), NoRepeats(s)
  PROVE  NoRepeats(Append(s, t))
<1> DEFINE s2 == Append(s, t)
           n == Len(s)
<1>1. /\ n \in Nat /\ DOMAIN s = 1..n /\ DOMAIN s2 = 1..(n + 1)
      /\ \A i \in 1..n : s2[i] = s[i]
      /\ s2[n + 1] = t
  BY LenProperties, AppendProperties
<1> HIDE DEF s2, n
<1>2. \A i \in 1..(n + 1) : i = n + 1 \/ i \in 1..n
  BY <1>1
<1>3. \A i \in 1..n : s2[i] # t
  BY <1>1 DEF ToSet
<1>4. \A i, j \in 1..(n + 1) : s2[i] = s2[j] => i = j
  BY <1>1, <1>2, <1>3 DEF NoRepeats
<1> QED BY <1>1, <1>4 DEF NoRepeats, s2

(* Recording a ticket adds it; trimming adds nothing; neither repeats any.   *)
LEMMA BufferHolds ==
  ASSUME NEW h \in Seq(Ticket), NEW t \in Ticket
  PROVE  /\ ToSet(Assign(h, t)) = ToSet(h) \cup {t}
         /\ ToSet(Trimmed(h)) \subseteq ToSet(h)
         /\ NoRepeats(h) => NoRepeats(Assign(h, t)) /\ NoRepeats(Trimmed(h))
<1>1. /\ ToSet(Assign(h, t)) = ToSet(h) \cup {t}
      /\ NoRepeats(h) => NoRepeats(Assign(h, t))
  <2>1. CASE t \in ToSet(h)
    BY <2>1 DEF Assign
  <2>2. CASE t \notin ToSet(h)
    BY <2>2, NewRow, NewOnce DEF Assign
  <2> QED BY <2>1, <2>2
<1>2. /\ ToSet(Trimmed(h)) \subseteq ToSet(h)
      /\ NoRepeats(h) => NoRepeats(Trimmed(h))
  <2> DEFINE n == Len(h)
             from == IF n > MaxHistory THEN n - MaxHistory + 1 ELSE 1
             e == Trimmed(h)
  <2>1. n \in Nat /\ DOMAIN h = 1..n /\ MaxHistory \in Nat
    BY SseAssumption, LenProperties
  <2>2. from \in Nat /\ from >= 1
    BY <2>1
  <2>3. e = SubSeq(h, from, n)
    BY DEF Trimmed
  <2> HIDE DEF from, e
  <2>4. /\ e \in Seq(Ticket) /\ ToSet(e) \subseteq ToSet(h)
        /\ \A i \in DOMAIN e : (from + i) - 1 \in DOMAIN h /\ e[i] = h[(from + i) - 1]
    BY <2>2, <2>3, EndHolds DEF n
  <2>5. DOMAIN e \subseteq Nat
    BY <2>4, LenProperties
  <2>6. ASSUME NoRepeats(h), NEW i \in DOMAIN e, NEW j \in DOMAIN e, e[i] = e[j]
        PROVE  i = j
    <3>1. (from + i) - 1 = (from + j) - 1
      BY <2>4, <2>6 DEF NoRepeats
    <3> QED BY <2>2, <2>5, <3>1
  <2> QED BY <2>4, <2>6 DEF NoRepeats, e
<1> QED BY <1>1, <1>2

(* Trimming keeps the recent rows: the tickets that follow one of them in the *)
(* buffer follow it among the rows, too few to push it out.                  *)
LEMMA TrimKeepsRecent ==
  ASSUME NEW s \in Seq(Ticket), NEW h \in Seq(Ticket), NoRepeats(s), NoRepeats(h),
         ToSet(h) \subseteq ToSet(s), \A k, l \in DOMAIN h : Later(s, h[k], h[l]) => k < l,
         NEW t \in Ticket, NEW a \in Recent(s), a \in ToSet(h)
  PROVE  a \in ToSet(Trimmed(Assign(h, t)))
<1> DEFINE n == Len(h)
           m == Len(s)
           g == Assign(h, t)
<1>1. /\ n \in Nat /\ DOMAIN h = 1..n
      /\ m \in Nat /\ DOMAIN s = 1..m
      /\ MaxHistory \in Nat /\ ListLimit \in Nat /\ ListLimit < MaxHistory
  BY SseAssumption, LenProperties
<1>2. PICK k \in 1..n : h[k] = a
  BY <1>1 DEF ToSet
<1>3. PICK p \in 1..m : p > m - ListLimit /\ s[p] = a
  BY <1>1, RecentRows
<1>4. /\ g \in Seq(Ticket) /\ Len(g) \in Nat /\ Len(g) <= n + 1 /\ n <= Len(g)
      /\ DOMAIN g = 1..Len(g) /\ \A i \in 1..n : g[i] = h[i]
  <2>1. CASE t \in ToSet(h)
    BY <1>1, <2>1 DEF Assign
  <2>2. CASE t \notin ToSet(h)
    <3>1. g = Append(h, t)
      BY <2>2 DEF Assign
    <3>2. /\ g \in Seq(Ticket) /\ Len(g) = n + 1
          /\ \A i \in 1..n : g[i] = h[i]
      BY <3>1, AppendProperties
    <3>3. DOMAIN g = 1..Len(g)
      BY <3>2, LenProperties
    <3> HIDE DEF g
    <3> QED BY <1>1, <3>2, <3>3
  <2> QED BY <2>1, <2>2
<1>5. ToSet(Trimmed(g)) = {g[i] : i \in {j \in DOMAIN g : j > Len(g) - MaxHistory}}
  <2>1. Trimmed(g) = LastOf(g, MaxHistory)
    BY DEF Trimmed, LastOf
  <2> HIDE DEF g
  <2> QED BY <1>1, <1>4, <2>1, LastPlaces
<1> HIDE DEF n, m, g
<1>6. \A l \in (k + 1)..n : \E q \in (p + 1)..m : s[q] = h[l]
  <2> SUFFICES ASSUME NEW l \in (k + 1)..n PROVE \E q \in (p + 1)..m : s[q] = h[l]
    OBVIOUS
  <2>1. l \in 1..n /\ k < l /\ ~(l < k)
    BY <1>1
  <2>2. h[l] # a
    BY <1>1, <1>2, <2>1 DEF NoRepeats
  <2>3. h[l] \in ToSet(s) /\ a \in ToSet(s)
    BY <1>1, <2>1 DEF ToSet
  <2>4. ~Later(s, h[l], a)
    BY <1>1, <1>2, <2>1
  <2>5. Later(s, a, h[l])
    BY <2>2, <2>3, <2>4, OneIsLater
  <2>6. PICK i, j \in 1..m : i < j /\ s[i] = a /\ s[j] = h[l]
    BY <1>1, <2>5 DEF Later
  <2>7. i = p
    BY <1>1, <1>3, <2>6 DEF NoRepeats
  <2>8. j \in (p + 1)..m
    BY <1>1, <2>6, <2>7
  <2> QED BY <2>6, <2>8
<1> DEFINE f == [l \in (k + 1)..n |-> CHOOSE q \in (p + 1)..m : s[q] = h[l]]
<1>7. f \in [(k + 1)..n -> (p + 1)..m] /\ \A l \in (k + 1)..n : s[f[l]] = h[l]
  BY <1>6
<1> HIDE DEF f
<1>8. \A l1, l2 \in (k + 1)..n : f[l1] = f[l2] => l1 = l2
  <2>1. \A l \in (k + 1)..n : l \in DOMAIN h
    BY <1>1
  <2> QED BY <1>7, <2>1 DEF NoRepeats
<1>9. /\ IsFiniteSet((k + 1)..n) /\ IsFiniteSet((p + 1)..m)
      /\ Cardinality((k + 1)..n) = n - k
      /\ Cardinality((p + 1)..m) = m - p
  <2>1. k + 1 \in Int /\ n \in Int /\ p + 1 \in Int /\ m \in Int
    BY <1>1
  <2>2. /\ IsFiniteSet((k + 1)..n) /\ IsFiniteSet((p + 1)..m)
        /\ Cardinality((k + 1)..n) = IF k + 1 > n THEN 0 ELSE (n - (k + 1)) + 1
        /\ Cardinality((p + 1)..m) = IF p + 1 > m THEN 0 ELSE (m - (p + 1)) + 1
    BY <2>1, FS_Interval
  <2>3. /\ (IF k + 1 > n THEN 0 ELSE (n - (k + 1)) + 1) = n - k
        /\ (IF p + 1 > m THEN 0 ELSE (m - (p + 1)) + 1) = m - p
    BY <1>1
  <2> QED BY <2>2, <2>3
<1>10. ~(m - p < n - k)
  <2> SUFFICES ASSUME m - p < n - k PROVE FALSE
    OBVIOUS
  <2>1. Cardinality((p + 1)..m) < Cardinality((k + 1)..n)
    BY <1>9
  <2> DEFINE after == (k + 1)..n
             places == (p + 1)..m
  <2>2. \E l1, l2 \in after : l1 # l2 /\ f[l1] = f[l2]
    <3>1. /\ IsFiniteSet(after) /\ IsFiniteSet(places) /\ f \in [after -> places]
          /\ Cardinality(places) < Cardinality(after)
      BY <1>7, <1>9, <2>1
    <3> HIDE DEF after, places
    <3> QED BY <3>1, FS_PigeonHole, Zenon
  <2> QED BY <1>8, <2>2
<1>11. k \in 1..Len(g) /\ k > Len(g) - MaxHistory
  BY <1>1, <1>3, <1>4, <1>10
<1>12. g[k] = a
  BY <1>2, <1>4
<1>13. a \in ToSet(Trimmed(g))
  BY <1>4, <1>5, <1>11, <1>12
<1> QED BY <1>13 DEF g

(* Recording a list of tickets adds them all, and repeats none.              *)
LEMMA AllHeld ==
  ASSUME NEW h \in Seq(Ticket), NEW s \in Seq(Ticket)
  PROVE  /\ AssignAll(h, s) \in Seq(Ticket)
         /\ ToSet(AssignAll(h, s)) = ToSet(h) \cup ToSet(s)
         /\ NoRepeats(h) => NoRepeats(AssignAll(h, s))
<1>1. /\ Len(s) \in Nat /\ \A i \in 1..Len(s) : s[i] \in Ticket
      /\ DOMAIN s = 1..Len(s)
  BY LenProperties, ElementOfSeq
<1>2. PICK after \in [0..Len(s) -> Seq(Ticket)] :
         Assigned(h, s, Len(s), after) /\ AssignAll(h, s) = after[Len(s)]
  BY AllAssigned
<1> DEFINE Held(n) == /\ ToSet(after[n]) = ToSet(h) \cup {s[i] : i \in 1..n}
                      /\ NoRepeats(h) => NoRepeats(after[n])
           T == {n \in Nat : n <= Len(s) => Held(n)}
<1>3. 0 \in T
  BY <1>2 DEF Assigned
<1>4. ASSUME NEW n \in Nat, n \in T PROVE n + 1 \in T
  <2> SUFFICES ASSUME n + 1 <= Len(s) PROVE Held(n + 1)
    OBVIOUS
  <2>1. n \in 0..Len(s) /\ n + 1 \in 1..Len(s)
    BY <1>1
  <2>2. Held(n)
    <3> HIDE DEF Held
    <3> QED BY <1>4, <2>1
  <2>3. after[n] \in Seq(Ticket) /\ s[n + 1] \in Ticket
    BY <1>1, <1>2, <2>1
  <2>4. after[n + 1] = Assign(after[(n + 1) - 1], s[n + 1]) /\ (n + 1) - 1 = n
    BY <1>2, <2>1 DEF Assigned
  <2>5. /\ ToSet(after[n + 1]) = ToSet(after[n]) \cup {s[n + 1]}
        /\ NoRepeats(after[n]) => NoRepeats(after[n + 1])
    BY <2>3, <2>4, BufferHolds
  <2>6. 1..(n + 1) = (1..n) \cup {n + 1}
    OBVIOUS
  <2>7. {s[i] : i \in 1..(n + 1)} = {s[i] : i \in 1..n} \cup {s[n + 1]}
    BY <2>6
  <2> QED BY <2>2, <2>5, <2>7
<1> HIDE DEF T
<1>5. Nat \subseteq T
  BY <1>3, <1>4, SetInduction
<1>6. Held(Len(s))
  <2>1. Len(s) \in T /\ Len(s) <= Len(s)
    BY <1>1, <1>5
  <2> HIDE DEF Held
  <2> QED BY <2>1, Zenon DEF T
<1>7. ToSet(s) = {s[i] : i \in 1..Len(s)}
  BY <1>1 DEF ToSet
<1>8. after[Len(s)] \in Seq(Ticket)
  BY <1>1, <1>2
<1> QED BY <1>2, <1>6, <1>7, <1>8

(* The first of a queue and the others.                                      *)
LEMMA FirstAndRest ==
  ASSUME NEW q \in Seq(Ticket), q # <<>>
  PROVE  /\ Head(q) \in Ticket /\ Tail(q) \in Seq(Ticket) /\ 1 \in DOMAIN q
         /\ Head(q) = q[1]
         /\ \A i \in DOMAIN Tail(q) : i + 1 \in DOMAIN q /\ Tail(q)[i] = q[i + 1]
         /\ ToSet(q) = {Head(q)} \cup ToSet(Tail(q))
         /\ \A t \in ToSet(q) : t # Head(q) => \E i \in DOMAIN q : 1 < i /\ q[i] = t
<1> DEFINE n == Len(q)
           r == Tail(q)
<1>1. /\ n \in Nat /\ n # 0 /\ DOMAIN q = 1..n
      /\ r \in Seq(Ticket) /\ DOMAIN r = 1..(n - 1) /\ \A i \in 1..(n - 1) : r[i] = q[i + 1]
      /\ Head(q) \in Ticket /\ Head(q) = q[1]
  <2>1. n \in Nat /\ n # 0 /\ DOMAIN q = 1..n
    BY LenProperties, EmptySeq
  <2>2. r \in Seq(Ticket) /\ Len(r) = n - 1 /\ Head(q) \in Ticket
    BY HeadTailProperties
  <2>3. \A i \in 1..(n - 1) : r[i] = q[i + 1]
    BY <2>2, HeadTailProperties
  <2>4. DOMAIN r = 1..(n - 1)
    BY <2>2, LenProperties
  <2>5. Head(q) = q[1]
    OBVIOUS
  <2> QED BY <2>1, <2>2, <2>3, <2>4, <2>5
<1> HIDE DEF n, r
<1>2. \A i \in 1..(n - 1) : i + 1 \in 1..n
  BY <1>1
<1>3. \A i \in 1..n : i # 1 => i - 1 \in 1..(n - 1) /\ (i - 1) + 1 = i /\ 1 < i
  BY <1>1
<1>4. ASSUME NEW t \in ToSet(q), t # Head(q)
      PROVE  t \in ToSet(r) /\ \E i \in DOMAIN q : 1 < i /\ q[i] = t
  <2>1. PICK i \in 1..n : q[i] = t
    BY <1>1 DEF ToSet
  <2>2. i # 1
    BY <1>1, <1>4, <2>1
  <2>3. r[i - 1] = t /\ i - 1 \in DOMAIN r
    BY <1>1, <1>3, <2>1, <2>2
  <2> QED BY <1>1, <1>3, <2>1, <2>2, <2>3 DEF ToSet
<1>5. ToSet(r) \subseteq ToSet(q)
  BY <1>1, <1>2 DEF ToSet
<1>6. Head(q) \in ToSet(q) /\ 1 \in 1..n
  BY <1>1 DEF ToSet
<1> QED BY <1>1, <1>2, <1>4, <1>5, <1>6 DEF r

(* The rows are tickets.                                                     *)
LEMMA RowsInTicket ==
  ASSUME NEW s \in Seq(Ticket)
  PROVE  ToSet(s) \subseteq Ticket
BY LenProperties, ElementOfSeq DEF ToSet

(* So are the recent ones.                                                   *)
LEMMA RecentInTicket ==
  ASSUME NEW s \in Seq(Ticket)
  PROVE  Recent(s) \subseteq Ticket /\ Recent(s) \subseteq ToSet(s)
<1>1. CASE Ticket = {}
  <2>1. DOMAIN s = {}
    BY <1>1, LenProperties, ElementOfSeq
  <2> QED BY <2>1, RecentRows DEF ToSet
<1>2. CASE Ticket # {}
  BY <1>2, RecentAppend, RowsInTicket
<1> QED BY <1>1, <1>2

Uploads == [Ticket -> {"none", "committed", "published", "finished", "lost"}]

(* None is announced while an older one is yet to be.                        *)
Ordered(s, up) == \A a, b \in Ticket : Later(s, a, b) /\ b \in Out(up) => up[a] # "committed"

(* A new row comes after all a stream has to show, and is yet to be announced. *)
LEMMA CommitFollows ==
  ASSUME NEW s \in Seq(Ticket), NEW up \in Uploads, NEW t \in Ticket,
         t \notin ToSet(s), up[t] = "none",
         NEW h, ToSet(h) \subseteq ToSet(s), NEW tr,
         NEW x \in StreamRecord, NEW shown \in SUBSET Ticket, Follows(s, up, h, x, shown, tr)
  PROVE  Follows(Append(s, t), [up EXCEPT ![t] = "committed"], h, x, shown, tr)
<1> DEFINE s2 == Append(s, t)
           up2 == [up EXCEPT ![t] = "committed"]
<1>1. up2[t] = "committed" /\ \A a \in Ticket : a # t => up2[a] = up[a]
  BY DEF Uploads
<1>2. Out(up2) = Out(up)
  BY <1>1 DEF Out
<1>3. /\ ToSet(s2) = ToSet(s) \cup {t}
      /\ \A a, b \in Ticket : Later(s, a, b) => Later(s2, a, b)
      /\ \A a \in ToSet(s) : Later(s2, a, t)
      /\ \A a, b \in ToSet(s) : Later(s2, a, b) => Later(s, a, b)
  BY NewRow
<1>4. \A a \in Owed(s2, up2) : a = t \/ a \in Owed(s, up)
  BY <1>1, RecentAppend, RowsInTicket DEF Owed
<1> HIDE DEF s2, up2
<1>5. /\ x.queue \in Seq(Ticket) /\ x.replay \in Seq(Ticket)
      /\ \A i \in DOMAIN x.queue : x.queue[i] \in Ticket
      /\ \A i \in DOMAIN x.replay : x.replay[i] \in ToSet(x.replay)
      /\ x.last \in Ticket \cup {NoTicket}
  BY LenProperties, ElementOfSeq DEF StreamRecord, ToSet
<1>6. ShapeOK(s, up, x)
  BY DEF Follows
<1>7. ShapeOK(s2, up2, x)
  BY <1>2, <1>3, <1>5, <1>6 DEF ShapeOK
<1>8. ASSUME CaughtUp(s, up, x, shown) PROVE CaughtUp(s2, up2, x, shown)
  <2> SUFFICES ASSUME x.last # NoTicket, NEW a \in Owed(s2, up2)
               PROVE  Later(s2, x.last, a) \/ a \in shown
    BY DEF CaughtUp
  <2>1. CASE a = t
    BY <1>3, <1>6, <2>1 DEF ShapeOK
  <2>2. CASE a \in Owed(s, up)
    BY <1>3, <1>5, <1>8, <2>2, RecentAppend, RowsInTicket DEF CaughtUp, Owed
  <2> QED BY <1>4, <2>1, <2>2
<1>9. ASSUME StillComes(s, up, x, shown) PROVE StillComes(s2, up2, x, shown)
  <2> SUFFICES ASSUME x.at \in {"replay", "live"}, NEW a \in Owed(s2, up2)
               PROVE  \/ a \in shown \cup ToSet(x.replay)
                      \/ /\ up2[a] = "committed" \/ a \in ToSet(x.queue)
                         /\ \A r \in ToSet(x.replay) : Later(s2, r, a)
    BY DEF StillComes
  <2>1. CASE a = t
    BY <1>1, <1>3, <1>6, <2>1 DEF ShapeOK
  <2>2. CASE a \in Owed(s, up) /\ a # t
    <3>1. a \in Ticket /\ up2[a] = up[a]
      BY <1>1, <2>2, RecentAppend, RowsInTicket DEF Owed
    <3>2. \A r \in ToSet(x.replay) : r \in Ticket
      BY <1>5, RowsInTicket
    <3> QED BY <1>3, <1>9, <2>2, <3>1, <3>2 DEF StillComes
  <2> QED BY <1>4, <2>1, <2>2
<1>10. ASSUME Buffered(s, up, h, shown) PROVE Buffered(s2, up2, h, shown)
  <2> SUFFICES ASSUME NEW a \in Owed(s2, up2)
               PROVE  \/ a \in shown \cup ToSet(h)
                      \/ /\ up2[a] = "committed"
                         /\ \A r \in ToSet(h) : Later(s2, r, a)
    BY DEF Buffered
  <2>1. CASE a = t
    BY <1>1, <1>3, <2>1
  <2>2. CASE a \in Owed(s, up) /\ a # t
    <3>1. a \in Ticket /\ up2[a] = up[a]
      BY <1>1, <2>2, RecentAppend, RowsInTicket DEF Owed
    <3>2. \A r \in ToSet(h) : r \in Ticket
      BY RowsInTicket
    <3> QED BY <1>3, <1>10, <2>2, <3>1, <3>2 DEF Buffered
  <2> QED BY <1>4, <2>1, <2>2
<1>11. /\ tr # "lost" => Served(s, up, x, shown)
       /\ tr = "listed" => x.at \in {"fetched", "open"} /\ Buffered(s, up, h, shown)
  BY DEF Follows
<1>12. /\ tr # "lost" => Served(s2, up2, x, shown)
       /\ tr = "listed" => x.at \in {"fetched", "open"} /\ Buffered(s2, up2, h, shown)
  BY <1>8, <1>9, <1>10, <1>11 DEF Served
<1> QED BY <1>7, <1>12 DEF Follows, s2, up2

(* A ticket that is published comes after all a stream has queued, and takes *)
(* its place at the end of the queue, if there is room for it.              *)
LEMMA PublishFollows ==
  ASSUME NEW s \in Seq(Ticket), NEW up \in Uploads, NEW t \in Ticket, up[t] = "committed",
         \A a \in Ticket : a \in ToSet(s) <=> up[a] # "none",
         Ordered(s, up),
         NEW x \in StreamRecord, NEW shown \in SUBSET Ticket, ShapeOK(s, up, x),
         NEW y \in StreamRecord,
         y.at = x.at, y.replay = x.replay, y.last = x.last,
         NEW room \in BOOLEAN,
         y.queue = IF room THEN Append(x.queue, t) ELSE x.queue,
         room => x.at \in Subscribed
  PROVE  /\ ShapeOK(s, [up EXCEPT ![t] = "published"], y)
         /\ Served(s, up, x, shown) /\ (room \/ x.at \notin {"replay", "live"}) =>
               Served(s, [up EXCEPT ![t] = "published"], y, shown)
<1> DEFINE up2 == [up EXCEPT ![t] = "published"]
<1>1. up2[t] = "published" /\ \A a \in Ticket : a # t => up2[a] = up[a]
  BY DEF Uploads
<1>2. Out(up2) = Out(up) \cup {t} /\ t \notin Out(up)
  BY <1>1 DEF Out
<1>3. Owed(s, up2) = Owed(s, up) /\ \A a \in Owed(s, up) : a \in Ticket
  BY <1>1, RecentAppend, RowsInTicket DEF Owed
<1> HIDE DEF up2
<1>4. /\ x.queue \in Seq(Ticket) /\ y.queue \in Seq(Ticket)
      /\ Len(x.queue) \in Nat /\ DOMAIN x.queue = 1..Len(x.queue)
  BY LenProperties DEF StreamRecord
<1>5. ShapeOK(s, up, x)
  OBVIOUS
<1>6. \A q \in ToSet(x.queue) : q # t /\ Later(s, q, t)
  <2> SUFFICES ASSUME NEW q \in ToSet(x.queue) PROVE q # t /\ Later(s, q, t)
    OBVIOUS
  <2>1. q \in Out(up) /\ q \in Ticket /\ q \in ToSet(s) /\ t \in ToSet(s) /\ q # t
    BY <1>2, <1>5 DEF ShapeOK, Out
  <2>2. ~Later(s, t, q)
    BY <2>1 DEF Ordered
  <2> QED BY <2>1, <2>2, OneIsLater
<1>7. CASE room
  <2>1. /\ Len(y.queue) = Len(x.queue) + 1 /\ DOMAIN y.queue = 1..(Len(x.queue) + 1)
        /\ \A i \in 1..Len(x.queue) : y.queue[i] = x.queue[i]
        /\ y.queue[Len(x.queue) + 1] = t
    <3>1. y.queue = Append(x.queue, t)
      BY <1>7
    <3> QED BY <1>4, <3>1, AppendProperties, LenProperties
  <2>2. ToSet(y.queue) = ToSet(x.queue) \cup {t}
    <3>1. 1..(Len(x.queue) + 1) = 1..Len(x.queue) \cup {Len(x.queue) + 1}
      BY <1>4
    <3> QED BY <1>4, <2>1, <3>1 DEF ToSet
  <2>3. \A i, j \in DOMAIN y.queue : i < j => Later(s, y.queue[i], y.queue[j])
    <3> SUFFICES ASSUME NEW i \in 1..(Len(x.queue) + 1), NEW j \in 1..(Len(x.queue) + 1), i < j
                 PROVE  Later(s, y.queue[i], y.queue[j])
      BY <2>1
    <3>1. i \in 1..Len(x.queue)
      BY <1>4
    <3>2. y.queue[i] = x.queue[i] /\ x.queue[i] \in ToSet(x.queue)
      BY <1>4, <2>1, <3>1 DEF ToSet
    <3>3. CASE j = Len(x.queue) + 1
      BY <1>6, <2>1, <3>2, <3>3
    <3>4. CASE j \in 1..Len(x.queue)
      BY <1>4, <1>5, <2>1, <3>1, <3>4 DEF ShapeOK
    <3>5. j = Len(x.queue) + 1 \/ j \in 1..Len(x.queue)
      BY <1>4
    <3> QED BY <3>3, <3>4, <3>5
  <2>4. ShapeOK(s, up2, y)
    BY <1>2, <1>5, <1>7, <2>2, <2>3 DEF ShapeOK
  <2>5. ASSUME CaughtUp(s, up, x, shown) PROVE CaughtUp(s, up2, y, shown)
    BY <1>3, <2>5 DEF CaughtUp
  <2>6. ASSUME StillComes(s, up, x, shown) PROVE StillComes(s, up2, y, shown)
    BY <1>1, <1>3, <2>2, <2>6 DEF StillComes
  <2> QED BY <2>4, <2>5, <2>6 DEF Served, up2
<1>8. CASE ~room
  <2>1. ShapeOK(s, up2, y)
    BY <1>2, <1>5, <1>8 DEF ShapeOK
  <2>2. ASSUME CaughtUp(s, up, x, shown) PROVE CaughtUp(s, up2, y, shown)
    BY <1>3, <2>2 DEF CaughtUp
  <2>3. ASSUME x.at \notin {"replay", "live"} PROVE StillComes(s, up2, y, shown)
    BY <2>3 DEF StillComes
  <2> QED BY <1>8, <2>1, <2>2, <2>3 DEF Served, up2
<1> QED BY <1>7, <1>8

(* A ticket that is recorded stays in the buffer with the recent rows, and is *)
(* no later than what is yet to be announced.                               *)
LEMMA RecordBuffered ==
  ASSUME NEW s \in Seq(Ticket), NEW up \in Uploads, NEW up2 \in Uploads, NEW t \in Ticket,
         \A a \in Ticket : a \in ToSet(s) <=> up[a] # "none",
         up[t] \in {"committed", "published"}, up2[t] \in {"published", "finished"},
         \A a \in Ticket : a # t => up2[a] = up[a],
         Ordered(s, up2),
         NEW h \in Seq(Ticket), NoRepeats(s), NoRepeats(h),
         ToSet(h) \subseteq ToSet(s), \A k, l \in DOMAIN h : Later(s, h[k], h[l]) => k < l,
         NEW shown \in SUBSET Ticket, Buffered(s, up, h, shown)
  PROVE  Buffered(s, up2, Trimmed(Assign(h, t)), shown)
<1> DEFINE h2 == Trimmed(Assign(h, t))
<1>1. ToSet(h2) \subseteq ToSet(h) \cup {t}
  BY AssignIsList, BufferHolds
<1>2. \A a \in Recent(s) : a \in ToSet(h) => a \in ToSet(h2)
  BY TrimKeepsRecent
<1>3. ASSUME t \notin ToSet(h) PROVE t \in ToSet(h2)
  <2> DEFINE g == Assign(h, t)
  <2>1. /\ g \in Seq(Ticket) /\ Len(g) = Len(h) + 1 /\ g[Len(h) + 1] = t
        /\ Len(h) \in Nat
    BY <1>3, AppendProperties, LenProperties DEF Assign
  <2>2. DOMAIN g = 1..Len(g)
    BY <2>1, LenProperties
  <2>3. MaxHistory \in Nat /\ MaxHistory > 0
    BY SseAssumption
  <2>4. h2 = LastOf(g, MaxHistory)
    BY DEF Trimmed, LastOf
  <2> HIDE DEF g, h2
  <2>5. Len(h) + 1 \in DOMAIN g /\ Len(h) + 1 > Len(g) - MaxHistory
    BY <2>1, <2>2, <2>3
  <2>6. ToSet(LastOf(g, MaxHistory)) = {g[i] : i \in {j \in DOMAIN g : j > Len(g) - MaxHistory}}
    BY <2>1, <2>3, LastPlaces
  <2> QED BY <2>1, <2>4, <2>5, <2>6
<1> HIDE DEF h2
<1>4. Recent(s) \subseteq Ticket /\ Recent(s) \subseteq ToSet(s)
  BY RecentInTicket
<1>5. Owed(s, up2) = Owed(s, up)
  <2>1. \A a \in Ticket : up2[a] = "lost" <=> up[a] = "lost"
    OBVIOUS
  <2> QED BY <1>4, <2>1 DEF Owed
<1>6. t \in ToSet(s) /\ t \in Out(up2) /\ up2[t] # "committed"
  BY DEF Out
<1>7. ASSUME NEW a \in Owed(s, up)
      PROVE  \/ a \in shown \cup ToSet(h2)
             \/ /\ up2[a] = "committed"
                /\ \A r \in ToSet(h2) : Later(s, r, a)
  <2>1. a \in Recent(s) /\ a \in Ticket /\ a \in ToSet(s)
    BY <1>4 DEF Owed
  <2>2. CASE a \in shown \cup ToSet(h)
    BY <1>2, <2>1, <2>2
  <2>3. CASE a = t /\ a \notin ToSet(h)
    BY <1>3, <2>3
  <2>4. CASE a # t /\ up[a] = "committed" /\ \A r \in ToSet(h) : Later(s, r, a)
    <3>1. up2[a] = "committed"
      BY <2>1, <2>4
    <3>2. ~Later(s, a, t)
      BY <1>6, <2>1, <3>1 DEF Ordered
    <3>3. Later(s, t, a)
      BY <1>6, <2>1, <2>4, <3>2, OneIsLater
    <3> QED BY <1>1, <2>4, <3>1, <3>3
  <2> QED BY <2>2, <2>3, <2>4 DEF Buffered
<1> QED BY <1>5, <1>7 DEF Buffered, h2

(* Uploads that are recorded again, or lost in a restart, owe no more.       *)
LEMMA FewerOwed ==
  ASSUME NEW s \in Seq(Ticket), NEW up \in Uploads, NEW up2 \in Uploads,
         NEW x \in StreamRecord, NEW shown \in SUBSET Ticket, ShapeOK(s, up, x),
         Out(up2) = Out(up),
         \A a \in Ticket : up2[a] # "lost" => up[a] # "lost",
         x.at \in {"replay", "live"} =>
            \A a \in Ticket : up[a] = "committed" => up2[a] = "committed"
  PROVE  /\ ShapeOK(s, up2, x)
         /\ Served(s, up, x, shown) => Served(s, up2, x, shown)
<1>1. Owed(s, up2) \subseteq Owed(s, up) /\ Owed(s, up) \subseteq Ticket
  <2>1. Recent(s) \subseteq Ticket
    BY RecentInTicket
  <2> QED BY <2>1 DEF Owed
<1>2. ShapeOK(s, up2, x)
  BY DEF ShapeOK
<1>3. ASSUME CaughtUp(s, up, x, shown) PROVE CaughtUp(s, up2, x, shown)
  BY <1>1, <1>3 DEF CaughtUp
<1>4. ASSUME StillComes(s, up, x, shown) PROVE StillComes(s, up2, x, shown)
  BY <1>1, <1>4 DEF StillComes
<1> QED BY <1>2, <1>3, <1>4 DEF Served

(* A stream that is off keeps what its dashboard has seen.                   *)
LEMMA OffFollows ==
  ASSUME NEW s \in Seq(Ticket), NEW up \in Uploads,
         NEW x \in StreamRecord, NEW shown \in SUBSET Ticket, ShapeOK(s, up, x)
  PROVE  /\ ShapeOK(s, up, Off(x.last))
         /\ Served(s, up, x, shown) => Served(s, up, Off(x.last), shown)
<1>1. /\ Off(x.last).at = "off" /\ Off(x.last).queue = <<>> /\ Off(x.last).replay = <<>>
      /\ Off(x.last).last = x.last
  BY DEF Off
<1>2. ToSet(<<>>) = {} /\ DOMAIN <<>> = {}
  BY EmptySeq, LenProperties DEF ToSet
<1> HIDE DEF Off
<1>3. ShapeOK(s, up, Off(x.last))
  BY <1>1, <1>2 DEF ShapeOK, Subscribed
<1>4. Served(s, up, x, shown) => Served(s, up, Off(x.last), shown)
  BY <1>1 DEF Served, CaughtUp, StillComes
<1> QED BY <1>3, <1>4

(* A list shows what is recent, and names a last event if there was none; one *)
(* that fails changes nothing.                                               *)
LEMMA FetchFollows ==
  ASSUME NEW s \in Seq(Ticket), NEW up \in Uploads, NEW h, NEW tr,
         NEW x \in StreamRecord, NEW shown \in SUBSET Ticket, Follows(s, up, h, x, shown, tr),
         x.at = "off",
         NEW y \in StreamRecord, NEW more \in SUBSET Ticket, shown \subseteq more,
         y.at = "fetched", y.queue = x.queue, y.replay = x.replay,
         NEW tr2,
         \/ y.last = x.last /\ tr2 = tr
         \/ /\ y.last # NoTicket => y.last \in ToSet(s)
            /\ Recent(s) \subseteq more
  PROVE  Follows(s, up, h, y, more, tr2)
<1>1. ShapeOK(s, up, y)
  BY DEF Follows, ShapeOK, Subscribed
<1>2. StillComes(s, up, y, more)
  BY DEF StillComes
<1>3. CASE Recent(s) \subseteq more
  BY <1>1, <1>2, <1>3 DEF Follows, Served, CaughtUp, Buffered, Owed
<1>4. CASE y.last = x.last /\ tr2 = tr
  <2>1. tr2 # "listed"
    BY <1>4 DEF Follows
  <2>2. ASSUME tr2 # "lost" PROVE CaughtUp(s, up, y, more)
    BY <1>4, <2>2 DEF Follows, Served, CaughtUp
  <2> QED BY <1>1, <1>2, <2>1, <2>2 DEF Follows, Served
<1> QED BY <1>3, <1>4

(* The buffer lists tickets in the order of creation.                        *)
Listed(s, h) == \A k, l \in DOMAIN h : Later(s, h[k], h[l]) => k < l

(* A replay shows what the buffer holds, and what the buffer lacks comes      *)
(* after it.                                                                *)
LEMMA ReplayFollows ==
  ASSUME NEW s \in Seq(Ticket), NEW up \in Uploads, NEW h \in Seq(Ticket),
         ToSet(h) \subseteq ToSet(s), Listed(s, h),
         NEW x \in StreamRecord, NEW shown \in SUBSET Ticket, ShapeOK(s, up, x),
         x.at = "open",
         NEW y \in StreamRecord, y.at = "replay", y.queue = x.queue, y.last = x.last,
         y.replay = EventsSince(h, x.last)
  PROVE  /\ ShapeOK(s, up, y)
         /\ Served(s, up, x, shown) /\ Buffered(s, up, h, shown) => Served(s, up, y, shown)
<1> DEFINE e == EventsSince(h, x.last)
<1>1. ShapeOK(s, up, x)
  OBVIOUS
<1>2. Len(h) \in Nat /\ DOMAIN h = 1..Len(h)
  BY LenProperties
<1>3. PICK from \in Nat :
         /\ from >= 1
         /\ ToSet(e) \subseteq ToSet(h)
         /\ \A i \in DOMAIN e : (from + i) - 1 \in DOMAIN h /\ e[i] = h[(from + i) - 1]
         /\ DOMAIN e \subseteq Nat
         /\ x.last \notin ToSet(h) => e = h
         /\ x.last \in ToSet(h) =>
               /\ from - 1 \in DOMAIN h /\ h[from - 1] = x.last
               /\ \A j \in DOMAIN h : j >= from => h[j] \in ToSet(e)
  <2>1. CASE x.last \notin ToSet(h)
    <3>1. e = h
      BY <2>1 DEF EventsSince
    <3>2. \A i \in DOMAIN h : (1 + i) - 1 = i
      BY <1>2
    <3>3. DOMAIN h \subseteq Nat
      BY <1>2
    <3> HIDE DEF e
    <3>4. 1 \in Nat /\ 1 >= 1
      OBVIOUS
    <3> QED BY <2>1, <3>1, <3>2, <3>3, <3>4
  <2>2. CASE x.last \in ToSet(h)
    <3> DEFINE place == CHOOSE i \in DOMAIN h : h[i] = x.last
    <3>1. \E i \in DOMAIN h : h[i] = x.last
      BY <2>2 DEF ToSet
    <3>2. place \in DOMAIN h /\ h[place] = x.last
      BY <3>1
    <3>3. e = SubSeq(h, 1 + place, Len(h))
      BY <2>2 DEF EventsSince
    <3> HIDE DEF place, e
    <3>4. 1 + place \in Nat /\ 1 + place >= 1 /\ (1 + place) - 1 = place
      BY <1>2, <3>2
    <3>5. /\ e \in Seq(Ticket) /\ ToSet(e) \subseteq ToSet(h)
          /\ \A i \in DOMAIN e : /\ ((1 + place) + i) - 1 \in DOMAIN h
                                 /\ e[i] = h[((1 + place) + i) - 1]
          /\ \A j \in DOMAIN h : j >= 1 + place => h[j] \in ToSet(e)
      BY <3>3, <3>4, EndHolds
    <3>6. DOMAIN e \subseteq Nat
      BY <3>5, LenProperties
    <3> QED BY <2>2, <3>2, <3>4, <3>5, <3>6
  <2> QED BY <2>1, <2>2
<1>4. y.replay = e
  OBVIOUS
<1> HIDE DEF e
<1>5. \A i, j \in DOMAIN e : i < j => ~Later(s, e[j], e[i])
  <2> SUFFICES ASSUME NEW i \in DOMAIN e, NEW j \in DOMAIN e, i < j, Later(s, e[j], e[i])
               PROVE  FALSE
    OBVIOUS
  <2>1. (from + j) - 1 < (from + i) - 1
    BY <1>3 DEF Listed
  <2>2. i \in Nat /\ j \in Nat
    BY <1>3
  <2> QED BY <2>1, <2>2
<1>6. ShapeOK(s, up, y)
  BY <1>1, <1>3, <1>4, <1>5 DEF ShapeOK, Subscribed
<1>7. ASSUME CaughtUp(s, up, x, shown) PROVE CaughtUp(s, up, y, shown)
  BY <1>7 DEF CaughtUp
<1>8. ASSUME CaughtUp(s, up, x, shown), Buffered(s, up, h, shown)
      PROVE  StillComes(s, up, y, shown)
  <2> SUFFICES ASSUME NEW t \in Owed(s, up), t \in ToSet(h) PROVE t \in shown \cup ToSet(e)
    BY <1>3, <1>4, <1>8 DEF StillComes, Buffered
  <2>1. t \in ToSet(h) /\ t \in Ticket
    BY RecentInTicket DEF Owed
  <2>2. CASE x.last \notin ToSet(h)
    BY <1>3, <2>1, <2>2
  <2>3. CASE x.last \in ToSet(h) /\ t \notin shown
    <3>1. x.last # NoTicket
      BY <2>3, RowsInTicket, SseAssumption
    <3>2. Later(s, x.last, t)
      BY <1>8, <2>3, <3>1 DEF CaughtUp
    <3>3. PICK j \in DOMAIN h : h[j] = t
      BY <2>1 DEF ToSet
    <3>4. from - 1 < j
      BY <1>3, <2>3, <3>2, <3>3 DEF Listed
    <3>5. j >= from
      BY <1>2, <3>4
    <3> QED BY <1>3, <2>3, <3>3, <3>5
  <2> QED BY <2>2, <2>3
<1> QED BY <1>6, <1>7, <1>8 DEF Served

(* An event of the replay is older than what is still to come.               *)
LEMMA SendReplayFollows ==
  ASSUME NEW s \in Seq(Ticket), NEW up \in Uploads,
         \A a \in Ticket : a \in ToSet(s) <=> up[a] # "none",
         NEW x \in StreamRecord, NEW shown \in SUBSET Ticket, ShapeOK(s, up, x),
         x.at = "replay", x.replay # <<>>,
         NEW y \in StreamRecord, y.at = "replay", y.queue = x.queue,
         y.replay = Tail(x.replay), y.last = Head(x.replay)
  PROVE  /\ ShapeOK(s, up, y)
         /\ Served(s, up, x, shown) => Served(s, up, y, shown \cup {Head(x.replay)})
<1> DEFINE q == x.replay
           r == Tail(q)
           first == Head(q)
           more == shown \cup {first}
<1>1. ShapeOK(s, up, x)
  OBVIOUS
<1>2. q \in Seq(Ticket) /\ DOMAIN q \subseteq Nat /\ DOMAIN r \subseteq Nat
  <2>1. q \in Seq(Ticket)
    BY DEF StreamRecord
  <2>2. r \in Seq(Ticket)
    BY <2>1, FirstAndRest
  <2> QED BY <2>1, <2>2, LenProperties
<1>3. /\ first \in Ticket /\ 1 \in DOMAIN q /\ first = q[1]
      /\ \A i \in DOMAIN r : i + 1 \in DOMAIN q /\ r[i] = q[i + 1]
      /\ ToSet(q) = {first} \cup ToSet(r)
      /\ \A t \in ToSet(q) : t # first => \E i \in DOMAIN q : 1 < i /\ q[i] = t
  BY <1>2, FirstAndRest
<1>4. y.replay = r /\ y.last = first
  OBVIOUS
<1> HIDE DEF q, r, first
<1>5. /\ ToSet(q) \subseteq ToSet(s)
      /\ \A i, j \in DOMAIN q : i < j => ~Later(s, q[j], q[i])
  BY <1>1 DEF ShapeOK, q
<1>6. \A i, j \in DOMAIN r : i < j => ~Later(s, r[j], r[i])
  <2> SUFFICES ASSUME NEW i \in DOMAIN r, NEW j \in DOMAIN r, i < j
               PROVE  ~Later(s, r[j], r[i])
    OBVIOUS
  <2>1. i + 1 < j + 1
    BY <1>2
  <2> QED BY <1>3, <1>5, <2>1
<1>7. ShapeOK(s, up, y)
  BY <1>1, <1>3, <1>4, <1>5, <1>6 DEF ShapeOK, Subscribed
<1>8. ASSUME StillComes(s, up, x, shown), NEW t \in Owed(s, up)
      PROVE  \/ t \in shown \cup ToSet(q)
             \/ /\ up[t] = "committed" \/ t \in ToSet(x.queue)
                /\ \A p \in ToSet(q) : Later(s, p, t)
  BY <1>8 DEF StillComes, q
<1>9. ASSUME StillComes(s, up, x, shown) PROVE CaughtUp(s, up, y, more)
  <2> SUFFICES ASSUME NEW t \in Owed(s, up), t \notin more
               PROVE  Later(s, first, t)
    BY <1>4 DEF CaughtUp
  <2>1. CASE t \in ToSet(q)
    <3>1. t # first
      OBVIOUS
    <3>2. PICK i \in DOMAIN q : 1 < i /\ q[i] = t
      BY <1>3, <2>1, <3>1
    <3>3. ~Later(s, t, first)
      BY <1>3, <1>5, <3>2
    <3>4. t \in ToSet(s) /\ first \in ToSet(s)
      BY <1>3, <1>5, <2>1
    <3> QED BY <3>1, <3>3, <3>4, OneIsLater
  <2>2. CASE t \notin ToSet(q)
    BY <1>3, <1>8, <1>9, <2>2
  <2> QED BY <2>1, <2>2
<1>10. ASSUME StillComes(s, up, x, shown) PROVE StillComes(s, up, y, more)
  BY <1>3, <1>4, <1>8, <1>10 DEF StillComes
<1>11. more = shown \cup {Head(x.replay)}
  BY DEF first, q
<1> QED BY <1>7, <1>9, <1>10, <1>11 DEF Served

(* A queued event is older than the queue, and than what is yet to be announced. *)
LEMMA SendLiveFollows ==
  ASSUME NEW s \in Seq(Ticket), NEW up \in Uploads,
         \A a \in Ticket : a \in ToSet(s) <=> up[a] # "none",
         Ordered(s, up),
         NEW x \in StreamRecord, NEW shown \in SUBSET Ticket, ShapeOK(s, up, x),
         x.at = "live", x.queue # <<>>,
         NEW y \in StreamRecord, y.at = "live", y.replay = x.replay,
         y.queue = Tail(x.queue), y.last = Head(x.queue)
  PROVE  /\ ShapeOK(s, up, y)
         /\ Served(s, up, x, shown) => Served(s, up, y, shown \cup {Head(x.queue)})
<1> DEFINE q == x.queue
           r == Tail(q)
           first == Head(q)
           more == shown \cup {first}
<1>1. ShapeOK(s, up, x)
  OBVIOUS
<1>2. q \in Seq(Ticket) /\ DOMAIN q \subseteq Nat /\ DOMAIN r \subseteq Nat
  <2>1. q \in Seq(Ticket)
    BY DEF StreamRecord
  <2>2. r \in Seq(Ticket)
    BY <2>1, FirstAndRest
  <2> QED BY <2>1, <2>2, LenProperties
<1>3. /\ first \in Ticket /\ 1 \in DOMAIN q /\ first = q[1]
      /\ \A i \in DOMAIN r : i + 1 \in DOMAIN q /\ r[i] = q[i + 1]
      /\ ToSet(q) = {first} \cup ToSet(r)
      /\ \A t \in ToSet(q) : t # first => \E i \in DOMAIN q : 1 < i /\ q[i] = t
  BY <1>2, FirstAndRest
<1>4. y.queue = r /\ y.last = first
  OBVIOUS
<1> HIDE DEF q, r, first
<1>5. /\ ToSet(q) \subseteq Out(up)
      /\ \A i, j \in DOMAIN q : i < j => Later(s, q[i], q[j])
      /\ x.replay = <<>> /\ ToSet(<<>>) = {}
  <2>1. ToSet(<<>>) = {}
    BY EmptySeq, LenProperties DEF ToSet
  <2> QED BY <1>1, <2>1 DEF ShapeOK, q
<1>6. \A i, j \in DOMAIN r : i < j => Later(s, r[i], r[j])
  <2> SUFFICES ASSUME NEW i \in DOMAIN r, NEW j \in DOMAIN r, i < j
               PROVE  Later(s, r[i], r[j])
    OBVIOUS
  <2>1. i + 1 < j + 1
    BY <1>2
  <2> QED BY <1>3, <1>5, <2>1
<1>7. first \in Out(up) /\ first \in ToSet(s) /\ up[first] # "committed"
  BY <1>3, <1>5 DEF Out
<1>8. ShapeOK(s, up, y)
  BY <1>1, <1>3, <1>4, <1>5, <1>6, <1>7 DEF ShapeOK, Subscribed
<1>9. ASSUME StillComes(s, up, x, shown), NEW t \in Owed(s, up)
      PROVE  t \in shown \/ up[t] = "committed" \/ t \in ToSet(q)
  BY <1>5, <1>9 DEF StillComes, q
<1>10. ASSUME StillComes(s, up, x, shown) PROVE CaughtUp(s, up, y, more)
  <2> SUFFICES ASSUME NEW t \in Owed(s, up), t \notin more
               PROVE  Later(s, first, t)
    BY <1>4 DEF CaughtUp
  <2>1. CASE t \in ToSet(q)
    BY <1>3, <1>5, <2>1
  <2>2. CASE up[t] = "committed"
    <3>1. t \in ToSet(s) /\ t \in Ticket
      BY RecentInTicket DEF Owed
    <3>2. ~Later(s, t, first)
      BY <1>3, <1>7, <2>2, <3>1 DEF Ordered
    <3>3. t # first
      OBVIOUS
    <3> QED BY <1>7, <3>1, <3>2, <3>3, OneIsLater
  <2> QED BY <1>9, <1>10, <2>1, <2>2
<1>11. ASSUME StillComes(s, up, x, shown) PROVE StillComes(s, up, y, more)
  <2>1. \A t \in Owed(s, up) : t \in more \/ up[t] = "committed" \/ t \in ToSet(r)
    BY <1>3, <1>9, <1>11
  <2>2. y.replay = <<>>
    BY <1>5
  <2> QED BY <1>4, <1>5, <2>1, <2>2 DEF StillComes
<1>12. more = shown \cup {Head(x.queue)}
  BY DEF first, q
<1> QED BY <1>8, <1>10, <1>11, <1>12 DEF Served

(* What InOrder says, of the rows and of the buffer.                         *)
LEMMA OrderFacts ==
  ASSUME InOrder
  PROVE  Ordered(created, upload) /\ Listed(created, history)
BY DEF InOrder, Ordered, Listed, Later, Out, Announced

(* A step of one stream is no matter of the others.                          *)
LEMMA OneFollows ==
  ASSUME SseInv, NEW c \in Client, NEW y \in StreamRecord, NEW more \in SUBSET Ticket,
         NEW tr \in Trust,
         stream' = [stream EXCEPT ![c] = y], seen' = [seen EXCEPT ![c] = more],
         trust' = [trust EXCEPT ![c] = tr], UNCHANGED <<created, upload>>,
         history' = history \/ Recent(created) \subseteq ToSet(history'),
         Follows(created, upload, history', y, more, tr)
  PROVE  \A d \in Client : Follows(created', upload', history', stream'[d], seen'[d], trust'[d])
<1>1. /\ stream \in [Client -> StreamRecord] /\ seen \in [Client -> SUBSET Ticket]
      /\ trust \in [Client -> Trust]
  BY DEF SseInv, SseTypeOK, StreamRecord, Trust
<1>2. ASSUME NEW d \in Client
      PROVE  Follows(created, upload, history', stream'[d], seen'[d], trust'[d])
  <2>1. CASE d = c
    <3>1. stream'[d] = y /\ seen'[d] = more /\ trust'[d] = tr
      BY <1>1, <2>1
    <3> QED BY <3>1
  <2>2. CASE d # c
    <3>1. stream'[d] = stream[d] /\ seen'[d] = seen[d] /\ trust'[d] = trust[d]
      BY <1>1, <2>2
    <3>2. Follows(created, upload, history, stream[d], seen[d], trust[d])
      BY DEF SseInv
    <3>3. CASE history' = history
      BY <3>1, <3>2, <3>3
    <3>4. CASE Recent(created) \subseteq ToSet(history')
      <4>1. Buffered(created, upload, history', seen[d])
        BY <3>4 DEF Buffered, Owed
      <4> QED BY <3>1, <3>2, <4>1 DEF Follows
    <3> QED BY <3>3, <3>4
  <2> QED BY <2>1, <2>2
<1> QED BY <1>2

(* No step loses what a stream owes its dashboard, as long as tickets are    *)
(* listed and announced in the order of creation.                           *)
LEMMA FollowsStep ==
  ASSUME SseInv, InOrder, InOrder', [SseNext]_sseVars
  PROVE  /\ RowsOK(created', upload', history')
         /\ \A d \in Client :
               Follows(created', upload', history', stream'[d], seen'[d], trust'[d])
<1> DEFINE Goal == /\ RowsOK(created', upload', history')
                   /\ \A d \in Client :
                         Follows(created', upload', history', stream'[d], seen'[d], trust'[d])
<1>1. /\ created \in Seq(Ticket) /\ history \in Seq(Ticket) /\ upload \in Uploads
      /\ stream \in [Client -> StreamRecord] /\ seen \in [Client -> SUBSET Ticket]
      /\ trust \in [Client -> Trust]
      /\ \A t \in Ticket : t \in ToSet(created) <=> upload[t] # "none"
      /\ ToSet(history) \subseteq ToSet(created)
      /\ NoRepeats(created) /\ NoRepeats(history)
      /\ \A d \in Client :
            Follows(created, upload, history, stream[d], seen[d], trust[d])
  BY DEF SseInv, SseTypeOK, Uploads, StreamRecord, Trust, RowsOK
<1>2. /\ Ordered(created, upload) /\ Listed(created, history)
      /\ Ordered(created', upload') /\ Listed(created', history')
  BY OrderFacts DEF InOrder, Ordered, Listed, Later, Out, Announced
<1>3. SseTypeOK'
  BY SseTypeStep DEF SseInv
<1>4. /\ upload' \in Uploads /\ history' \in Seq(Ticket)
      /\ stream' \in [Client -> StreamRecord] /\ seen' \in [Client -> SUBSET Ticket]
      /\ trust' \in [Client -> Trust]
  BY <1>3 DEF SseTypeOK, Uploads, StreamRecord, Trust
<1>5. CASE UNCHANGED sseVars
  BY <1>1, <1>5 DEF sseVars, RowsOK
<1>6. ASSUME NEW t \in Ticket, CommitTicket(t)
      PROVE  Goal
  <2>1. /\ upload[t] = "none" /\ created' = Append(created, t)
        /\ upload' = [upload EXCEPT ![t] = "committed"]
        /\ history' = history /\ stream' = stream /\ seen' = seen /\ trust' = trust
    BY <1>6 DEF CommitTicket
  <2>2. t \notin ToSet(created)
    BY <1>1, <2>1
  <2>3. ToSet(created') = ToSet(created) \cup {t}
    BY <1>1, <2>1, <2>2, NewRow
  <2>4. \A a \in Ticket : upload'[a] = IF a = t THEN "committed" ELSE upload[a]
    BY <1>1, <2>1 DEF Uploads
  <2>5. RowsOK(created', upload', history')
    <3>1. NoRepeats(created')
      BY <1>1, <2>1, <2>2, NewOnce
    <3> QED BY <1>1, <2>1, <2>3, <2>4, <3>1 DEF RowsOK
  <2>6. ASSUME NEW d \in Client
        PROVE  Follows(created', upload', history', stream'[d], seen'[d], trust'[d])
    BY <1>1, <2>1, <2>2, CommitFollows
  <2> QED BY <2>5, <2>6
<1>17. ASSUME NEW t \in Ticket, NEW up2 \in Uploads, up2 = upload', created' = created,
              history' = Trimmed(Assign(history, t)),
              upload[t] \in {"committed", "published"}, up2[t] \in {"published", "finished"},
              \A a \in Ticket : a # t => up2[a] = upload[a]
       PROVE  /\ RowsOK(created', upload', history')
              /\ \A d \in Client : Buffered(created, upload, history, seen[d]) =>
                                      Buffered(created, up2, history', seen[d])
  <2>1. ToSet(history') \subseteq ToSet(history) \cup {t} /\ NoRepeats(history')
    BY <1>1, <1>17, BufferHolds, AssignIsList
  <2>2. RowsOK(created', upload', history')
    <3>1. \A a \in Ticket : a \in ToSet(created) <=> up2[a] # "none"
      BY <1>1, <1>17
    <3>2. ToSet(history') \subseteq ToSet(created)
      BY <1>1, <1>17, <2>1
    <3> QED BY <1>1, <1>17, <2>1, <3>1, <3>2 DEF RowsOK
  <2>3. Ordered(created, up2)
    BY <1>2, <1>17
  <2>4. \A k, l \in DOMAIN history : Later(created, history[k], history[l]) => k < l
    BY <1>2 DEF Listed
  <2>5. ASSUME NEW d \in Client, Buffered(created, upload, history, seen[d])
        PROVE  Buffered(created, up2, history', seen[d])
    <3>1. seen[d] \in SUBSET Ticket
      BY <1>1
    <3> QED BY <1>1, <1>17, <2>3, <2>4, <2>5, <3>1, RecordBuffered
  <2> QED BY <2>2, <2>5
<1>7. ASSUME NEW t \in Ticket, Publish(t)
      PROVE  Goal
  <2>1. /\ upload[t] = "committed" /\ upload' = [upload EXCEPT ![t] = "published"]
        /\ history' = Trimmed(Assign(history, t))
        /\ created' = created /\ seen' = seen
    BY <1>7 DEF Publish
  <2>2. \A a \in Ticket : upload'[a] = IF a = t THEN "published" ELSE upload[a]
    BY <1>1, <2>1 DEF Uploads
  <2>3. /\ RowsOK(created', upload', history')
        /\ \A d \in Client : Buffered(created, upload, history, seen[d]) =>
                                Buffered(created, upload', history', seen[d])
    BY <1>4, <1>17, <2>1, <2>2
  <2>5. ASSUME NEW d \in Client
        PROVE  Follows(created', upload', history', stream'[d], seen'[d], trust'[d])
    <3> DEFINE x == stream[d]
               y == stream'[d]
               room == x.at \in Subscribed /\ Len(x.queue) < MaxQueue
    <3>1. x \in StreamRecord /\ y \in StreamRecord /\ Len(x.queue) \in Nat /\ MaxQueue \in Nat
      <4>1. x \in StreamRecord /\ y \in StreamRecord
        BY <1>1, <1>4
      <4>2. x.queue \in Seq(Ticket)
        BY <4>1 DEF StreamRecord
      <4> QED BY <4>1, <4>2, LenProperties, SseAssumption
    <3>2. y = IF room THEN [x EXCEPT !.queue = Append(@, t)] ELSE x
      BY <1>7 DEF Publish, Broadcast
    <3>3. /\ Follows(created, upload, history, x, seen[d], trust[d])
          /\ seen[d] \in SUBSET Ticket
      BY <1>1
    <3>4. trust'[d] = IF Overflows(d) THEN "lost" ELSE trust[d]
      BY <1>7 DEF Publish
    <3>5. trust'[d] # "lost" =>
             /\ trust'[d] = trust[d] /\ trust[d] # "lost"
             /\ room \/ x.at \notin {"replay", "live"}
      BY <3>1, <3>4 DEF Overflows, Subscribed
    <3>6. room \in BOOLEAN /\ (room => x.at \in Subscribed)
      OBVIOUS
    <3> HIDE DEF x, y, room
    <3>7. /\ y.at = x.at /\ y.replay = x.replay /\ y.last = x.last
          /\ y.queue = IF room THEN Append(x.queue, t) ELSE x.queue
      BY <3>1, <3>2 DEF StreamRecord
    <3>8. ShapeOK(created, upload, x)
      BY <3>3 DEF Follows
    <3>9. /\ ShapeOK(created, upload', y)
          /\ Served(created, upload, x, seen[d]) /\ (room \/ x.at \notin {"replay", "live"}) =>
                Served(created, upload', y, seen[d])
      BY <1>1, <1>2, <2>1, <3>1, <3>3, <3>6, <3>7, <3>8, PublishFollows
    <3>10. trust'[d] # "lost" => Served(created, upload', y, seen[d])
      BY <3>3, <3>5, <3>9 DEF Follows
    <3>11. trust'[d] = "listed" => /\ y.at \in {"fetched", "open"}
                                   /\ Buffered(created, upload', history', seen[d])
      BY <2>3, <3>3, <3>5, <3>7 DEF Follows
    <3>12. Follows(created, upload', history', y, seen[d], trust'[d])
      BY <3>9, <3>10, <3>11 DEF Follows
    <3> QED BY <2>1, <3>12 DEF y
  <2> QED BY <2>3, <2>5
<1>8. ASSUME NEW t \in Ticket, PublishResult(t)
      PROVE  Goal
  <2>1. /\ upload[t] = "published" /\ upload' = [upload EXCEPT ![t] = "finished"]
        /\ history' = Trimmed(Assign(history, t))
        /\ created' = created /\ stream' = stream /\ seen' = seen /\ trust' = trust
    BY <1>8 DEF PublishResult
  <2>2. \A a \in Ticket : upload'[a] = IF a = t THEN "finished" ELSE upload[a]
    BY <1>1, <2>1 DEF Uploads
  <2>3. /\ RowsOK(created', upload', history')
        /\ \A d \in Client : Buffered(created, upload, history, seen[d]) =>
                                Buffered(created, upload', history', seen[d])
    BY <1>4, <1>17, <2>1, <2>2
  <2>5. /\ Out(upload') = Out(upload)
        /\ \A a \in Ticket : /\ upload'[a] # "lost" => upload[a] # "lost"
                             /\ upload[a] = "committed" => upload'[a] = "committed"
    BY <2>1, <2>2 DEF Out
  <2>6. ASSUME NEW d \in Client
        PROVE  Follows(created', upload', history', stream'[d], seen'[d], trust'[d])
    <3>1. /\ stream[d] \in StreamRecord /\ seen[d] \in SUBSET Ticket
          /\ Follows(created, upload, history, stream[d], seen[d], trust[d])
      BY <1>1
    <3>2. ShapeOK(created, upload, stream[d])
      BY <3>1 DEF Follows
    <3>3. /\ ShapeOK(created, upload', stream[d])
          /\ Served(created, upload, stream[d], seen[d]) =>
                Served(created, upload', stream[d], seen[d])
      BY <1>1, <1>4, <2>5, <3>1, <3>2, FewerOwed
    <3> QED BY <2>1, <2>3, <3>1, <3>3 DEF Follows
  <2> QED BY <2>3, <2>6
<1>9. ASSUME NEW c \in Client, NEW y \in StreamRecord, NEW more \in SUBSET Ticket,
             NEW tr \in Trust,
             stream' = [stream EXCEPT ![c] = y], seen' = [seen EXCEPT ![c] = more],
             trust' = [trust EXCEPT ![c] = tr], UNCHANGED <<created, upload>>,
             \/ history' = history
             \/ /\ Recent(created) \subseteq ToSet(history')
                /\ ToSet(history') \subseteq ToSet(created) /\ NoRepeats(history'),
             Follows(created, upload, history', y, more, tr)
      PROVE  Goal
  <2>1. \A d \in Client :
           Follows(created', upload', history', stream'[d], seen'[d], trust'[d])
    BY <1>9, OneFollows
  <2>2. RowsOK(created', upload', history')
    BY <1>1, <1>9 DEF RowsOK
  <2> QED BY <2>1, <2>2
<1>10. ASSUME NEW c \in Client, FetchList(c)
       PROVE  Goal
  <2> DEFINE x == stream[c]
             y == stream'[c]
             more == seen'[c]
             tr == trust'[c]
             rows == ToSet(Newest(ListLimit))
  <2>1. /\ x \in StreamRecord /\ x.at = "off"
        /\ Follows(created, upload, history, x, seen[c], trust[c])
        /\ seen[c] \in SUBSET Ticket
        /\ UNCHANGED <<created, upload, history>>
    BY <1>1, <1>10 DEF FetchList
  <2>2. rows = Recent(created)
    BY DEF Recent, LastOf, Newest
  <2>3. y \in StreamRecord /\ more \in SUBSET Ticket /\ tr \in Trust
    BY <1>4
  <2>4. /\ stream' = [stream EXCEPT ![c] = y] /\ seen' = [seen EXCEPT ![c] = more]
        /\ trust' = [trust EXCEPT ![c] = tr]
        /\ y.at = "fetched" /\ y.queue = x.queue /\ y.replay = x.replay
        /\ seen[c] \subseteq more
        /\ \/ y.last = x.last /\ tr = trust[c]
           \/ /\ y.last = IF x.last = NoTicket /\ Newest(ListLimit) # <<>>
                          THEN Last(created) ELSE x.last
              /\ rows \subseteq more
    <3>1. CASE /\ stream' = [stream EXCEPT ![c].at = "fetched"]
               /\ seen' = seen /\ trust' = trust
      BY <1>1, <3>1 DEF StreamRecord
    <3>2. CASE /\ seen' = [seen EXCEPT ![c] = @ \cup rows]
               /\ stream' = [stream EXCEPT
                    ![c].at = "fetched",
                    ![c].last = IF @ = NoTicket /\ Newest(ListLimit) # <<>>
                                THEN Last(created) ELSE @]
               /\ trust' = [trust EXCEPT ![c] = "listed"]
      <4> HIDE DEF rows
      <4> QED BY <1>1, <3>2 DEF StreamRecord
    <3> QED BY <1>10, <3>1, <3>2 DEF FetchList
  <2>5. ShapeOK(created, upload, x)
    BY <2>1 DEF Follows
  <2>6. Newest(ListLimit) # <<>> => Last(created) \in ToSet(created)
    <3>1. created # <<>> => Len(created) \in DOMAIN created
      BY <1>1, LenProperties, EmptySeq
    <3>2. Newest(ListLimit) # <<>> => created # <<>>
      BY <1>1, NewestOfNone, SseAssumption
    <3> QED BY <1>1, <3>1, <3>2 DEF Last, ToSet
  <2>7. \/ y.last = x.last /\ tr = trust[c]
        \/ /\ y.last # NoTicket => y.last \in ToSet(created)
           /\ Recent(created) \subseteq more
    BY <2>2, <2>4, <2>5, <2>6 DEF ShapeOK
  <2> HIDE DEF x, y, more, tr, rows
  <2>8. Follows(created, upload, history, y, more, tr)
    BY <1>1, <2>1, <2>3, <2>4, <2>7, FetchFollows
  <2> QED BY <1>9, <2>1, <2>3, <2>4, <2>8
<1>11. ASSUME NEW c \in Client, Subscribe(c)
       PROVE  Goal
  <2> DEFINE x == stream[c]
             y == [x EXCEPT !.at = "open"]
  <2>1. /\ x \in StreamRecord /\ x.at = "fetched"
        /\ Follows(created, upload, history, x, seen[c], trust[c])
        /\ seen[c] \in SUBSET Ticket /\ stream' = [stream EXCEPT ![c] = y]
        /\ UNCHANGED <<created, upload, history, seen, trust>>
    BY <1>1, <1>11 DEF Subscribe
  <2>2. /\ y \in StreamRecord /\ y.at = "open" /\ y.queue = x.queue /\ y.replay = x.replay
        /\ y.last = x.last
    BY <2>1 DEF StreamRecord, Subscribed
  <2>3. /\ seen' = [seen EXCEPT ![c] = seen[c]]
        /\ trust' = [trust EXCEPT ![c] = trust[c]] /\ trust[c] \in Trust
    BY <1>1, <2>1
  <2> HIDE DEF x, y
  <2>4. Follows(created, upload, history, y, seen[c], trust[c])
    <3>1. ShapeOK(created, upload, y)
      <4>1. ShapeOK(created, upload, x)
        BY <2>1 DEF Follows
      <4>2. y.at # "replay" /\ x.at # "replay" /\ x.at \notin Subscribed
        BY <2>1, <2>2 DEF Subscribed
      <4>3. x.queue = <<>> /\ x.replay = <<>>
        BY <4>1, <4>2 DEF ShapeOK
      <4> QED BY <2>2, <4>1, <4>2, <4>3 DEF ShapeOK
    <3>2. Served(created, upload, x, seen[c]) => Served(created, upload, y, seen[c])
      BY <2>1, <2>2 DEF Served, CaughtUp, StillComes
    <3> QED BY <2>1, <2>2, <3>1, <3>2 DEF Follows
  <2> QED BY <1>9, <2>1, <2>2, <2>3, <2>4
<1>12. ASSUME NEW c \in Client, Replay(c)
       PROVE  Goal
  <2> DEFINE x == stream[c]
             tr == trust'[c]
             y == [x EXCEPT !.at = "replay", !.replay = EventsSince(history', x.last)]
  <2>1. /\ x \in StreamRecord /\ x.at = "open"
        /\ Follows(created, upload, history, x, seen[c], trust[c])
        /\ seen[c] \in SUBSET Ticket /\ stream' = [stream EXCEPT ![c] = y]
        /\ UNCHANGED <<created, upload, seen>>
    BY <1>1, <1>12 DEF Replay
  <2>2. /\ trust' = [trust EXCEPT ![c] = tr] /\ tr \in Trust /\ tr # "listed"
        /\ \/ /\ history' = AssignAll(history, Newest(SyncLimit))
              /\ tr # "lost" => trust[c] # "lost"
           \/ /\ history' = history
              /\ tr # "lost" => trust[c] = "listed"
    BY <1>1, <1>4, <1>12 DEF Replay, Settled, Trust
  <2>3. ASSUME history' = AssignAll(history, Newest(SyncLimit))
        PROVE  /\ Recent(created) \subseteq ToSet(history')
               /\ ToSet(history') \subseteq ToSet(created) /\ NoRepeats(history')
    <3> DEFINE rows == Newest(SyncLimit)
    <3>1. rows \in Seq(Ticket) /\ rows = LastOf(created, SyncLimit)
      <4>1. SyncLimit \in Nat
        BY SseAssumption
      <4> QED BY <1>1, <4>1, NewestIsList DEF Newest, LastOf
    <3> HIDE DEF rows
    <3>2. /\ ToSet(history') = ToSet(history) \cup ToSet(rows)
          /\ NoRepeats(history')
      BY <1>1, <2>3, <3>1, AllHeld DEF rows
    <3> QED BY <1>1, <3>1, <3>2, RecentRows
  <2>4. \/ history' = history
        \/ /\ Recent(created) \subseteq ToSet(history')
           /\ ToSet(history') \subseteq ToSet(created) /\ NoRepeats(history')
    BY <2>2, <2>3
  <2>5. ToSet(history') \subseteq ToSet(created) /\ Listed(created, history')
    BY <1>1, <1>2, <2>1, <2>4
  <2>6. /\ y.at = "replay" /\ y.queue = x.queue /\ y.last = x.last
        /\ y.replay = EventsSince(history', x.last)
    BY <2>1 DEF StreamRecord
  <2>7. y \in StreamRecord
    <3>1. stream'[c] = y
      BY <1>1, <2>1
    <3>2. stream'[c] \in StreamRecord
      BY <1>4
    <3> QED BY <3>1, <3>2
  <2>8. seen' = [seen EXCEPT ![c] = seen[c]]
    BY <1>1, <2>1
  <2> HIDE DEF x, y, tr
  <2>9. ShapeOK(created, upload, x)
    BY <2>1 DEF Follows
  <2>10. /\ ShapeOK(created, upload, y)
         /\ Served(created, upload, x, seen[c]) /\ Buffered(created, upload, history', seen[c]) =>
               Served(created, upload, y, seen[c])
    BY <1>1, <1>4, <2>1, <2>5, <2>6, <2>7, <2>9, ReplayFollows
  <2>11. tr # "lost" => /\ Served(created, upload, x, seen[c])
                        /\ Buffered(created, upload, history', seen[c])
    <3> SUFFICES ASSUME tr # "lost"
                 PROVE  /\ Served(created, upload, x, seen[c])
                        /\ Buffered(created, upload, history', seen[c])
      OBVIOUS
    <3>1. CASE history' = history /\ trust[c] = "listed"
      BY <2>1, <3>1 DEF Follows
    <3>2. CASE /\ history' = AssignAll(history, Newest(SyncLimit))
               /\ trust[c] # "lost"
      <4>1. Recent(created) \subseteq ToSet(history')
        BY <2>3, <3>2
      <4>2. Buffered(created, upload, history', seen[c])
        BY <4>1 DEF Buffered, Owed
      <4> QED BY <2>1, <3>2, <4>2 DEF Follows
    <3> QED BY <2>2, <3>1, <3>2
  <2>12. Follows(created, upload, history', y, seen[c], tr)
    BY <2>2, <2>10, <2>11 DEF Follows
  <2> QED BY <1>9, <2>1, <2>2, <2>4, <2>7, <2>8, <2>12
<1>13. ASSUME NEW c \in Client, SendReplay(c)
       PROVE  Goal
  <2> DEFINE x == stream[c]
  <2>1. /\ x \in StreamRecord /\ x.at = "replay"
        /\ Follows(created, upload, history, x, seen[c], trust[c])
        /\ seen[c] \in SUBSET Ticket /\ x.replay \in Seq(Ticket)
        /\ UNCHANGED <<created, upload, history>>
        /\ trust' = [trust EXCEPT ![c] = trust[c]] /\ trust[c] \in Trust
    BY <1>1, <1>13 DEF SendReplay, StreamRecord
  <2>4. ShapeOK(created, upload, x) /\ trust[c] # "listed"
    BY <2>1 DEF Follows
  <2>2. CASE x.replay = <<>>
    <3> DEFINE y == [x EXCEPT !.at = "live"]
    <3>1. /\ stream' = [stream EXCEPT ![c] = y] /\ seen' = [seen EXCEPT ![c] = seen[c]]
      BY <1>1, <1>13, <2>2 DEF SendReplay
    <3>2. /\ y \in StreamRecord /\ y.at = "live" /\ y.queue = x.queue
          /\ y.replay = x.replay /\ y.last = x.last
      BY <2>1 DEF StreamRecord, Subscribed
    <3> HIDE DEF x, y
    <3>3. Follows(created, upload, history, y, seen[c], trust[c])
      BY <2>1, <2>2, <2>4, <3>2 DEF Follows, ShapeOK, Served, CaughtUp, StillComes, Subscribed
    <3> QED BY <1>1, <1>9, <2>1, <3>1, <3>2, <3>3
  <2>3. CASE x.replay # <<>>
    <3> DEFINE first == Head(x.replay)
               y == [x EXCEPT !.replay = Tail(x.replay), !.last = first]
               more == seen[c] \cup {first}
    <3>1. /\ stream' = [stream EXCEPT ![c] = y] /\ seen' = [seen EXCEPT ![c] = more]
      BY <1>1, <1>13, <2>3 DEF SendReplay, Shows
    <3>2. first \in Ticket /\ Tail(x.replay) \in Seq(Ticket)
      BY <2>1, <2>3, FirstAndRest
    <3>3. /\ y \in StreamRecord /\ y.at = "replay" /\ y.queue = x.queue
          /\ y.replay = Tail(x.replay) /\ y.last = Head(x.replay)
      BY <2>1, <3>2 DEF StreamRecord
    <3>4. more \in SUBSET Ticket
      BY <2>1, <3>2
    <3> HIDE DEF x, y
    <3>5. Follows(created, upload, history, y, more, trust[c])
      <4>1. /\ ShapeOK(created, upload, y)
            /\ Served(created, upload, x, seen[c]) => Served(created, upload, y, more)
        BY <1>1, <2>1, <2>3, <2>4, <3>3, SendReplayFollows
      <4> QED BY <2>1, <2>4, <4>1 DEF Follows
    <3> HIDE DEF more
    <3> QED BY <1>1, <1>9, <2>1, <3>1, <3>3, <3>4, <3>5
  <2> QED BY <2>2, <2>3
<1>14. ASSUME NEW c \in Client, SendLive(c)
       PROVE  Goal
  <2> DEFINE x == stream[c]
             first == Head(x.queue)
             y == [x EXCEPT !.queue = Tail(x.queue), !.last = first]
             more == seen[c] \cup {first}
  <2>1. /\ x \in StreamRecord /\ x.at = "live"
        /\ Follows(created, upload, history, x, seen[c], trust[c])
        /\ seen[c] \in SUBSET Ticket /\ x.queue \in Seq(Ticket) /\ x.queue # <<>>
        /\ UNCHANGED <<created, upload, history>>
        /\ trust' = [trust EXCEPT ![c] = trust[c]] /\ trust[c] \in Trust
    BY <1>1, <1>14 DEF SendLive, StreamRecord
  <2>7. ShapeOK(created, upload, x) /\ trust[c] # "listed"
    BY <2>1 DEF Follows
  <2>2. stream' = [stream EXCEPT ![c] = y] /\ seen' = [seen EXCEPT ![c] = more]
    BY <1>1, <1>14 DEF SendLive, Shows
  <2>3. first \in Ticket /\ Tail(x.queue) \in Seq(Ticket)
    BY <2>1, FirstAndRest
  <2>4. /\ y \in StreamRecord /\ y.at = "live" /\ y.replay = x.replay
        /\ y.queue = Tail(x.queue) /\ y.last = Head(x.queue)
    BY <2>1, <2>3 DEF StreamRecord
  <2>5. more \in SUBSET Ticket
    BY <2>1, <2>3
  <2> HIDE DEF x, y
  <2>6. Follows(created, upload, history, y, more, trust[c])
    <3>1. /\ ShapeOK(created, upload, y)
          /\ Served(created, upload, x, seen[c]) => Served(created, upload, y, more)
      BY <1>1, <1>2, <2>1, <2>4, <2>7, SendLiveFollows
    <3> QED BY <2>1, <2>7, <3>1 DEF Follows
  <2> HIDE DEF more
  <2> QED BY <1>1, <1>9, <2>1, <2>2, <2>4, <2>5, <2>6
<1>15. ASSUME NEW c \in Client, Disconnect(c)
       PROVE  Goal
  <2> DEFINE x == stream[c]
             y == Off(x.last)
             tr == Settled(trust[c])
  <2>1. /\ x \in StreamRecord /\ Follows(created, upload, history, x, seen[c], trust[c])
        /\ trust' = [trust EXCEPT ![c] = tr]
        /\ seen[c] \in SUBSET Ticket /\ stream' = [stream EXCEPT ![c] = y]
        /\ UNCHANGED <<created, upload, history, seen>>
    BY <1>1, <1>15 DEF Disconnect
  <2>2. y \in StreamRecord
    BY <2>1, EmptySeq DEF StreamRecord, Off
  <2>3. seen' = [seen EXCEPT ![c] = seen[c]]
    BY <1>1, <2>1
  <2>5. tr \in Trust /\ tr # "listed" /\ (tr # "lost" => trust[c] # "lost")
    BY <1>1 DEF Settled, Trust
  <2> HIDE DEF tr
  <2>4. Follows(created, upload, history, y, seen[c], tr)
    <3> HIDE DEF x
    <3>1. ShapeOK(created, upload, x)
      BY <2>1 DEF Follows
    <3>2. /\ ShapeOK(created, upload, y)
          /\ Served(created, upload, x, seen[c]) => Served(created, upload, y, seen[c])
      BY <1>1, <2>1, <3>1, OffFollows
    <3> QED BY <2>1, <2>5, <3>2 DEF Follows
  <2> HIDE DEF x, y
  <2> QED BY <1>1, <1>9, <2>1, <2>2, <2>3, <2>4, <2>5
<1>16. CASE Restart
  <2>1. /\ history' = <<>> /\ created' = created /\ seen' = seen
        /\ \A d \in Client : /\ stream'[d] = Off(stream[d].last)
                              /\ trust'[d] = Settled(trust[d])
        /\ \A a \in Ticket : upload'[a] = CASE upload[a] = "committed" -> "lost"
                                            [] upload[a] = "published" -> "finished"
                                            [] OTHER                   -> upload[a]
    BY <1>16 DEF Restart
  <2>2. \A a \in Ticket : /\ upload'[a] = "none" <=> upload[a] = "none"
                          /\ upload'[a] # "lost" => upload[a] # "lost"
                          /\ upload'[a] \in {"published", "finished"}
                                <=> upload[a] \in {"published", "finished"}
    BY <1>1, <2>1 DEF Uploads
  <2>3. ToSet(<<>>) = {}
    BY EmptySeq, LenProperties DEF ToSet
  <2>4. RowsOK(created', upload', history')
    <3>1. NoRepeats(<<>>)
      BY EmptySeq, LenProperties DEF NoRepeats
    <3> QED BY <1>1, <2>1, <2>2, <2>3, <3>1 DEF RowsOK
  <2>5. Out(upload') = Out(upload)
    BY <2>2 DEF Out
  <2>6. ASSUME NEW d \in Client
        PROVE  Follows(created', upload', history', stream'[d], seen'[d], trust'[d])
    <3> DEFINE x == stream[d]
               y == stream'[d]
    <3>1. x \in StreamRecord /\ seen[d] \in SUBSET Ticket /\ y \in StreamRecord /\ y = Off(x.last)
      BY <1>1, <1>4, <2>1
    <3>2. y.at = "off"
      BY <3>1 DEF Off
    <3>3. Follows(created, upload, history, x, seen[d], trust[d])
      BY <1>1
    <3>4. trust'[d] # "listed" /\ (trust'[d] # "lost" => trust[d] # "lost")
      BY <2>1 DEF Settled
    <3> HIDE DEF x, y
    <3>5. ShapeOK(created, upload, x)
      BY <3>3 DEF Follows
    <3>6. /\ ShapeOK(created, upload, y)
          /\ Served(created, upload, x, seen[d]) => Served(created, upload, y, seen[d])
      BY <1>1, <3>1, <3>5, OffFollows
    <3>7. /\ ShapeOK(created, upload', y)
          /\ Served(created, upload, y, seen[d]) => Served(created, upload', y, seen[d])
      BY <1>1, <1>4, <2>2, <2>5, <3>1, <3>2, <3>6, FewerOwed
    <3>8. Follows(created, upload', history', y, seen[d], trust'[d])
      BY <3>3, <3>4, <3>6, <3>7 DEF Follows
    <3> QED BY <2>1, <3>8 DEF y
  <2> QED BY <2>4, <2>6
<1> QED BY <1>5, <1>6, <1>7, <1>8, <1>10, <1>11, <1>12, <1>13, <1>14, <1>15, <1>16 DEF SseNext

(* Nothing is created, announced or shown at the start.                      *)
LEMMA SseInvStart == SseInit => SseInv
<1> SUFFICES ASSUME SseInit PROVE SseInv
  OBVIOUS
<1>1. SseTypeOK
  BY SseTypeStart
<1>2. ToSet(<<>>) = {} /\ DOMAIN <<>> = {}
  BY EmptySeq, LenProperties DEF ToSet
<1>3. /\ created = <<>> /\ history = <<>> /\ \A t \in Ticket : upload[t] = "none"
      /\ \A c \in Client : stream[c] = Off(NoTicket) /\ trust[c] = "kept"
  BY DEF SseInit
<1>4. RowsOK(created, upload, history)
  BY <1>2, <1>3 DEF RowsOK, NoRepeats
<1>5. ASSUME NEW c \in Client
      PROVE  Follows(created, upload, history, stream[c], seen[c], trust[c])
  <2>1. /\ stream[c].at = "off" /\ trust[c] = "kept" /\ stream[c].queue = <<>> /\ stream[c].replay = <<>>
        /\ stream[c].last = NoTicket
    BY <1>3 DEF Off
  <2> QED BY <1>2, <2>1 DEF Follows, ShapeOK, Served, CaughtUp, StillComes, Subscribed
<1> QED BY <1>1, <1>4, <1>5 DEF SseInv

(* What a stream owes and is not yet to be announced is shown, in the replay *)
(* or in the queue.                                                         *)
LEMMA NothingMissed == SseInv => NoGap
<1> SUFFICES ASSUME SseInv, NEW c \in Client, stream[c].at \in {"replay", "live"},
                    trust[c] # "lost",
                    NEW t \in Announced, t \in ToSet(Newest(ListLimit))
             PROVE  t \in seen[c] \cup Pending(c)
  BY DEF NoGap
<1>1. t \in Owed(created, upload) /\ upload[t] # "committed"
  BY DEF Owed, Recent, LastOf, Newest, Announced
<1>2. StillComes(created, upload, stream[c], seen[c])
  BY DEF SseInv, Follows, Served
<1> QED BY <1>1, <1>2 DEF StillComes, Pending

(* A dashboard that reconnects, whenever the tickets it missed were created, *)
(* announced or lost with a restart, is shown or is still to be sent every   *)
(* announced ticket that a list would show - as long as the buffer holds the *)
(* tickets, and they are announced, in the order of creation.  It may have   *)
(* missed a list or a synchronisation, but if both failed it, or a full      *)
(* queue dropped an event, it needs a list first.                            *)
THEOREM GapsAreRecovered == SseSpec => RecoversInOrder
<1>1. SseInit => SseInv
  BY SseInvStart
<1>2. SseInv /\ InOrder /\ InOrder' /\ [SseNext]_sseVars => SseInv'
  <2> SUFFICES ASSUME SseInv, InOrder, InOrder', [SseNext]_sseVars PROVE SseInv'
    OBVIOUS
  <2>1. SseTypeOK'
    BY SseTypeStep DEF SseInv
  <2>2. /\ RowsOK(created', upload', history')
        /\ \A c \in Client :
              Follows(created', upload', history', stream'[c], seen'[c], trust'[c])
    BY FollowsStep
  <2> QED BY <2>1, <2>2 DEF SseInv
<1>3. SseInv => NoGap
  BY NothingMissed
<1> QED BY <1>1, <1>2, <1>3, PTL DEF SseSpec, RecoversInOrder

(***************************************************************************)
(* The types of the four services.                                         *)
(***************************************************************************)
(* Whichever service a behaviour follows, the records of all four have their *)
(* types: no queue of the event stream outgrows its limit, only a product    *)
(* that exists has been ordered, and a call of the accounts holds a copy of  *)
(* the file exactly between its reading and its writing.                     *)
THEOREM ServicesTyped == MCSpec => []ServicesTypeOK
<1> DEFINE Inv == SseTypeOK /\ RecordsTypeOK /\ InventoryShape /\ AccountsShape
<1>1. MCInit => Inv
  BY SseTypeStart, RecordsTypeStart, InventoryShapeStart, AccountsShapeStart DEF MCInit
<1>2. Inv /\ [MCNext]_apiVars => Inv'
  <2> SUFFICES ASSUME Inv, [MCNext]_apiVars PROVE Inv'
    OBVIOUS
  <2>1. /\ [SseNext]_sseVars /\ [RecordsNext]_recordsVars
        /\ [InventoryNext]_inventoryVars /\ [AccountsNext]_accountsVars
    BY DEF MCNext, apiVars
  <2> QED BY <2>1, SseTypeStep, RecordsTypeStep, InventoryShapeStep, AccountsShapeStep
<1>3. Inv => ServicesTypeOK
  BY DEF InventoryShape, StockTypeOK, OrderPlaces, InventoryTypeOK, AccountsShape, ServicesTypeOK
<1> QED BY <1>1, <1>2, <1>3, PTL DEF MCSpec
=============================================================================

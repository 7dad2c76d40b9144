------------------------------ MODULE Inventory ------------------------------
(***************************************************************************)
(* Products and their stock (routes/inventory.py): a product has no stock  *)
(* of its own, every reader adds up the orders.  Requests run in threads   *)
(* with a database session each; no statement locks a row, so one step is  *)
(* one statement.                                                          *)
(***************************************************************************)
EXTENDS FiniteSets, Naturals, Integers

CONSTANTS
    Sku,        \* products, by their unique code
    Warehouse,
    Quantity,   \* quantities an order may have
    Order,      \* the requests that will ever arrive
    NoProduct   \* no row

ASSUME InventoryAssumption == /\ IsFiniteSet(Order)
                              /\ Quantity \subseteq Nat \ {0}
                              /\ NoProduct \notin Warehouse

VARIABLES
    product,   \* product[s]: the warehouse of s, or no row
    inbound,   \* inbound[s], outbound[s]: the sums of the orders of s
    outbound,
    order      \* order[o]: a request, its place in the code and what it has read

inventoryVars == <<product, inbound, outbound, order>>

OrderRequest(places, sums) ==
    [kind : {"product", "inbound", "outbound"}, sku : Sku, warehouse : Warehouse,
     quantity : Quantity, at : places, came : sums, went : sums]

InventoryTypeOK ==
    /\ product \in [Sku -> Warehouse \cup {NoProduct}]
    /\ inbound \in [Sku -> Nat] /\ outbound \in [Sku -> Nat]
    /\ order \in [Order -> OrderRequest({"new", "found", "summed", "counted", "accepted",
                                         "done", "refused"}, Nat)]
    /\ \A s \in Sku : product[s] = NoProduct => inbound[s] = 0 /\ outbound[s] = 0

InventoryInit ==
    /\ product \in [Sku -> Warehouse \cup {NoProduct}]
    /\ inbound = [s \in Sku |-> 0] /\ outbound = [s \in Sku |-> 0]
    /\ order \in [Order -> OrderRequest({"new"}, {0})]

Stock(s) == inbound[s] - outbound[s]

OrderGoes(o, from, to) == /\ order[o].at = from
                          /\ order' = [order EXCEPT ![o].at = to]

(* create_product: a look, then an insert that the unique code may refuse.   *)
FindProduct(o) == /\ order[o].kind = "product"
                  /\ OrderGoes(o, "new", IF product[order[o].sku] = NoProduct
                                         THEN "found" ELSE "refused")
                  /\ UNCHANGED <<product, inbound, outbound>>

InsertProduct(o) ==
    /\ order[o].kind = "product"
    /\ IF product[order[o].sku] = NoProduct
       THEN /\ OrderGoes(o, "found", "done")
            /\ product' = [product EXCEPT ![order[o].sku] = order[o].warehouse]
       ELSE /\ OrderGoes(o, "found", "refused")
            /\ UNCHANGED product
    /\ UNCHANGED <<inbound, outbound>>

(* _get_product_or_404, and the warehouse of the product.                    *)
Addressed(o)    == product[order[o].sku] = order[o].warehouse

Address(o) == /\ order[o].kind \in {"inbound", "outbound"}
              /\ OrderGoes(o, "new", IF Addressed(o) THEN "found" ELSE "refused")
              /\ UNCHANGED <<product, inbound, outbound>>

CreateInbound(o) ==
    /\ order[o].kind = "inbound"
    /\ OrderGoes(o, "found", "done")
    /\ inbound' = [inbound EXCEPT ![order[o].sku] = @ + order[o].quantity]
    /\ UNCHANGED <<product, outbound>>

(* _calculate_current_stock: one sum, and then the other.                    *)
SumInbound(o) == /\ order[o].kind = "outbound"
                 /\ order[o].at = "found"
                 /\ order' = [order EXCEPT ![o].at = "summed",
                                           ![o].came = inbound[order[o].sku]]
                 /\ UNCHANGED <<product, inbound, outbound>>

SumOutbound(o) == /\ order[o].at = "summed"
                  /\ order' = [order EXCEPT ![o].at = "counted",
                                            ![o].went = outbound[order[o].sku]]
                  /\ UNCHANGED <<product, inbound, outbound>>

\* Faulty variant: the stock is compared as if nothing had left.
OfWhatCame(o) == order[o].quantity <= order[o].came
Available(o)  == order[o].quantity <= order[o].came - order[o].went

CheckStock(o) == /\ OrderGoes(o, "counted", IF Available(o) THEN "accepted" ELSE "refused")
                 /\ UNCHANGED <<product, inbound, outbound>>

CreateOutbound(o) ==
    /\ OrderGoes(o, "accepted", "done")
    /\ outbound' = [outbound EXCEPT ![order[o].sku] = @ + order[o].quantity]
    /\ UNCHANGED <<product, inbound>>

(* The database raises: status 500, and nothing of the request is stored.    *)
OrderFails(o) == /\ \E at \in {"new", "found", "summed", "counted", "accepted"} :
                       OrderGoes(o, at, "refused")
                 /\ UNCHANGED <<product, inbound, outbound>>

InventoryNext ==
    \E o \in Order :
        \/ FindProduct(o) \/ InsertProduct(o) \/ Address(o) \/ CreateInbound(o)
        \/ SumInbound(o) \/ SumOutbound(o) \/ CheckStock(o) \/ CreateOutbound(o)
        \/ OrderFails(o)

InventorySpec == InventoryInit /\ [][InventoryNext]_inventoryVars

(***************************************************************************)
(* Properties.                                                             *)
(***************************************************************************)

(* The exits of s that have begun to count and are not finished.             *)
Leaving(s) == {o \in Order : /\ order[o].kind = "outbound" /\ order[o].sku = s
                             /\ order[o].at \in {"summed", "counted", "accepted"}}

OneExitAtATime == \A s \in Sku : Cardinality(Leaving(s)) <= 1

(* Entries may come at any moment, also between the two sums: as long as the *)
(* exits of a product do not overlap, it never leaves what it does not have. *)
NeverOversoldAlone == ([]OneExitAtATime) => [](\A s \in Sku : Stock(s) >= 0)
=============================================================================

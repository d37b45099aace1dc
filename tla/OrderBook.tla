------------------------------ MODULE OrderBook ------------------------------
(***************************************************************************)
(* What the order service promises, with no transactions, locks or         *)
(* failures in sight: every order is placed in a single step that looks at *)
(* the whole inventory of its store.  If the stock covers the order, the   *)
(* order is recorded as CONFIRMED and all its quantities are deducted; if  *)
(* not, it is recorded as REJECTED and no stock moves.  Administrators set *)
(* the quantity of a row, delete it or delete a product.                   *)
(*                                                                         *)
(* OrderService implements this specification.                             *)
(***************************************************************************)
EXTENDS StoreTables

VARIABLES
    present,    \* inventory rows in the table
    quantity,   \* the quantity column of each inventory row
    orders      \* the orders table: one row or NoOrder per request

bookVars == <<present, quantity, orders>>

BookTypeOK ==
    /\ present \subseteq Rows
    /\ quantity \in [Rows -> 0 .. MaxInt]
    /\ orders \in [Requests -> OrderRow \cup {NoOrder}]

BookInit ==
    /\ present = InitRows
    /\ quantity = InitQuantity
    /\ orders = [r \in Requests |-> NoOrder]

(* The order is covered: record it and deduct every line of it.            *)
Confirm(r, pl) ==
    /\ orders[r] = NoOrder
    /\ Covered(present, quantity, pl)
    /\ orders' = [orders EXCEPT ![r] = [status |-> "CONFIRMED", payload |-> pl]]
    /\ quantity' = [k \in Rows |-> IF k \in RowsFor(present, pl)
                                     THEN Remaining(k, quantity, pl)
                                     ELSE quantity[k]]
    /\ UNCHANGED present

(* A line lacks stock: record the demand, touch no inventory.              *)
Reject(r, pl) ==
    /\ orders[r] = NoOrder
    /\ ~Covered(present, quantity, pl)
    /\ orders' = [orders EXCEPT ![r] = [status |-> "REJECTED", payload |-> pl]]
    /\ UNCHANGED <<present, quantity>>

SetQuantity(k, q) ==
    /\ k \in present
    /\ quantity' = [quantity EXCEPT ![k] = q]
    /\ UNCHANGED <<present, orders>>

DeleteRow(k) ==
    /\ k \in present
    /\ present' = present \ {k}
    /\ UNCHANGED <<quantity, orders>>

(* A product is deleted together with its rows.                            *)
DeleteProduct(p) ==
    /\ present' = {k \in present : RowProduct[k] # p}
    /\ UNCHANGED <<quantity, orders>>

BookNext ==
    \/ \E r \in Requests, pl \in Payloads :
            pl.store \in Stores /\ (Confirm(r, pl) \/ Reject(r, pl))
    \/ \E p \in Products : DeleteProduct(p)
    \/ \E k \in Rows : DeleteRow(k) \/ \E q \in Restocks : SetQuantity(k, q)

BookSpec == BookInit /\ [][BookNext]_bookVars
=============================================================================

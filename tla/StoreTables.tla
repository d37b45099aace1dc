----------------------------- MODULE StoreTables -----------------------------
(***************************************************************************)
(* The relational schema behind the order service: stores, products, the   *)
(* inventory table that joins them and the orders table.  Only the shape   *)
(* of the tables and the questions the service asks of them are here; the  *)
(* modules that extend this one say how the tables change.                 *)
(*                                                                         *)
(* A validated order payload is a store id together with the quantity      *)
(* wanted of each product, 0 standing for a product the order does not     *)
(* mention: the serializer has already refused duplicate products and      *)
(* quantities below 1, so the lines of an order are a function.            *)
(***************************************************************************)
EXTENDS Integers, FiniteSets

CONSTANTS
    Requests,       \* the POST /api/orders/ requests of a behaviour
    Stores,         \* primary keys of the stores that exist
    MissingStore,   \* a store id that is not in the table
    Products,       \* the products that exist
    Rows,           \* primary keys inventory rows have or may be given
    RowStore,       \* the store_id of an inventory row
    RowProduct,     \* the product_id of an inventory row
    InitRows,       \* the inventory rows present initially
    InitQuantity,   \* their quantities
    Restocks,       \* the quantities an administrator may save
    Payloads,       \* the payloads the clients send that pass validation
    MaxInt,         \* largest value of a PostgreSQL integer column
    NoOrder         \* stands for "no row in the orders table"

(* OrderCreateSerializer.validated_data: any store_id >= 1, at least one  *)
(* line, and no bound on a quantity from above.                            *)
Payload ==
    {pl \in [store : Stores \cup {MissingStore}, want : [Products -> Nat]] :
        \E p \in Products : pl.want[p] > 0}

(* Two rows of the inventory table for the same store and product.        *)
SameKey(j, k) == RowStore[j] = RowStore[k] /\ RowProduct[j] = RowProduct[k]

(* A row of the orders table with its order_items rows, which are written *)
(* in the same transaction and repeat the requested quantities.            *)
OrderRow == [status : {"CONFIRMED", "REJECTED"}, payload : Payloads]

ASSUME TablesAssumption ==
    /\ MissingStore \notin Stores
    /\ Rows \subseteq Nat
    /\ IsFiniteSet(Rows)
    /\ RowStore \in [Rows -> Stores]
    /\ RowProduct \in [Rows -> Products]
    /\ InitRows \subseteq Rows
    /\ \A j, k \in InitRows : SameKey(j, k) => j = k
    /\ MaxInt \in Nat
    /\ InitQuantity \in [Rows -> 0 .. MaxInt]
    /\ Restocks \subseteq 0 .. MaxInt
    /\ \A pl \in Payloads : pl \in Payload
    /\ NoOrder \notin OrderRow

-----------------------------------------------------------------------------

(* Inventory.objects.filter(store=store, product_id__in=product_ids) over  *)
(* a set of inventory rows.                                                *)
RowsFor(rows, pl) ==
    {k \in rows : RowStore[k] = pl.store /\ pl.want[RowProduct[k]] > 0}

(* Mutant of Covered: only the missing rows are stock issues.              *)
Listed(rows, stock, pl) ==
    \A p \in Products :
        pl.want[p] > 0 => \E k \in rows : RowStore[k] = pl.store /\ RowProduct[k] = p

(* Every product of the payload has one of the rows with enough stock in   *)
(* it: the loop over item_inputs leaves stock_issues empty.                *)
Covered(rows, stock, pl) ==
    \A p \in Products :
        pl.want[p] > 0 =>
            \E k \in rows : /\ RowStore[k] = pl.store
                            /\ RowProduct[k] = p
                            /\ stock[k] >= pl.want[p]

(* The stock that is left of row k once the payload has been taken.        *)
Remaining(k, stock, pl) == stock[k] - pl.want[RowProduct[k]]
=============================================================================

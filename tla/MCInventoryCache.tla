--------------------------- MODULE MCInventoryCache ---------------------------
(* Small instances of InventoryCache for TLC. *)
EXTENDS InventoryCache

CONSTANTS main, annex, flour, sugar

(* One row, in either store or in none.                                    *)
OneRow == {1}
OneRowProduct == [k \in OneRow |-> flour]

OnlyOrders == {"save", "order"}
OnlySaves == {"save"}
EveryWrite == {"order", "save", "move", "remove", "seed", "product"}
EveryFault == {"redis"}
NoFault == {}
=============================================================================

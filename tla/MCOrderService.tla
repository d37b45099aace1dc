---------------------------- MODULE MCOrderService ----------------------------
(* Small instances of OrderService for TLC. *)
EXTENDS OrderService, TLC

CONSTANTS main, annex, nowhere, flour, sugar

(* A quantity of flour and one of sugar ordered from a store.              *)
Basket(s, f, g) ==
    [store |-> s, want |-> [p \in {flour, sugar} |-> IF p = flour THEN f ELSE g]]

(* One store that stocks both products.                                    *)
OneStore == {main}
BothProducts == {flour, sugar}
TwoRows == {1, 2}
OneStoreRowStore == [k \in TwoRows |-> main]
TwoRowProduct == [k \in TwoRows |-> IF k = 1 THEN flour ELSE sugar]
TwoRowQuantity == [k \in TwoRows |-> 2]

(* A basket of both that fits once, one that fits twice, one that never    *)
(* fits, one no column can hold, and one for a store that does not exist.  *)
MixedPayloads ==
    {Basket(main, 2, 1), Basket(main, 0, 1), Basket(main, 3, 1),
     Basket(main, 1, 9), Basket(nowhere, 1, 0)}

(* Two stores whose inventories list the products in opposite orders.      *)
TwoStores == {main, annex}
FourRows == 1 .. 4
TwoStoresRowStore == [k \in FourRows |-> IF k \in {1, 2} THEN main ELSE annex]
FourRowProduct == [k \in FourRows |-> IF k \in {1, 4} THEN flour ELSE sugar]
FourRowQuantity == [k \in FourRows |-> 3]
OneBasketEach == {Basket(main, 1, 1), Basket(annex, 1, 1)}

(* One store with a row for flour; a second row, for sugar, is added       *)
(* while orders run, and a row that was deleted is replaced.               *)
OneStoreThreeRows == [k \in 1 .. 3 |-> main]
AddedRowProduct == [k \in 1 .. 3 |-> IF k = 2 THEN sugar ELSE flour]
AddedRowQuantity == [k \in 1 .. 3 |-> 2]
ThreeRows == 1 .. 3
FirstRow == {1}
BothOrFlour == {Basket(main, 1, 1), Basket(main, 2, 0)}

(* A rejected order with a quantity that no integer column can hold.       *)
HugePayloads == {Basket(main, 1, 9), Basket(main, 3, 1), Basket(main, 1, 1)}

AnyProduct == {flour, sugar}
NoProducts == {}
AllFaults == {"crash", "connection", "broker"}
NoFaults == {}
SomeRestocks == {1, 3}
OneRestock == {1}
NoRestocks == {}

RequestSymmetry == Permutations(Requests)
=============================================================================

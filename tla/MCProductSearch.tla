--------------------------- MODULE MCProductSearch ---------------------------
(* Small instances of ProductSearch for TLC. *)
EXTENDS ProductSearch

CONSTANTS main, annex

(* Product 4 may be created; it is as old as product 3 to the microsecond. *)
FourIds == 1 .. 4
Clock == [p \in FourIds |-> IF p = 4 THEN 3 ELSE p]
ThreeProducts ==
    [p \in 1 .. 3 |-> [rank |-> IF p = 3 THEN 1 ELSE 2, price |-> IF p = 1 THEN 1 ELSE 2]]
TwoShelves == [row \in {<<main, 1>>, <<annex, 1>>, <<main, 2>>} |-> 1]

Ask(text, prices, store, inStock, sort) ==
    [text |-> text, prices |-> prices, store |-> store, inStock |-> inStock, sort |-> sort]

FourQueries ==
    {Ask(TRUE, {1, 2}, NoStore, FALSE, "relevance"),
     Ask(FALSE, {1, 2}, NoStore, TRUE, "price_asc"),
     Ask(FALSE, {2}, NoStore, FALSE, "newest"),
     Ask(FALSE, {1, 2}, main, FALSE, "price_desc")}
=============================================================================

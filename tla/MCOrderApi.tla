------------------------------ MODULE MCOrderApi ------------------------------
(* Small instances of OrderApi for TLC. *)
EXTENDS MCOrderService, OrderApi

OneLine(p, n) == [product |-> p, quantity |-> n]
Asking(s, lines) == [store |-> s, items |-> lines]

(* Two bodies that are orders, one for a store that does not exist, and    *)
(* one for each way of being refused.                                      *)
GoodBodies ==
    {Asking(main, <<OneLine(flour, 1), OneLine(sugar, 1)>>),
     Asking(main, <<OneLine(flour, 2)>>)}
BadBodies ==
    {Unparsable, NoObject,
     Asking(nowhere, <<OneLine(flour, 1)>>),
     Asking(Absent, <<OneLine(flour, 1), Malformed>>),
     Asking(main, Absent), Asking(main, Malformed), Asking(main, <<>>),
     Asking(main, <<OneLine(flour, 1), OneLine(flour, 1)>>),
     Asking(main, <<OneLine(Absent, 1)>>),
     Asking(main, <<OneLine(flour, 1), OneLine(sugar, 0)>>),
     Asking(main, <<OneLine(flour, Malformed)>>)}
EveryBody == GoodBodies \cup BadBodies

(* What the bodies order that are orders, that name no store and that name *)
(* a product twice.                                                        *)
SentPayloads ==
    {Basket(main, 1, 1), Basket(main, 2, 0), Basket(nowhere, 1, 0), Basket(main, 1, 0)}
=============================================================================

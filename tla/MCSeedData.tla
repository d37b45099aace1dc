------------------------------ MODULE MCSeedData ------------------------------
(* Small instances of SeedData for TLC. *)
EXTENDS SeedData

OpenShop == {"order", "create", "stock", "edit", "delete", "kill"}
OnlyOrders == {"order"}
WithAndWithout == {TRUE, FALSE}
AlwaysClear == {TRUE}
=============================================================================

------------------------- MODULE MCOrderConfirmation -------------------------
(* Small instances of OrderConfirmation for TLC. *)
EXTENDS OrderConfirmation

EveryFault == {"web", "broker", "task", "child", "worker", "eviction", "delete"}
=============================================================================

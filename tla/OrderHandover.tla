---------------------------- MODULE OrderHandover ----------------------------
(***************************************************************************)
(* The agreement between the order service and the confirmation task: a    *)
(* confirmation falls due when an order is committed as CONFIRMED, not     *)
(* before; it is handed to the broker once or dropped, and what has been   *)
(* dropped stays so; a customer is notified of nothing but what was handed *)
(* over.  OrderService and OrderConfirmation each implement it.            *)
(***************************************************************************)
CONSTANT Orders

VARIABLES
    stage,          \* how far the confirmation of each order has come
    notified        \* orders the customer has heard of

handoverVars == <<stage, notified>>

HandoverInit ==
    /\ stage = [o \in Orders |-> "open"]
    /\ notified = {}

Move(o, to) ==
    /\ stage' = [stage EXCEPT ![o] = to]
    /\ UNCHANGED notified

(* The order is committed.                                                 *)
FallDue(o) == stage[o] = "open" /\ Move(o, "due")

HandOver(o) == stage[o] = "due" /\ Move(o, "published")

(* Nobody hands over the confirmation of an order whose worker is lost, or *)
(* does not learn of its commit.                                           *)
Drop(o) == stage[o] \in {"open", "due"} /\ Move(o, "dropped")

Notify(o) ==
    /\ stage[o] = "published"
    /\ notified' = notified \cup {o}
    /\ UNCHANGED stage

HandoverNext == \E o \in Orders : FallDue(o) \/ HandOver(o) \/ Drop(o) \/ Notify(o)

HandoverSpec == HandoverInit /\ [][HandoverNext]_handoverVars
=============================================================================

----------------------- MODULE OrderConfirmationProofs -----------------------
(***************************************************************************)
(* For any number of orders, processes and retries, and for every fault:   *)
(* no confirmation disappears by itself, how often one is sent and tried,  *)
(* and the task's side of the agreement with the order service.            *)
(***************************************************************************)
EXTENDS OrderConfirmation, FiniteSetTheorems, TLAPS

IInv == TypeOK /\ Accounted

LEMMA ChildType ==
    ASSUME TypeOK, NEW c \in Children, child[c] # Idle
    PROVE  /\ child[c] \in Job
           /\ child[c].message \in Message
           /\ OrderOf(c) \in Orders
           /\ RetriesOf(c) \in 0 .. MaxRetries
BY DEF TypeOK, Job, Message, OrderOf, RetriesOf

LEMMA AtType ==
    ASSUME TypeOK, NEW c \in Children, child[c] # Idle,
           NEW stage \in {"started", "sent", "retried", "failed"}, At(c, stage)
    PROVE  /\ child' \in [Children -> Job \cup {Idle}]
           /\ child'[c].at = stage
           /\ \A d \in Children \ {c} : child'[d] = child[d]
<1>1. child[c] \in [message : Message, at : {"started", "sent", "retried", "failed"}]
  BY ChildType DEF Job
<1>2. [child[c] EXCEPT !.at = stage]
            \in [message : Message, at : {"started", "sent", "retried", "failed"}]
  BY <1>1
<1>3. [child[c] EXCEPT !.at = stage] \in Job
  BY <1>2 DEF Job
<1>4. QED
  BY <1>1, <1>3 DEF At, TypeOK

LEMMA CountType ==
    /\ \A m : Cardinality(Holders(m)) \in Nat
    /\ \A o : Cardinality(Unfinished(o)) \in Nat /\ Cardinality(Finished(o)) \in Nat
<1>1. \A S : S \subseteq Children => Cardinality(S) \in Nat
  BY FS_Subset, FS_CardinalityType, ConfirmationAssumption
<1>2. QED
  BY <1>1 DEF Holders, Unfinished, Finished

LEMMA PublishType ==
    ASSUME TypeOK, NEW o \in Orders, NEW n \in Copies(o), Publish(o, n)
    PROVE  /\ n \in Nat
           /\ duplicates' \in [Orders -> Nat] /\ lost' \subseteq Orders
           /\ lost \subseteq lost'
           /\ n = 0 => o \in lost'
<1>1. n \in {0, 1, 2}
  BY DEF Copies
<1>2. n \in Nat /\ (IF n = 0 THEN 0 ELSE n - 1) \in Nat
  BY <1>1
<1>3. QED
  BY <1>2 DEF Publish, TypeOK

-----------------------------------------------------------------------------
LEMMA InitIInv == Init => IInv
<1> SUFFICES ASSUME Init PROVE IInv
  OBVIOUS
<1>1. TypeOK
  BY ConfirmationAssumption DEF Init, TypeOK
<1>2. Accounted
  BY DEF Init, Accounted
<1>3. QED
  BY <1>1, <1>2 DEF IInv

LEMMA OrderStep ==
    ASSUME IInv, NEW o \in Orders,
           CommitOrder(o) \/ Dispatch(o) \/ WebDies(o) \/ DeleteOrder(o)
    PROVE  IInv'
<1>1. CASE CommitOrder(o)
  <2>1. TypeOK'
    BY <1>1 DEF CommitOrder, IInv, TypeOK, queueVars, historyVars
  <2>2. Accounted'
    BY <1>1 DEF CommitOrder, IInv, TypeOK, Accounted, Pending, Unfinished, Running, OrderOf,
                queueVars,
                historyVars
  <2>3. QED
    BY <2>1, <2>2 DEF IInv
<1>2. CASE Dispatch(o)
  <2> DEFINE first == [order |-> o, retries |-> 0]
  <2>1. first \in Message /\ first.order = o
    BY ConfirmationAssumption DEF Message
  <2>2. PICK n \in Copies(o) :
            /\ ready' = [ready EXCEPT ![first] = @ + n]
            /\ Publish(o, n)
            /\ web' = [web EXCEPT ![o] = IF n = 0 THEN "unpublished" ELSE "published"]
    BY <1>2 DEF Dispatch
  <2>3. /\ n \in Nat /\ duplicates' \in [Orders -> Nat] /\ lost' \subseteq Orders
        /\ lost \subseteq lost' /\ (n = 0 => o \in lost')
    BY <2>2, PublishType DEF IInv
  <2>4. ready' \in [Message -> Nat] /\ \A m \in Message : ready'[m] >= ready[m]
    BY <2>1, <2>2, <2>3 DEF IInv, TypeOK
  <2>5. TypeOK'
    BY <1>2, <2>2, <2>3, <2>4 DEF Dispatch, IInv, TypeOK
  <2>6. n # 0 => ready'[first] > 0
    BY <2>1, <2>2, <2>3 DEF IInv, TypeOK
  <2>7. \A p \in Orders : Pending(p) => Pending(p)'
    <3> SUFFICES ASSUME NEW p \in Orders, Pending(p) PROVE Pending(p)'
      OBVIOUS
    <3>1. \A m \in Message : ready[m] \in Nat /\ delayed[m] \in Nat
      BY DEF IInv, TypeOK
    <3>2. delayed' = delayed /\ child' = child
      BY <1>2 DEF Dispatch
    <3>3. \A m \in Message : ready[m] > 0 => ready'[m] > 0
      BY <2>4, <3>1
    <3>4. QED
      BY <3>2, <3>3 DEF Pending, Unfinished, Running, OrderOf
  <2>8. Accounted'
    <3> SUFFICES ASSUME NEW p \in Orders, web'[p] \in {"published", "unpublished"}
                 PROVE  Pending(p)' \/ sent'[p] > 0 \/ p \in failed' \/ p \in lost'
      BY DEF Accounted
    <3>1. CASE p = o
      BY <2>1, <2>3, <2>6, <3>1 DEF Pending, Unfinished
    <3>2. CASE p # o
      BY <1>2, <2>2, <2>3, <2>7, <3>2 DEF Dispatch, IInv, TypeOK, Accounted
    <3>3. QED
      BY <3>1, <3>2
  <2>9. QED
    BY <2>5, <2>8 DEF IInv
<1>3. CASE WebDies(o)
  <2>1. TypeOK'
    BY <1>3 DEF WebDies, IInv, TypeOK, queueVars
  <2>2. Accounted'
    BY <1>3 DEF WebDies, IInv, TypeOK, Accounted, Pending, Unfinished, Running, OrderOf, queueVars
  <2>3. QED
    BY <2>1, <2>2 DEF IInv
<1>4. CASE DeleteOrder(o)
  <2>1. TypeOK'
    BY <1>4 DEF DeleteOrder, IInv, TypeOK, queueVars, historyVars
  <2>2. Accounted'
    BY <1>4 DEF DeleteOrder, IInv, TypeOK, Accounted, Pending, Unfinished, Running, OrderOf,
                queueVars,
                historyVars
  <2>3. QED
    BY <2>1, <2>2 DEF IInv
<1>5. QED
  BY <1>1, <1>2, <1>3, <1>4

LEMMA CountdownStep ==
    ASSUME IInv, NEW m \in Message, CountdownEnds(m)
    PROVE  IInv'
<1>1. /\ ready' \in [Message -> Nat] /\ delayed' \in [Message -> Nat]
      /\ ready'[m] > 0
      /\ \A k \in Message \ {m} : ready'[k] = ready[k] /\ delayed'[k] = delayed[k]
  BY DEF CountdownEnds, IInv, TypeOK
<1>2. TypeOK'
  BY <1>1 DEF CountdownEnds, IInv, TypeOK, historyVars
<1>3. \A o \in Orders : Pending(o) => Pending(o)'
  BY <1>1 DEF CountdownEnds, Pending, Unfinished, Running, OrderOf
<1>4. Accounted'
  BY <1>3 DEF CountdownEnds, IInv, Accounted, historyVars
<1>5. QED
  BY <1>2, <1>4 DEF IInv

-----------------------------------------------------------------------------
LEMMA BeginStep ==
    ASSUME IInv, NEW c \in Children, NEW m \in Message, Start(c, m)
    PROVE  IInv'
<1>1. m.order \in Orders
  BY DEF Message
<1>2. /\ ready' \in [Message -> Nat]
      /\ \A k \in Message \ {m} : ready'[k] = ready[k]
      /\ delayed' = delayed
  BY DEF Start, IInv, TypeOK
<1>3. [message |-> m, at |-> "started"] \in Job
  BY DEF Job
<1>4. /\ child' \in [Children -> Job \cup {Idle}]
      /\ child'[c] = [message |-> m, at |-> "started"]
      /\ \A d \in Children \ {c} : child'[d] = child[d]
  BY <1>3 DEF Start, IInv, TypeOK
<1>5. attempts' \in [Orders -> Nat]
  BY <1>1 DEF Start, IInv, TypeOK
<1>6. TypeOK'
  BY <1>2, <1>4, <1>5 DEF Start, IInv, TypeOK
<1>7. ~Running(c)
  BY DEF Start, Running, Idle
<1>8. Running(c)' /\ OrderOf(c)' = m.order
  BY <1>4 DEF Running, OrderOf
<1>9. \A o \in Orders : Pending(o) => Pending(o)'
  BY <1>2, <1>4, <1>7, <1>8 DEF Pending, Unfinished, Running, OrderOf
<1>10. Accounted'
  BY <1>9 DEF Start, IInv, Accounted
<1>11. QED
  BY <1>6, <1>10 DEF IInv

(* A process leaves its message: what was pending for other orders stays,  *)
(* and for its own order unless that is accounted for.                     *)
LEMMA LeaveStep ==
    ASSUME IInv, NEW c \in Children, child[c] # Idle,
           child' \in [Children -> Job \cup {Idle}],
           \A d \in Children \ {c} : child'[d] = child[d],
           UNCHANGED <<web, ready>>,
           delayed' \in [Message -> Nat],
           \A m \in Message : delayed[m] > 0 => delayed'[m] > 0,
           \A o \in Orders : sent[o] > 0 => sent'[o] > 0,
           failed \subseteq failed', lost \subseteq lost',
           Running(c) => \/ sent'[OrderOf(c)] > 0 \/ OrderOf(c) \in failed'
                         \/ OrderOf(c) \in lost'
                         \/ \E m \in Message : m.order = OrderOf(c) /\ delayed'[m] > 0
    PROVE  Accounted'
<1> SUFFICES ASSUME NEW o \in Orders, web'[o] \in {"published", "unpublished"}
             PROVE  Pending(o)' \/ sent'[o] > 0 \/ o \in failed' \/ o \in lost'
  BY DEF Accounted
<1>1. Pending(o) \/ sent[o] > 0 \/ o \in failed \/ o \in lost
  BY DEF IInv, Accounted
<1>2. CASE \E m \in Message : m.order = o /\ (ready[m] > 0 \/ delayed[m] > 0)
  BY <1>2 DEF Pending, Unfinished
<1>3. ASSUME NEW d \in Children, Running(d), OrderOf(d) = o
      PROVE  Pending(o)' \/ sent'[o] > 0 \/ o \in failed' \/ o \in lost'
  <2>1. CASE d = c
    BY <1>3, <2>1 DEF Pending, Unfinished
  <2>2. CASE d # c
    BY <1>3, <2>2 DEF Pending, Unfinished, Running, OrderOf
  <2>3. QED
    BY <2>1, <2>2
<1>4. QED
  BY <1>1, <1>2, <1>3 DEF Pending, Unfinished

LEMMA RunningBusy == ASSUME NEW c \in Children, Running(c) PROVE child[c] # Idle
BY DEF Running, Idle

LEMMA ExecuteStep ==
    ASSUME IInv, NEW c \in Children, Execute(c) \/ ChildDies(c)
    PROVE  IInv'
<1>1. CASE Send(c)
  <2>1. child[c] # Idle /\ OrderOf(c) \in Orders
    BY <1>1, RunningBusy, ChildType DEF Send, IInv
  <2>2. /\ child' \in [Children -> Job \cup {Idle}]
        /\ \A d \in Children \ {c} : child'[d] = child[d]
    BY <1>1, <2>1, AtType DEF Send, IInv
  <2>3. /\ sent' \in [Orders -> Nat] /\ sent'[OrderOf(c)] > 0
        /\ \A o \in Orders : sent[o] > 0 => sent'[o] > 0
    BY <1>1, <2>1 DEF Send, IInv, TypeOK
  <2>4. TypeOK'
    BY <1>1, <2>2, <2>3 DEF Send, IInv, TypeOK, queueVars, historyVars
  <2>5. Accounted'
    BY <1>1, <2>1, <2>2, <2>3, LeaveStep DEF Send, IInv, TypeOK, queueVars, historyVars
  <2>6. QED
    BY <2>4, <2>5 DEF IInv
<1>2. CASE Retry(c)
  <2> DEFINE next == [order |-> OrderOf(c), retries |-> RetriesOf(c) + 1]
  <2>1. child[c] # Idle /\ OrderOf(c) \in Orders /\ RetriesOf(c) \in 0 .. MaxRetries
    BY <1>2, RunningBusy, ChildType DEF Retry, Raises, IInv
  <2>2. next \in Message /\ next.order = OrderOf(c)
    BY <1>2, <2>1, ConfirmationAssumption DEF Retry, Message
  <2>3. PICK n \in Copies(OrderOf(c)) :
            delayed' = [delayed EXCEPT ![next] = @ + n] /\ Publish(OrderOf(c), n)
    BY <1>2 DEF Retry
  <2>4. /\ n \in Nat /\ duplicates' \in [Orders -> Nat] /\ lost' \subseteq Orders
        /\ lost \subseteq lost' /\ (n = 0 => OrderOf(c) \in lost')
    BY <2>1, <2>3, PublishType DEF IInv
  <2>5. /\ delayed' \in [Message -> Nat]
        /\ \A m \in Message : delayed[m] > 0 => delayed'[m] > 0
        /\ n # 0 => delayed'[next] > 0
    BY <2>2, <2>3, <2>4 DEF IInv, TypeOK
  <2>6. /\ child' \in [Children -> Job \cup {Idle}]
        /\ \A d \in Children \ {c} : child'[d] = child[d]
    BY <1>2, <2>1, AtType DEF Retry, IInv
  <2>7. TypeOK'
    BY <1>2, <2>4, <2>5, <2>6 DEF Retry, IInv, TypeOK
  <2>8. OrderOf(c) \in lost' \/ \E m \in Message : m.order = OrderOf(c) /\ delayed'[m] > 0
    BY <2>2, <2>4, <2>5
  <2>9. Accounted'
    BY <1>2, <2>1, <2>4, <2>5, <2>6, <2>8, LeaveStep DEF Retry
  <2>10. QED
    BY <2>7, <2>9 DEF IInv
<1>3. CASE GiveUp(c)
  <2>1. child[c] # Idle /\ OrderOf(c) \in Orders
    BY <1>3, RunningBusy, ChildType DEF GiveUp, Raises, IInv
  <2>2. /\ child' \in [Children -> Job \cup {Idle}]
        /\ \A d \in Children \ {c} : child'[d] = child[d]
    BY <1>3, <2>1, AtType DEF GiveUp, IInv
  <2>3. TypeOK'
    BY <1>3, <2>1, <2>2 DEF GiveUp, IInv, TypeOK, queueVars, historyVars
  <2>4. Accounted'
    BY <1>3, <2>1, <2>2, LeaveStep DEF GiveUp, IInv, TypeOK, queueVars, historyVars
  <2>5. QED
    BY <2>3, <2>4 DEF IInv
<1>4. CASE Acknowledge(c)
  <2>1. /\ child' \in [Children -> Job \cup {Idle}]
        /\ \A d \in Children \ {c} : child'[d] = child[d]
    BY <1>4 DEF Acknowledge, IInv, TypeOK
  <2>2. TypeOK'
    BY <1>4, <2>1 DEF Acknowledge, IInv, TypeOK, queueVars, historyVars
  <2>3. Accounted'
    BY <1>4, <2>1, LeaveStep DEF Acknowledge, IInv, TypeOK, queueVars, historyVars
  <2>4. QED
    BY <2>2, <2>3 DEF IInv
<1>5. CASE ChildDies(c)
  <2>1. /\ child' \in [Children -> Job \cup {Idle}]
        /\ \A d \in Children \ {c} : child'[d] = child[d]
    BY <1>5 DEF ChildDies, IInv, TypeOK
  <2>2. OrderOf(c) \in Orders
    BY <1>5, ChildType DEF ChildDies, IInv
  <2>3. lost' \subseteq Orders /\ lost \subseteq lost' /\ (Running(c) => OrderOf(c) \in lost')
    BY <1>5, <2>2 DEF ChildDies, IInv, TypeOK
  <2>4. TypeOK'
    BY <1>5, <2>1, <2>3 DEF ChildDies, IInv, TypeOK, queueVars
  <2>5. Accounted'
    BY <1>5, <2>1, <2>3, LeaveStep DEF ChildDies, IInv, TypeOK, queueVars
  <2>6. QED
    BY <2>4, <2>5 DEF IInv
<1>6. QED
  BY <1>1, <1>2, <1>3, <1>4, <1>5 DEF Execute

-----------------------------------------------------------------------------
LEMMA CrashStep == ASSUME IInv, WorkerDies PROVE IInv'
<1>1. /\ \A m \in Message : ready'[m] = ready[m] + Cardinality(Holders(m))
      /\ ready' \in [Message -> Nat]
  BY CountType DEF WorkerDies, IInv, TypeOK
<1>2. interrupted' \in [Orders -> Nat] /\ duplicates' \in [Orders -> Nat]
  BY CountType DEF WorkerDies, IInv, TypeOK
<1>3. crashes' \in 0 .. MaxCrashes
  BY ConfirmationAssumption DEF WorkerDies, IInv, TypeOK
<1>4. TypeOK'
  BY <1>1, <1>2, <1>3 DEF WorkerDies, IInv, TypeOK
<1>5. \A m \in Message : ready[m] > 0 => ready'[m] > 0
  BY <1>1, CountType DEF IInv, TypeOK
<1>6. ASSUME NEW c \in Children, Running(c)
      PROVE  child[c].message \in Message /\ ready'[child[c].message] > 0
  <2>1. child[c] # Idle /\ child[c].message \in Message
    BY <1>6, RunningBusy, ChildType DEF IInv
  <2>2. c \in Holders(child[c].message)
    BY <2>1 DEF Holders
  <2>3. IsFiniteSet(Holders(child[c].message))
    BY FS_Subset, ConfirmationAssumption DEF Holders
  <2>4. Cardinality(Holders(child[c].message)) # 0
    BY <2>2, <2>3, FS_EmptySet
  <2>5. QED
    BY <1>1, <2>1, <2>4, CountType DEF IInv, TypeOK
<1>7. \A o \in Orders : Pending(o) => Pending(o)'
  BY <1>5, <1>6 DEF WorkerDies, Pending, Unfinished, OrderOf
<1>8. Accounted'
  BY <1>7 DEF WorkerDies, IInv, Accounted
<1>9. QED
  BY <1>4, <1>8 DEF IInv

LEMMA EvictStep == ASSUME IInv, EvictQueue PROVE IInv'
<1>1. lost' \subseteq Orders /\ lost \subseteq lost'
  BY DEF EvictQueue, IInv, TypeOK, Message
<1>2. TypeOK'
  BY <1>1 DEF EvictQueue, IInv, TypeOK
<1>3. \A o \in Orders : Pending(o) => Pending(o)' \/ o \in lost'
  BY DEF EvictQueue, Pending, Unfinished, Running, OrderOf
<1>4. Accounted'
  BY <1>1, <1>3 DEF EvictQueue, IInv, Accounted
<1>5. QED
  BY <1>2, <1>4 DEF IInv

(* The types and the account hold in every reachable state.                *)
THEOREM ConfirmationInvariant == Spec => []IInv
<1>1. IInv /\ [Next]_vars => IInv'
  <2> SUFFICES ASSUME IInv, [Next]_vars PROVE IInv'
    OBVIOUS
  <2>1. CASE UNCHANGED vars
    <3>1. TypeOK'
      BY <2>1 DEF IInv, TypeOK, vars, queueVars, historyVars
    <3>2. Accounted'
      BY <2>1 DEF IInv, Accounted, Pending, Unfinished, Running, OrderOf, vars, queueVars,
                  historyVars
    <3>3. QED
      BY <3>1, <3>2 DEF IInv
  <2>2. CASE Next
    BY <2>2, OrderStep, CountdownStep, BeginStep, ExecuteStep, CrashStep, EvictStep
       DEF Next, Begin
  <2>3. QED
    BY <2>1, <2>2
<1>2. QED
  BY InitIInv, <1>1, PTL DEF Spec

(* No confirmation disappears by itself, whatever dies and retries: once   *)
(* create_order has returned, the task is pending, has run, has used up    *)
(* its retries, or a fault that loses messages has hit it.                 *)
THEOREM ConfirmationsAccounted == Spec => []Accounted
<1>1. IInv => Accounted
  BY DEF IInv
<1>2. QED
  BY ConfirmationInvariant, <1>1, PTL

(* Every variable keeps to its type.                                       *)
THEOREM TypesCorrect == Spec => []TypeOK
<1>1. IInv => TypeOK
  BY DEF IInv
<1>2. QED
  BY ConfirmationInvariant, <1>1, PTL

-----------------------------------------------------------------------------
(* The agreement with the order service.  A message exists, a task runs    *)
(* and a customer has heard of an order only after its publication.        *)

Published ==
    /\ \A m \in Message : ready[m] > 0 \/ delayed[m] > 0 => web[m.order] = "published"
    /\ \A c \in Children : child[c] # Idle => web[OrderOf(c)] = "published"
    /\ \A o \in Orders : sent[o] > 0 => web[o] = "published"

LEMMA InitPublished == Init => Published
BY DEF Init, Published

(* The web worker publishes the only messages that do not come from        *)
(* another message of the same order.                                      *)
LEMMA DispatchPublished ==
    ASSUME IInv, Published, NEW o \in Orders, Dispatch(o)
    PROVE  Published'
<1> DEFINE first == [order |-> o, retries |-> 0]
<1>1. first \in Message /\ first.order = o
  BY ConfirmationAssumption DEF Message
<1>2. PICK n \in Copies(o) :
          /\ ready' = [ready EXCEPT ![first] = @ + n]
          /\ Publish(o, n)
          /\ web' = [web EXCEPT ![o] = IF n = 0 THEN "unpublished" ELSE "published"]
  BY DEF Dispatch
<1>3. n \in Nat
  BY <1>2, PublishType DEF IInv
<1>4. UNCHANGED <<delayed, child, sent>> /\ web[o] = "dispatching"
  BY DEF Dispatch
<1>5. \A m \in Message : m.order \in Orders
  BY DEF Message
<1>6. \A p \in Orders : web[p] = "published" => web'[p] = "published"
  BY <1>2, <1>4 DEF IInv, TypeOK
<1>7. n # 0 => web'[o] = "published"
  BY <1>2 DEF IInv, TypeOK
<1>8. ASSUME NEW m \in Message, ready'[m] > 0
      PROVE  web'[m.order] = "published"
  <2>1. CASE m = first /\ n # 0
    BY <1>1, <1>7, <2>1
  <2>2. CASE m # first \/ n = 0
    <3>1. ready'[m] = ready[m]
      BY <1>1, <1>2, <2>2 DEF IInv, TypeOK
    <3>2. QED
      BY <1>5, <1>6, <1>8, <3>1 DEF Published
  <2>3. QED
    BY <2>1, <2>2
<1>9. \A m \in Message : delayed'[m] > 0 => web'[m.order] = "published"
  BY <1>4, <1>5, <1>6 DEF Published
<1>10. \A c \in Children : child'[c] # Idle => web'[OrderOf(c)'] = "published"
  BY <1>4, <1>6, ChildType DEF Published, OrderOf, IInv
<1>11. \A p \in Orders : sent'[p] > 0 => web'[p] = "published"
  BY <1>4, <1>6 DEF Published
<1>12. QED
  BY <1>8, <1>9, <1>10, <1>11 DEF Published

(* The other steps of the web worker and of the administrator.             *)
LEMMA WebPublished ==
    ASSUME IInv, Published, NEW o \in Orders, CommitOrder(o) \/ WebDies(o) \/ DeleteOrder(o)
    PROVE  Published'
<1>1. UNCHANGED <<ready, delayed, child, sent>>
  BY DEF CommitOrder, WebDies, DeleteOrder, queueVars
<1>2. \A p \in Orders : web[p] = "published" => web'[p] = "published"
  BY DEF CommitOrder, WebDies, DeleteOrder, IInv, TypeOK
<1>3. \A m \in Message : m.order \in Orders
  BY DEF Message
<1>4. \A c \in Children : child'[c] # Idle => web'[OrderOf(c)'] = "published"
  BY <1>1, <1>2, ChildType DEF Published, OrderOf, IInv
<1>5. QED
  BY <1>1, <1>2, <1>3, <1>4 DEF Published

(* The steps of the worker: whatever they put in the queue belongs to the  *)
(* order of a message that was there.                                      *)
LEMMA WorkerPublished ==
    ASSUME IInv, Published, NEW c \in Children, Begin(c) \/ Execute(c) \/ ChildDies(c)
    PROVE  Published'
<1>1. ASSUME NEW m \in Message, Start(c, m)
      PROVE  Published'
  <2>1. web' = web /\ delayed' = delayed /\ sent' = sent
    BY <1>1 DEF Start
  <2>2. \A k \in Message : ready'[k] > 0 => ready[k] > 0
    BY <1>1 DEF Start, IInv, TypeOK
  <2>3. ready[m] > 0 /\ child' = [child EXCEPT ![c] = [message |-> m, at |-> "started"]]
    BY <1>1 DEF Start
  <2>4. web[m.order] = "published"
    BY <2>3 DEF Published
  <2>5. \A d \in Children : child'[d] # Idle => web[OrderOf(d)'] = "published"
    BY <2>3, <2>4 DEF Published, OrderOf, IInv, TypeOK
  <2>6. QED
    BY <2>1, <2>2, <2>5 DEF Published
<1>2. ASSUME child[c] # Idle,
             child'[c] = Idle \/ child'[c].message = child[c].message,
             \A d \in Children \ {c} : child'[d] = child[d],
             UNCHANGED <<web, ready>>,
             \A m \in Message : delayed'[m] > 0 => delayed[m] > 0 \/ m.order = OrderOf(c),
             \A o \in Orders : sent'[o] > 0 => sent[o] > 0 \/ o = OrderOf(c)
      PROVE  Published'
  <2>1. web[OrderOf(c)] = "published"
    BY <1>2 DEF Published
  <2>2. \A d \in Children : child'[d] # Idle => web[OrderOf(d)'] = "published"
    BY <1>2, <2>1 DEF Published, OrderOf
  <2>3. QED
    BY <1>2, <2>1, <2>2 DEF Published
<1>3. ASSUME child[c] # Idle, NEW stage \in {"started", "sent", "retried", "failed"},
             At(c, stage)
      PROVE  /\ child'[c].message = child[c].message
             /\ \A d \in Children \ {c} : child'[d] = child[d]
  <2>1. child[c] \in Job
    BY <1>3, ChildType DEF IInv
  <2>2. QED
    BY <1>3, <2>1 DEF At, IInv, TypeOK, Job
<1>4. CASE Send(c)
  <2>1. child[c] # Idle /\ OrderOf(c) \in Orders
    BY <1>4, RunningBusy, ChildType DEF Send, IInv
  <2>2. \A o \in Orders : sent'[o] > 0 => sent[o] > 0 \/ o = OrderOf(c)
    BY <1>4 DEF Send, IInv, TypeOK
  <2>3. QED
    BY <1>2, <1>3, <1>4, <2>1, <2>2 DEF Send, queueVars
<1>5. CASE Retry(c)
  <2>1. child[c] # Idle /\ OrderOf(c) \in Orders
    BY <1>5, RunningBusy, ChildType DEF Retry, Raises, IInv
  <2>2. \A m \in Message : delayed'[m] > 0 => delayed[m] > 0 \/ m.order = OrderOf(c)
    BY <1>5 DEF Retry, IInv, TypeOK
  <2>3. QED
    BY <1>2, <1>3, <1>5, <2>1, <2>2 DEF Retry
<1>6. CASE GiveUp(c)
  <2>1. child[c] # Idle
    BY <1>6, RunningBusy DEF GiveUp, Raises
  <2>2. QED
    BY <1>2, <1>3, <1>6, <2>1 DEF GiveUp, queueVars
<1>7. CASE Acknowledge(c) \/ ChildDies(c)
  BY <1>2, <1>7 DEF Acknowledge, ChildDies, queueVars, IInv, TypeOK
<1>8. QED
  BY <1>1, <1>4, <1>5, <1>6, <1>7 DEF Begin, Execute

LEMMA PublishedStep == IInv /\ Published /\ [Next]_vars => Published'
<1> SUFFICES ASSUME IInv, Published, [Next]_vars PROVE Published'
  OBVIOUS
<1>1. ASSUME NEW m \in Message, CountdownEnds(m)
      PROVE  Published'
  <2>1. \A k \in Message : ready'[k] > 0 \/ delayed'[k] > 0 => ready[k] > 0 \/ delayed[k] > 0
    BY <1>1 DEF CountdownEnds, IInv, TypeOK
  <2>2. QED
    BY <1>1, <2>1 DEF CountdownEnds, Published, OrderOf
<1>2. CASE WorkerDies
  <2>1. ASSUME NEW m \in Message, ready'[m] > 0
        PROVE  web[m.order] = "published"
    <3>1. CASE Holders(m) = {}
      <4>1. IsFiniteSet(Holders(m))
        BY FS_Subset, ConfirmationAssumption DEF Holders
      <4>2. Cardinality(Holders(m)) = 0
        BY <3>1, <4>1, FS_EmptySet
      <4>3. ready'[m] = ready[m] + Cardinality(Holders(m))
        BY <1>2 DEF WorkerDies
      <4>4. ready'[m] = ready[m]
        BY <4>2, <4>3 DEF IInv, TypeOK
      <4>5. QED
        BY <2>1, <4>4 DEF Published
    <3>2. CASE Holders(m) # {}
      BY <3>2 DEF Holders, Published, OrderOf
    <3>3. QED
      BY <3>1, <3>2
  <2>2. QED
    BY <1>2, <2>1 DEF WorkerDies, Published
<1>3. CASE EvictQueue
  BY <1>3 DEF EvictQueue, Published, OrderOf
<1>4. CASE UNCHANGED vars
  BY <1>4 DEF vars, queueVars, Published, OrderOf
<1>5. QED
  BY <1>1, <1>2, <1>3, <1>4, DispatchPublished, WebPublished, WorkerPublished DEF Next

(* The state of the agreement that a state of the task stands for.         *)
StageNow == [o \in Orders |-> ConfirmationStage(o)]
NotifiedNow == {o \in Orders : sent[o] > 0}

(* A step that neither touches the web worker nor sends anything.          *)
LEMMA HandoverUnchanged ==
    ASSUME UNCHANGED <<web, sent>>
    PROVE  UNCHANGED <<StageNow, NotifiedNow>>
BY DEF StageNow, NotifiedNow, ConfirmationStage

(* The confirmation of one order moves on.                                 *)
LEMMA HandoverMoves ==
    ASSUME TypeOK, NEW o \in Orders, NEW to, web' = [web EXCEPT ![o] = to], sent' = sent
    PROVE  /\ StageNow' = [StageNow EXCEPT ![o] = ConfirmationStage(o)']
           /\ NotifiedNow' = NotifiedNow
           /\ web'[o] = to
<1>1. \A p \in Orders \ {o} : web'[p] = web[p]
  BY DEF TypeOK
<1>2. web'[o] = to
  BY DEF TypeOK
<1>3. QED
  BY <1>1, <1>2 DEF StageNow, NotifiedNow, ConfirmationStage

LEMMA HandoverStep ==
    ASSUME IInv, Published, [Next]_vars
    PROVE  \/ \E o \in Orders : \/ Handover!FallDue(o) \/ Handover!HandOver(o)
                                \/ Handover!Drop(o) \/ Handover!Notify(o)
           \/ UNCHANGED <<StageNow, NotifiedNow>>
<1> USE DEF IInv
<1>1. ASSUME NEW o \in Orders, CommitOrder(o)
      PROVE  Handover!FallDue(o)
  <2>1. StageNow[o] = "open" /\ web' = [web EXCEPT ![o] = "dispatching"] /\ sent' = sent
    BY <1>1 DEF CommitOrder, StageNow, ConfirmationStage
  <2>2. ConfirmationStage(o)' = "due"
    BY <2>1, HandoverMoves DEF ConfirmationStage
  <2>3. QED
    BY <2>1, <2>2, HandoverMoves DEF Handover!FallDue, Handover!Move, StageNow, NotifiedNow
<1>2. ASSUME NEW o \in Orders, Dispatch(o)
      PROVE  Handover!HandOver(o) \/ Handover!Drop(o)
  <2>1. StageNow[o] = "due" /\ sent' = sent
    BY <1>2 DEF Dispatch, StageNow, ConfirmationStage
  <2>2. PICK to \in {"published", "unpublished"} : web' = [web EXCEPT ![o] = to]
    BY <1>2 DEF Dispatch
  <2>3. CASE to = "published"
    <3>1. ConfirmationStage(o)' = "published"
      BY <2>1, <2>2, <2>3, HandoverMoves DEF ConfirmationStage
    <3>2. QED
      BY <2>1, <2>2, <3>1, HandoverMoves
         DEF Handover!HandOver, Handover!Move, StageNow, NotifiedNow
  <2>4. CASE to = "unpublished"
    <3>1. ConfirmationStage(o)' = "dropped"
      BY <2>1, <2>2, <2>4, HandoverMoves DEF ConfirmationStage
    <3>2. QED
      BY <2>1, <2>2, <3>1, HandoverMoves
         DEF Handover!Drop, Handover!Move, StageNow, NotifiedNow
  <2>5. QED
    BY <2>2, <2>3, <2>4
<1>3. ASSUME NEW o \in Orders, WebDies(o)
      PROVE  Handover!Drop(o)
  <2>1. StageNow[o] = "due" /\ web' = [web EXCEPT ![o] = "dead"] /\ sent' = sent
    BY <1>3 DEF WebDies, StageNow, ConfirmationStage
  <2>2. ConfirmationStage(o)' = "dropped"
    BY <2>1, HandoverMoves DEF ConfirmationStage
  <2>3. QED
    BY <2>1, <2>2, HandoverMoves DEF Handover!Drop, Handover!Move, StageNow, NotifiedNow
<1>4. ASSUME NEW c \in Children, Send(c)
      PROVE  \E o \in Orders : Handover!Notify(o)
  <2>1. child[c] # Idle /\ OrderOf(c) \in Orders
    BY <1>4, RunningBusy, ChildType DEF Send
  <2>2. PICK o \in Orders : o = OrderOf(c)
    BY <2>1
  <2>3. web[o] = "published"
    BY <2>1, <2>2 DEF Published
  <2>4. StageNow[o] = "published"
    BY <2>3 DEF StageNow, ConfirmationStage
  <2>5. web' = web /\ sent' = [sent EXCEPT ![o] = @ + 1]
    BY <1>4, <2>2 DEF Send
  <2>6. StageNow' = StageNow
    BY <2>5 DEF StageNow, ConfirmationStage
  <2>7. NotifiedNow' = NotifiedNow \cup {o}
    BY <2>5 DEF NotifiedNow, TypeOK
  <2>8. Handover!Notify(o)
    BY <2>4, <2>6, <2>7 DEF Handover!Notify, StageNow, NotifiedNow
  <2>9. QED
    BY <2>8
<1>5. ASSUME NEW c \in Children, Begin(c) \/ Retry(c) \/ GiveUp(c) \/ Acknowledge(c) \/ ChildDies(c)
      PROVE  UNCHANGED <<web, sent>>
  BY <1>5 DEF Begin, Start, Retry, GiveUp, Acknowledge, ChildDies
<1>6. ASSUME NEW o \in Orders, DeleteOrder(o)
      PROVE  UNCHANGED <<web, sent>>
  BY <1>6 DEF DeleteOrder
<1>7. ASSUME (\E m \in Message : CountdownEnds(m)) \/ WorkerDies \/ EvictQueue \/ UNCHANGED vars
      PROVE  UNCHANGED <<web, sent>>
  BY <1>7 DEF CountdownEnds, WorkerDies, EvictQueue, vars
<1>8. CASE \E o \in Orders : CommitOrder(o) \/ Dispatch(o) \/ WebDies(o) \/ DeleteOrder(o)
  BY <1>1, <1>2, <1>3, <1>6, <1>8, HandoverUnchanged
<1>9. CASE \E c \in Children : Begin(c) \/ Execute(c) \/ ChildDies(c)
  <2>1. PICK c \in Children : Begin(c) \/ Execute(c) \/ ChildDies(c)
    BY <1>9
  <2>2. CASE Send(c)
    BY <1>4, <2>1, <2>2
  <2>3. CASE ~Send(c)
    <3>1. UNCHANGED <<web, sent>>
      BY <1>5, <2>1, <2>3 DEF Execute
    <3>2. QED
      BY <3>1, HandoverUnchanged
  <2>4. QED
    BY <2>2, <2>3
<1>10. QED
  BY <1>7, <1>8, <1>9, HandoverUnchanged DEF Next

(* The confirmation task keeps its side of the agreement with the order    *)
(* service: nobody is notified of an order whose confirmation was not      *)
(* published, and publications follow the commit.                          *)
THEOREM TaskImplementsHandover == Spec => ImplementsHandover
<1>1. Init => Handover!HandoverInit
  BY DEF Init, Handover!HandoverInit, ConfirmationStage
<1>2. IInv /\ Published /\ [Next]_vars => [Handover!HandoverNext]_(Handover!handoverVars)
  BY HandoverStep DEF Handover!HandoverNext, Handover!handoverVars, StageNow, NotifiedNow
<1>3. QED
  BY <1>1, <1>2, ConfirmationInvariant, InitPublished, PublishedStep, PTL
     DEF Spec, ImplementsHandover, Handover!HandoverSpec
-----------------------------------------------------------------------------
(* How often a confirmation is tried and sent.  Every copy of a message    *)
(* and every execution of a task carries the things it may still bring     *)
(* about, told apart by a set of numbers for its message; an order's share *)
(* of them is counted as the cardinality of a set of tuples.               *)

Weights == [Message -> SUBSET (0 .. MaxRetries)]

(* What the copies of the messages of an order carry, in a queue.          *)
Tokens(queue, weight, o) ==
    UNION {{m} \X ((1 .. queue[m]) \X weight[m]) : m \in {n \in Message : n.order = o}}

(* What the processes of a set carry when each is about a certain job.     *)
Carried(job, weight, S) == UNION {{c} \X weight[job[c].message] : c \in S}

(* What order o may still bring about, when the waiting copies carry one   *)
(* weight and the executions that go on another.                           *)
Load(waiting, going, o) ==
    Cardinality(Tokens(ready, waiting, o)) + Cardinality(Tokens(delayed, waiting, o))
        + Cardinality(Carried(child, going, Unfinished(o)))

Countable(waiting, o) ==
    IsFiniteSet(Tokens(ready, waiting, o)) /\ IsFiniteSet(Tokens(delayed, waiting, o))

LEMMA WeightFinite ==
    ASSUME NEW weight \in Weights, NEW m \in Message
    PROVE  /\ IsFiniteSet(weight[m])
           /\ Cardinality(weight[m]) \in Nat
           /\ Cardinality(weight[m]) <= MaxRetries + 1
<1>1. IsFiniteSet(0 .. MaxRetries) /\ Cardinality(0 .. MaxRetries) = MaxRetries + 1
  BY ConfirmationAssumption, FS_Interval
<1>2. weight[m] \in SUBSET (0 .. MaxRetries)
  BY DEF Weights
<1>3. IsFiniteSet(weight[m]) /\ Cardinality(weight[m]) <= Cardinality(0 .. MaxRetries)
  BY <1>1, <1>2, FS_Subset
<1>4. QED
  BY <1>1, <1>3, FS_CardinalityType

LEMMA DisjointUnion ==
    ASSUME NEW S, NEW T, IsFiniteSet(S), IsFiniteSet(T), S \cap T = {}
    PROVE  /\ IsFiniteSet(S \cup T)
           /\ Cardinality(S \cup T) = Cardinality(S) + Cardinality(T)
<1>1. Cardinality(S \cup T) = Cardinality(S) + Cardinality(T) - Cardinality(S \cap T)
  BY FS_Union
<1>2. Cardinality(S \cap T) = 0
  BY FS_EmptySet
<1>3. Cardinality(S) \in Nat /\ Cardinality(T) \in Nat
  BY FS_CardinalityType
<1>4. QED
  BY <1>1, <1>2, <1>3, FS_Union

LEMMA PairCount ==
    ASSUME NEW x, NEW S, IsFiniteSet(S)
    PROVE  IsFiniteSet({x} \X S) /\ Cardinality({x} \X S) = Cardinality(S)
<1>1. IsFiniteSet({x}) /\ Cardinality({x}) = 1
  BY FS_Singleton
<1>2. IsFiniteSet({x} \X S) /\ Cardinality({x} \X S) = Cardinality({x}) * Cardinality(S)
  BY <1>1, FS_Product
<1>3. Cardinality(S) \in Nat
  BY FS_CardinalityType
<1>4. QED
  BY <1>1, <1>2, <1>3

Plus(queue, m, n) == [queue EXCEPT ![m] = @ + n]
Minus(queue, m) == [queue EXCEPT ![m] = @ - 1]

(* n more copies of a message carry n times its weight.                    *)
LEMMA Added ==
    ASSUME NEW f \in [Message -> Nat], NEW weight \in Weights, NEW o,
           NEW m \in Message, NEW n \in Nat, IsFiniteSet(Tokens(f, weight, o))
    PROVE  /\ IsFiniteSet(Tokens(Plus(f, m, n), weight, o))
           /\ Cardinality(Tokens(Plus(f, m, n), weight, o)) = Cardinality(Tokens(f, weight, o))
                + (IF m.order = o THEN n * Cardinality(weight[m]) ELSE 0)
<1> DEFINE g == Plus(f, m, n)
<1>1. g[m] = f[m] + n /\ f[m] \in Nat /\ \A k \in Message \ {m} : g[k] = f[k]
  BY DEF Plus
<1> HIDE DEF g
<1>2. CASE m.order = o
  <2> DEFINE new == {m} \X ((f[m] + 1 .. f[m] + n) \X weight[m])
  <2>1. 1 .. g[m] = (1 .. f[m]) \cup (f[m] + 1 .. f[m] + n)
    BY <1>1
  <2>2. {m} \X ((1 .. g[m]) \X weight[m]) = ({m} \X ((1 .. f[m]) \X weight[m])) \cup new
    BY <2>1
  <2>3. Tokens(g, weight, o) = Tokens(f, weight, o) \cup new
    <3>1. ASSUME NEW t, t \in Tokens(g, weight, o) PROVE t \in Tokens(f, weight, o) \cup new
      <4>1. PICK k \in Message : k.order = o /\ t \in {k} \X ((1 .. g[k]) \X weight[k])
        BY <3>1 DEF Tokens
      <4>2. CASE k = m
        BY <1>2, <2>2, <4>1, <4>2 DEF Tokens
      <4>3. CASE k # m
        BY <1>1, <4>1, <4>3 DEF Tokens
      <4>4. QED
        BY <4>2, <4>3
    <3>2. ASSUME NEW t, t \in Tokens(f, weight, o) PROVE t \in Tokens(g, weight, o)
      <4>1. PICK k \in Message : k.order = o /\ t \in {k} \X ((1 .. f[k]) \X weight[k])
        BY <3>2 DEF Tokens
      <4>2. CASE k = m
        BY <1>2, <2>2, <4>1, <4>2 DEF Tokens
      <4>3. CASE k # m
        BY <1>1, <4>1, <4>3 DEF Tokens
      <4>4. QED
        BY <4>2, <4>3
    <3>3. new \subseteq Tokens(g, weight, o)
      BY <1>2, <2>2 DEF Tokens
    <3>4. QED
      BY <3>1, <3>2, <3>3
  <2>4. Tokens(f, weight, o) \cap new = {}
    <3> SUFFICES ASSUME NEW t, t \in Tokens(f, weight, o), t \in new PROVE FALSE
      OBVIOUS
    <3>1. PICK k \in Message : t \in {k} \X ((1 .. f[k]) \X weight[k])
      BY DEF Tokens
    <3>2. t[1] = k /\ t[1] = m /\ t[2][1] \in 1 .. f[k] /\ t[2][1] \in f[m] + 1 .. f[m] + n
      BY <3>1
    <3>3. QED
      BY <1>1, <3>2
  <2>5. /\ IsFiniteSet(f[m] + 1 .. f[m] + n)
        /\ Cardinality(f[m] + 1 .. f[m] + n) = n
    <3>1. f[m] + 1 \in Int /\ f[m] + n \in Int
      BY <1>1
    <3>2. /\ IsFiniteSet(f[m] + 1 .. f[m] + n)
          /\ Cardinality(f[m] + 1 .. f[m] + n)
                = IF f[m] + 1 > f[m] + n THEN 0 ELSE (f[m] + n) - (f[m] + 1) + 1
      BY <3>1, FS_Interval
    <3>3. QED
      BY <1>1, <3>2
  <2>6. /\ IsFiniteSet((f[m] + 1 .. f[m] + n) \X weight[m])
        /\ Cardinality((f[m] + 1 .. f[m] + n) \X weight[m]) = n * Cardinality(weight[m])
    BY <2>5, WeightFinite, FS_Product
  <2>7. IsFiniteSet(new) /\ Cardinality(new) = n * Cardinality(weight[m])
    BY <2>6, PairCount
  <2>8. /\ IsFiniteSet(Tokens(f, weight, o) \cup new)
        /\ Cardinality(Tokens(f, weight, o) \cup new)
                = Cardinality(Tokens(f, weight, o)) + Cardinality(new)
    BY <2>4, <2>7, DisjointUnion, Zenon
  <2>9. QED
    BY <1>2, <2>3, <2>7, <2>8, Zenon DEF g
<1>3. CASE m.order # o
  <2>1. \A k \in {l \in Message : l.order = o} : g[k] = f[k]
    BY <1>1, <1>3
  <2>2. Tokens(g, weight, o) = Tokens(f, weight, o)
    BY <2>1 DEF Tokens
  <2>3. Cardinality(Tokens(f, weight, o)) \in Nat
    BY FS_CardinalityType
  <2>4. QED
    BY <1>3, <2>2, <2>3 DEF g
<1>4. QED
  BY <1>2, <1>3

(* A copy less carries its weight less.                                    *)
LEMMA Removed ==
    ASSUME NEW f \in [Message -> Nat], NEW weight \in Weights, NEW o,
           NEW m \in Message, f[m] > 0, IsFiniteSet(Tokens(f, weight, o))
    PROVE  /\ IsFiniteSet(Tokens(Minus(f, m), weight, o))
           /\ Cardinality(Tokens(f, weight, o)) = Cardinality(Tokens(Minus(f, m), weight, o))
                + (IF m.order = o THEN Cardinality(weight[m]) ELSE 0)
<1> DEFINE g == Minus(f, m)
<1>1. g \in [Message -> Nat] /\ f = Plus(g, m, 1)
  <2>1. f[m] - 1 \in Nat /\ f[m] - 1 + 1 = f[m]
    OBVIOUS
  <2>2. g \in [Message -> Nat] /\ g[m] = f[m] - 1
    BY <2>1 DEF Minus
  <2>3. Plus(g, m, 1) = f
    BY <2>1, <2>2 DEF Minus, Plus
  <2>4. QED
    BY <2>2, <2>3
<1>2. \A k \in Message : 1 .. g[k] \subseteq 1 .. f[k]
  <2>1. \A k \in Message : g[k] \in Nat /\ f[k] \in Nat /\ g[k] <= f[k]
    BY DEF Minus
  <2>2. QED
    BY <2>1
<1>3. Tokens(g, weight, o) \in SUBSET Tokens(f, weight, o)
  <2> SUFFICES ASSUME NEW t \in Tokens(g, weight, o) PROVE t \in Tokens(f, weight, o)
    OBVIOUS
  <2>1. PICK k \in Message : k.order = o /\ t \in {k} \X ((1 .. g[k]) \X weight[k])
    BY DEF Tokens
  <2>2. t \in {k} \X ((1 .. f[k]) \X weight[k])
    BY <1>2, <2>1
  <2>3. QED
    BY <2>1, <2>2 DEF Tokens
<1>4. IsFiniteSet(Tokens(g, weight, o))
  BY <1>3, FS_Subset
<1>5. Cardinality(Tokens(f, weight, o)) = Cardinality(Tokens(g, weight, o))
        + (IF m.order = o THEN 1 * Cardinality(weight[m]) ELSE 0)
  <2>1. 1 \in Nat
    OBVIOUS
  <2>2. QED
    BY <1>1, <1>4, <2>1, Added
<1>6. 1 * Cardinality(weight[m]) = Cardinality(weight[m])
  BY WeightFinite
<1>7. QED
  BY <1>4, <1>5, <1>6

LEMMA CarriedFinite ==
    ASSUME NEW job, NEW weight \in Weights, NEW S \in SUBSET Children,
           \A c \in S : job[c].message \in Message
    PROVE  /\ IsFiniteSet(Carried(job, weight, S))
           /\ Cardinality(Carried(job, weight, S)) \in Nat
<1>1. IsFiniteSet(Children \X (0 .. MaxRetries))
  <2>1. IsFiniteSet(Children) /\ IsFiniteSet(0 .. MaxRetries)
    BY ConfirmationAssumption, FS_Interval
  <2>2. QED
    BY <2>1, FS_Product, Zenon
<1>2. \A c \in S : weight[job[c].message] \subseteq 0 .. MaxRetries
  BY DEF Weights
<1>3. Carried(job, weight, S) \in SUBSET (Children \X (0 .. MaxRetries))
  BY <1>2 DEF Carried
<1>4. QED
  BY <1>1, <1>3, FS_Subset, FS_CardinalityType

LEMMA CarriedJoin ==
    ASSUME NEW job, NEW weight \in Weights, NEW S \in SUBSET Children,
           NEW c \in Children, c \notin S, \A d \in S \cup {c} : job[d].message \in Message
    PROVE  Cardinality(Carried(job, weight, S \cup {c}))
                = Cardinality(Carried(job, weight, S)) + Cardinality(weight[job[c].message])
<1> DEFINE its == {c} \X weight[job[c].message]
<1>1. Carried(job, weight, S \cup {c}) = Carried(job, weight, S) \cup its
  BY DEF Carried
<1>2. Carried(job, weight, S) \cap its = {}
  BY DEF Carried
<1>3. IsFiniteSet(its) /\ Cardinality(its) = Cardinality(weight[job[c].message])
  BY WeightFinite, PairCount
<1>4. IsFiniteSet(Carried(job, weight, S))
  BY CarriedFinite
<1>5. Cardinality(Carried(job, weight, S) \cup its)
            = Cardinality(Carried(job, weight, S)) + Cardinality(its)
  BY <1>2, <1>3, <1>4, DisjointUnion, Zenon
<1>6. QED
  BY <1>1, <1>3, <1>5, Zenon

LEMMA CarriedEqual ==
    ASSUME NEW job, NEW other, NEW weight, NEW S,
           \A c \in S : job[c].message = other[c].message
    PROVE  Carried(job, weight, S) = Carried(other, weight, S)
BY DEF Carried

LEMMA CarriedMore ==
    ASSUME NEW job, NEW weight \in Weights, NEW S \in SUBSET Children, NEW R \in SUBSET S,
           \A c \in S : job[c].message \in Message
    PROVE  Cardinality(Carried(job, weight, R)) <= Cardinality(Carried(job, weight, S))
<1>1. Carried(job, weight, R) \in SUBSET Carried(job, weight, S)
  BY DEF Carried
<1>2. QED
  BY <1>1, CarriedFinite, FS_Subset

LEMMA LoadType ==
    ASSUME TypeOK, NEW waiting \in Weights, NEW going \in Weights, NEW o, Countable(waiting, o)
    PROVE  /\ Cardinality(Tokens(ready, waiting, o)) \in Nat
           /\ Cardinality(Tokens(delayed, waiting, o)) \in Nat
           /\ Cardinality(Carried(child, going, Unfinished(o))) \in Nat
           /\ Load(waiting, going, o) \in Nat
<1>1. \A c \in Unfinished(o) : child[c].message \in Message
  BY RunningBusy, ChildType DEF Unfinished
<1>2. Unfinished(o) \in SUBSET Children
  BY DEF Unfinished
<1>3. Cardinality(Carried(child, going, Unfinished(o))) \in Nat
  BY <1>1, <1>2, CarriedFinite
<1>4. QED
  BY <1>3, FS_CardinalityType DEF Countable, Load

(* A message is published or its countdown ends: copies come and go.       *)
LEMMA DispatchLoad ==
    ASSUME TypeOK, NEW waiting \in Weights, NEW going \in Weights, NEW p, Countable(waiting, p),
           NEW m \in Message, NEW n \in Nat, ready' = Plus(ready, m, n),
           UNCHANGED <<delayed, child>>
    PROVE  /\ Countable(waiting, p)'
           /\ Load(waiting, going, p)' = Load(waiting, going, p)
                + (IF m.order = p THEN n * Cardinality(waiting[m]) ELSE 0)
<1>1. /\ IsFiniteSet(Tokens(ready', waiting, p))
      /\ Cardinality(Tokens(ready', waiting, p)) = Cardinality(Tokens(ready, waiting, p))
            + (IF m.order = p THEN n * Cardinality(waiting[m]) ELSE 0)
  <2>1. ready \in [Message -> Nat] /\ IsFiniteSet(Tokens(ready, waiting, p))
    BY DEF Countable, TypeOK
  <2>2. QED
    BY <2>1, Added
<1>2. Unfinished(p)' = Unfinished(p)
  BY DEF Unfinished, Running, OrderOf
<1>3. (IF m.order = p THEN n * Cardinality(waiting[m]) ELSE 0) \in Nat
  BY WeightFinite
<1>4. QED
  BY <1>1, <1>2, <1>3, LoadType DEF Countable, Load

LEMMA CountdownLoad ==
    ASSUME TypeOK, NEW waiting \in Weights, NEW going \in Weights, NEW p, Countable(waiting, p),
           NEW m \in Message, CountdownEnds(m)
    PROVE  Countable(waiting, p)' /\ Load(waiting, going, p)' = Load(waiting, going, p)
<1> DEFINE moved == IF m.order = p THEN Cardinality(waiting[m]) ELSE 0
<1>1. /\ IsFiniteSet(Tokens(ready', waiting, p))
      /\ Cardinality(Tokens(ready', waiting, p)) = Cardinality(Tokens(ready, waiting, p))
            + (IF m.order = p THEN 1 * Cardinality(waiting[m]) ELSE 0)
  <2>1. /\ ready \in [Message -> Nat] /\ IsFiniteSet(Tokens(ready, waiting, p))
        /\ ready' = Plus(ready, m, 1)
        /\ 1 \in Nat
    BY DEF Countable, TypeOK, CountdownEnds, Plus
  <2>2. QED
    BY <2>1, Added
<1>2. /\ IsFiniteSet(Tokens(delayed', waiting, p))
      /\ Cardinality(Tokens(delayed, waiting, p)) = Cardinality(Tokens(delayed', waiting, p)) + moved
  <2>1. /\ delayed \in [Message -> Nat] /\ IsFiniteSet(Tokens(delayed, waiting, p))
        /\ delayed[m] > 0 /\ delayed' = Minus(delayed, m)
    BY DEF Countable, TypeOK, CountdownEnds, Minus
  <2>2. QED
    BY <2>1, Removed, Zenon
<1>3. Unfinished(p)' = Unfinished(p) /\ child' = child
  BY DEF Unfinished, Running, OrderOf, CountdownEnds
<1>4. Cardinality(Tokens(delayed', waiting, p)) \in Nat
  BY <1>2, FS_CardinalityType
<1>5. Cardinality(waiting[m]) \in Nat
  BY WeightFinite
<1>6. QED
  BY <1>1, <1>2, <1>3, <1>4, <1>5, LoadType DEF Countable, Load

LEMMA Busy ==
    ASSUME TypeOK, NEW o
    PROVE  /\ Unfinished(o) \in SUBSET Children /\ Finished(o) \in SUBSET Children
           /\ \A c \in Unfinished(o) \cup Finished(o) :
                child[c] # Idle /\ child[c].message \in Message
BY RunningBusy, ChildType DEF Unfinished, Finished

(* A copy leaves the queue for a process.                                  *)
LEMMA StartLoad ==
    ASSUME TypeOK, TypeOK', NEW waiting \in Weights, NEW going \in Weights, NEW p,
           Countable(waiting, p), NEW c \in Children, NEW m \in Message, Start(c, m)
    PROVE  /\ Countable(waiting, p)'
           /\ Load(waiting, going, p)' = Load(waiting, going, p)
                + (IF m.order = p THEN Cardinality(going[m]) - Cardinality(waiting[m]) ELSE 0)
<1>1. /\ IsFiniteSet(Tokens(ready', waiting, p))
      /\ Cardinality(Tokens(ready, waiting, p)) = Cardinality(Tokens(ready', waiting, p))
            + (IF m.order = p THEN Cardinality(waiting[m]) ELSE 0)
  <2>1. /\ ready \in [Message -> Nat] /\ IsFiniteSet(Tokens(ready, waiting, p))
        /\ ready[m] > 0 /\ ready' = Minus(ready, m)
    BY DEF Countable, TypeOK, Start, Minus
  <2>2. QED
    BY <2>1, Removed, Zenon
<1>2. /\ child[c] = Idle /\ ~Running(c)
      /\ child'[c] = [message |-> m, at |-> "started"]
      /\ \A d \in Children \ {c} : child'[d] = child[d]
  BY DEF Start, TypeOK, Running, Idle
<1>3. \A d \in Unfinished(p) : child'[d] = child[d]
  BY <1>2 DEF Unfinished
<1>4. Carried(child', going, Unfinished(p)) = Carried(child, going, Unfinished(p))
  BY <1>3, CarriedEqual
<1>5. Cardinality(Carried(child', going, Unfinished(p)'))
        = Cardinality(Carried(child, going, Unfinished(p)))
            + (IF m.order = p THEN Cardinality(going[m]) ELSE 0)
  <2>1. CASE m.order = p
    <3>1. Unfinished(p)' = Unfinished(p) \cup {c} /\ c \notin Unfinished(p)
      BY <1>2, <2>1 DEF Unfinished, Running, OrderOf
    <3>2. \A d \in Unfinished(p) \cup {c} : child'[d].message \in Message
      BY <1>2, <1>3, Busy
    <3>3. Cardinality(Carried(child', going, Unfinished(p) \cup {c}))
            = Cardinality(Carried(child', going, Unfinished(p)))
                + Cardinality(going[child'[c].message])
      BY <3>1, <3>2, Busy, CarriedJoin
    <3>4. child'[c].message = m
      BY <1>2
    <3>5. QED
      BY <1>4, <2>1, <3>1, <3>3, <3>4, Zenon
  <2>2. CASE m.order # p
    <3>1. Unfinished(p)' = Unfinished(p)
      BY <1>2, <2>2 DEF Unfinished, Running, OrderOf
    <3>2. QED
      BY <1>4, <2>2, <3>1, LoadType
  <2>3. QED
    BY <2>1, <2>2
<1>6. Cardinality(going[m]) \in Nat /\ Cardinality(waiting[m]) \in Nat
  BY WeightFinite
<1>7. Cardinality(Tokens(ready', waiting, p)) \in Nat
  BY <1>1, FS_CardinalityType
<1>8. delayed' = delayed
  BY DEF Start
<1>9. QED
  BY <1>1, <1>5, <1>6, <1>7, <1>8, LoadType DEF Countable, Load

LEMMA DelayedPlus ==
    ASSUME delayed \in [Message -> Nat], NEW weight \in Weights, NEW o,
           NEW m \in Message, NEW n \in Nat, IsFiniteSet(Tokens(delayed, weight, o))
    PROVE  /\ IsFiniteSet(Tokens(Plus(delayed, m, n), weight, o))
           /\ Cardinality(Tokens(Plus(delayed, m, n), weight, o))
                = Cardinality(Tokens(delayed, weight, o))
                    + (IF m.order = o THEN n * Cardinality(weight[m]) ELSE 0)
BY Added

(* The task of a process comes to its end or is cut off, while n copies of *)
(* a message are published.                                                *)
LEMMA LeaveLoad ==
    ASSUME TypeOK, NEW waiting \in Weights, NEW going \in Weights, NEW p, Countable(waiting, p),
           NEW c \in Children, child[c] # Idle, ~Running(c)',
           \A d \in Children \ {c} : child'[d] = child[d],
           NEW m \in Message, NEW n \in Nat, delayed' = Plus(delayed, m, n),
           ready' = ready
    PROVE  /\ Countable(waiting, p)'
           /\ Load(waiting, going, p)' = Load(waiting, going, p)
                + (IF m.order = p THEN n * Cardinality(waiting[m]) ELSE 0)
                - (IF c \in Unfinished(p) THEN Cardinality(going[child[c].message]) ELSE 0)
<1>1. /\ IsFiniteSet(Tokens(delayed', waiting, p))
      /\ Cardinality(Tokens(delayed', waiting, p)) = Cardinality(Tokens(delayed, waiting, p))
            + (IF m.order = p THEN n * Cardinality(waiting[m]) ELSE 0)
  <2>1. delayed \in [Message -> Nat] /\ IsFiniteSet(Tokens(delayed, waiting, p))
    BY DEF Countable, TypeOK
  <2>2. /\ IsFiniteSet(Tokens(Plus(delayed, m, n), waiting, p))
        /\ Cardinality(Tokens(Plus(delayed, m, n), waiting, p))
            = Cardinality(Tokens(delayed, waiting, p))
                + (IF m.order = p THEN n * Cardinality(waiting[m]) ELSE 0)
    BY <2>1, DelayedPlus, Zenon
  <2>3. delayed' = Plus(delayed, m, n)
    OBVIOUS
  <2>4. QED
    BY <2>2, <2>3, Zenon
<1>2. Unfinished(p)' = Unfinished(p) \ {c}
  BY DEF Unfinished, Running, OrderOf
<1>3. \A d \in Unfinished(p) \ {c} : child'[d] = child[d]
  BY DEF Unfinished
<1>4. Carried(child', going, Unfinished(p)') = Carried(child, going, Unfinished(p) \ {c})
  BY <1>2, <1>3, CarriedEqual
<1>5. Cardinality(Carried(child, going, Unfinished(p)))
        = Cardinality(Carried(child, going, Unfinished(p) \ {c}))
            + (IF c \in Unfinished(p) THEN Cardinality(going[child[c].message]) ELSE 0)
  <2>1. CASE c \in Unfinished(p)
    <3>1. Unfinished(p) = (Unfinished(p) \ {c}) \cup {c}
      BY <2>1
    <3>2. /\ \A d \in (Unfinished(p) \ {c}) \cup {c} : child[d].message \in Message
          /\ Unfinished(p) \ {c} \in SUBSET Children /\ c \notin Unfinished(p) \ {c}
      BY <2>1, Busy
    <3>3. Cardinality(Carried(child, going, (Unfinished(p) \ {c}) \cup {c}))
            = Cardinality(Carried(child, going, Unfinished(p) \ {c}))
                + Cardinality(going[child[c].message])
      BY <3>2, CarriedJoin
    <3>4. QED
      BY <2>1, <3>1, <3>3, Zenon
  <2>2. CASE c \notin Unfinished(p)
    <3>1. Unfinished(p) \ {c} = Unfinished(p)
      BY <2>2
    <3>2. QED
      BY <2>2, <3>1, LoadType
  <2>3. QED
    BY <2>1, <2>2
<1>6. /\ Cardinality(Carried(child, going, Unfinished(p) \ {c})) \in Nat
      /\ Cardinality(going[child[c].message]) \in Nat
      /\ n * Cardinality(waiting[m]) \in Nat
  BY Busy, CarriedFinite, ChildType, WeightFinite
<1>7. QED
  BY <1>1, <1>4, <1>5, <1>6, LoadType DEF Countable, Load

(* What a set of processes carries can be numbered by process and number.  *)
LEMMA CarriedBound ==
    ASSUME NEW job, NEW weight, NEW S \in SUBSET Children, NEW V, IsFiniteSet(V),
           \A c \in S : weight[job[c].message] \subseteq V
    PROVE  Cardinality(Carried(job, weight, S)) <= Cardinality(S) * Cardinality(V)
<1>1. IsFiniteSet(S)
  BY ConfirmationAssumption, FS_Subset
<1>2. IsFiniteSet(S \X V) /\ Cardinality(S \X V) = Cardinality(S) * Cardinality(V)
  BY <1>1, FS_Product
<1>3. Carried(job, weight, S) \in SUBSET (S \X V)
  BY DEF Carried
<1>4. Cardinality(Carried(job, weight, S)) <= Cardinality(S \X V)
  BY <1>2, <1>3, FS_Subset
<1>5. QED
  BY <1>2, <1>4

LEMMA CarriedParts ==
    ASSUME NEW job, NEW weight \in Weights, NEW R \in SUBSET Children, NEW S \in SUBSET Children,
           R \cap S = {}, \A c \in R \cup S : job[c].message \in Message
    PROVE  Cardinality(Carried(job, weight, R \cup S))
                = Cardinality(Carried(job, weight, R)) + Cardinality(Carried(job, weight, S))
<1>1. Carried(job, weight, R \cup S) = Carried(job, weight, R) \cup Carried(job, weight, S)
  BY DEF Carried
<1>2. Carried(job, weight, R) \cap Carried(job, weight, S) = {}
  BY DEF Carried
<1>3. IsFiniteSet(Carried(job, weight, R)) /\ IsFiniteSet(Carried(job, weight, S))
  BY CarriedFinite
<1>4. QED
  BY <1>1, <1>2, <1>3, DisjointUnion

(* The copies a dying worker gives back carry no more than its processes   *)
(* did: a copy can be mapped to the process that held it.                  *)
LEMMA Restored ==
    ASSUME TypeOK, WorkerDies, NEW weight \in Weights, NEW o,
           IsFiniteSet(Tokens(ready, weight, o))
    PROVE  /\ IsFiniteSet(Tokens(ready', weight, o))
           /\ Cardinality(Tokens(ready', weight, o)) <= Cardinality(Tokens(ready, weight, o))
                + Cardinality(Carried(child, weight, Unfinished(o) \cup Finished(o)))
<1> DEFINE Number(m) == CHOOSE b \in Bijection(1 .. Cardinality(Holders(m)), Holders(m)) : TRUE
           given == UNION {{m} \X ((ready[m] + 1 .. ready[m] + Cardinality(Holders(m)))
                                        \X weight[m]) : m \in {n \in Message : n.order = o}}
           held == Carried(child, weight, Unfinished(o) \cup Finished(o))
           back == [t \in given |-> <<Number(t[1])[t[2][1] - ready[t[1]]], t[2][2]>>]
<1>1. \A m \in Message : /\ ready[m] \in Nat /\ Cardinality(Holders(m)) \in Nat
                         /\ ready'[m] = ready[m] + Cardinality(Holders(m))
  BY CountType DEF TypeOK, WorkerDies
<1>2. \A m \in Message :
        Number(m) \in Bijection(1 .. Cardinality(Holders(m)), Holders(m))
  <2> SUFFICES ASSUME NEW m \in Message
               PROVE  Bijection(1 .. Cardinality(Holders(m)), Holders(m)) # {}
    BY Zenon
  <2>1. IsFiniteSet(Holders(m))
    BY FS_Subset, ConfirmationAssumption DEF Holders
  <2>2. QED
    BY <2>1, FS_CardinalityType DEF ExistsBijection
<1> HIDE DEF Number
<1>3. \A m \in Message :
        /\ Number(m) \in [1 .. Cardinality(Holders(m)) -> Holders(m)]
        /\ \A i, j \in 1 .. Cardinality(Holders(m)) : Number(m)[i] = Number(m)[j] => i = j
  BY <1>2 DEF Bijection, Injection, IsInjective
<1>4. ASSUME NEW t \in given
      PROVE  /\ t[1] \in Message /\ t[1].order = o
             /\ t[2][1] - ready[t[1]] \in 1 .. Cardinality(Holders(t[1])) /\ t[2][1] \in Int
             /\ t[2][2] \in weight[t[1]]
             /\ t = <<t[1], <<t[2][1], t[2][2]>>>>
             /\ back[t] = <<Number(t[1])[t[2][1] - ready[t[1]]], t[2][2]>>
  <2>1. PICK m \in Message : /\ m.order = o
                             /\ t \in {m} \X ((ready[m] + 1 .. ready[m] + Cardinality(Holders(m)))
                                                \X weight[m])
    OBVIOUS
  <2>2. t[1] = m /\ t[2][1] \in ready[m] + 1 .. ready[m] + Cardinality(Holders(m))
        /\ t[2][2] \in weight[m] /\ t = <<t[1], <<t[2][1], t[2][2]>>>>
    BY <2>1
  <2>3. QED
    BY <1>1, <2>1, <2>2
<1>5. \A m \in Message : \A c \in Holders(m) : child[c].message = m
  BY DEF Holders
<1>6. ASSUME NEW t \in given
      PROVE  back[t] \in held /\ child[back[t][1]].message = t[1]
  <2> DEFINE c == Number(t[1])[t[2][1] - ready[t[1]]]
  <2>1. c \in Holders(t[1])
    <3>1. /\ t[1] \in Message
          /\ t[2][1] - ready[t[1]] \in 1 .. Cardinality(Holders(t[1]))
      BY <1>4
    <3>2. Number(t[1]) \in [1 .. Cardinality(Holders(t[1])) -> Holders(t[1])]
      BY <1>3, <3>1, Zenon
    <3>3. QED
      BY <3>1, <3>2, Zenon
  <2>2. child[c].message = t[1] /\ c \in Unfinished(o) \cup Finished(o)
    BY <1>4, <2>1 DEF Holders, Unfinished, Finished, OrderOf
  <2>3. back[t] = <<c, t[2][2]>> /\ t[2][2] \in weight[child[c].message]
    BY <1>4, <2>2
  <2> HIDE DEF c, back
  <2>4. back[t] \in {c} \X weight[child[c].message] /\ back[t][1] = c
    BY <2>3
  <2>5. QED
    BY <2>2, <2>4 DEF Carried
<1>7. back \in [given -> held]
  BY <1>6
<1> HIDE DEF back
<1>8. ASSUME NEW s \in given, NEW t \in given, back[s] = back[t]
      PROVE  s = t
  <2>1. s[1] = t[1] /\ s[2][2] = t[2][2]
    <3>1. child[back[s][1]].message = s[1] /\ child[back[t][1]].message = t[1]
      BY <1>6
    <3>2. back[s][2] = s[2][2] /\ back[t][2] = t[2][2]
      BY <1>4
    <3>3. QED
      BY <1>8, <3>1, <3>2
  <2>2. Number(s[1])[s[2][1] - ready[s[1]]] = Number(t[1])[t[2][1] - ready[t[1]]]
    BY <1>4, <1>8
  <2>3. s[2][1] - ready[s[1]] = t[2][1] - ready[t[1]]
    <3>1. /\ s[1] \in Message
          /\ s[2][1] - ready[s[1]] \in 1 .. Cardinality(Holders(s[1]))
          /\ t[2][1] - ready[t[1]] \in 1 .. Cardinality(Holders(t[1]))
      BY <1>4
    <3>2. \A i, j \in 1 .. Cardinality(Holders(s[1])) : Number(s[1])[i] = Number(s[1])[j] => i = j
      BY <1>3, <3>1, Zenon
    <3>3. QED
      BY <2>1, <2>2, <3>1, <3>2
  <2>4. s[2][1] = t[2][1]
    BY <1>1, <1>4, <2>1, <2>3
  <2>5. QED
    BY <1>4, <2>1, <2>4
<1>9. back \in Injection(given, held)
  BY <1>7, <1>8 DEF Injection, IsInjective
<1>10. IsFiniteSet(held)
  BY Busy, CarriedFinite
<1>11. IsFiniteSet(given) /\ Cardinality(given) <= Cardinality(held)
  BY <1>9, <1>10, FS_Injection, Zenon
<1>12. Tokens(ready', weight, o) = Tokens(ready, weight, o) \cup given
  <2>1. \A m \in Message : 1 .. ready'[m] = (1 .. ready[m])
                \cup (ready[m] + 1 .. ready[m] + Cardinality(Holders(m)))
    BY <1>1
  <2>2. QED
    BY <2>1 DEF Tokens
<1>13. Tokens(ready, weight, o) \cap given = {}
  <2> SUFFICES ASSUME NEW t \in given, t \in Tokens(ready, weight, o) PROVE FALSE
    OBVIOUS
  <2>1. PICK m \in Message : t \in {m} \X ((1 .. ready[m]) \X weight[m])
    BY DEF Tokens
  <2>2. t[1] = m /\ t[2][1] \in 1 .. ready[m]
    BY <2>1
  <2>3. QED
    BY <1>1, <1>4, <2>2
<1> HIDE DEF given, held
<1>14. QED
  <2>1. /\ IsFiniteSet(Tokens(ready, weight, o) \cup given)
        /\ Cardinality(Tokens(ready, weight, o) \cup given)
                = Cardinality(Tokens(ready, weight, o)) + Cardinality(given)
    BY <1>11, <1>13, DisjointUnion
  <2>2. /\ Cardinality(Tokens(ready, weight, o)) \in Nat
        /\ Cardinality(given) \in Nat /\ Cardinality(held) \in Nat
    BY <1>10, <1>11, FS_CardinalityType
  <2>3. Cardinality(Tokens(ready', weight, o))
            <= Cardinality(Tokens(ready, weight, o)) + Cardinality(held)
    BY <1>11, <1>12, <2>1, <2>2
  <2>4. QED
    BY <1>12, <2>1, <2>3 DEF held

LEMMA LoadSame ==
    ASSUME UNCHANGED <<ready, delayed, child>>, NEW waiting, NEW going, NEW p,
           Countable(waiting, p)
    PROVE  Countable(waiting, p)' /\ Load(waiting, going, p)' = Load(waiting, going, p)
BY DEF Countable, Load, Unfinished, Running, OrderOf

LEMMA QuitLoad ==
    ASSUME TypeOK, NEW waiting \in Weights, NEW going \in Weights, NEW p, Countable(waiting, p),
           NEW c \in Children, child[c] # Idle, ~Running(c)',
           \A d \in Children \ {c} : child'[d] = child[d],
           UNCHANGED <<ready, delayed>>
    PROVE  /\ Countable(waiting, p)'
           /\ Load(waiting, going, p)' = Load(waiting, going, p)
                - (IF c \in Unfinished(p) THEN Cardinality(going[child[c].message]) ELSE 0)
           /\ Load(waiting, going, p)' \in Int
           /\ Load(waiting, going, p)' <= Load(waiting, going, p)
<1> DEFINE m == child[c].message
<1>1. m \in Message
  BY ChildType
<1>2. delayed' = Plus(delayed, m, 0)
  BY <1>1 DEF Plus, TypeOK
<1>3. Cardinality(waiting[m]) \in Nat /\ Cardinality(going[m]) \in Nat
  BY <1>1, WeightFinite
<1> HIDE DEF m
<1>4. /\ Countable(waiting, p)'
      /\ Load(waiting, going, p)' = Load(waiting, going, p)
            + (IF m.order = p THEN 0 * Cardinality(waiting[m]) ELSE 0)
            - (IF c \in Unfinished(p) THEN Cardinality(going[child[c].message]) ELSE 0)
  BY <1>1, <1>2, LeaveLoad
<1>5. Load(waiting, going, p) \in Nat
  BY LoadType
<1>6. QED
  BY <1>3, <1>4, <1>5 DEF m

LEMMA CrashLoad ==
    ASSUME TypeOK, WorkerDies, NEW waiting \in Weights, NEW going \in Weights, NEW p,
           Countable(waiting, p)
    PROVE  /\ Countable(waiting, p)'
           /\ Load(waiting, going, p)' \in Int
           /\ Load(waiting, going, p)' <= Cardinality(Tokens(ready, waiting, p))
                + Cardinality(Tokens(delayed, waiting, p))
                + Cardinality(Carried(child, waiting, Unfinished(p)))
                + Cardinality(Carried(child, waiting, Finished(p)))
<1>1. Unfinished(p)' = {} /\ delayed' = delayed
  BY DEF WorkerDies, Unfinished, Running, Idle
<1>2. Carried(child', going, Unfinished(p)') = {}
  BY <1>1 DEF Carried
<1>3. Cardinality(Carried(child', going, Unfinished(p)')) = 0
  BY <1>2, FS_EmptySet
<1>4. Unfinished(p) \cap Finished(p) = {}
  BY DEF Unfinished, Finished
<1>5. Cardinality(Carried(child, waiting, Unfinished(p) \cup Finished(p)))
        = Cardinality(Carried(child, waiting, Unfinished(p)))
            + Cardinality(Carried(child, waiting, Finished(p)))
  BY <1>4, Busy, CarriedParts
<1>6. /\ Cardinality(Carried(child, waiting, Unfinished(p))) \in Nat
      /\ Cardinality(Carried(child, waiting, Finished(p))) \in Nat
  BY Busy, CarriedFinite
<1>7. /\ IsFiniteSet(Tokens(ready', waiting, p))
      /\ Cardinality(Tokens(ready', waiting, p)) <= Cardinality(Tokens(ready, waiting, p))
            + Cardinality(Carried(child, waiting, Unfinished(p) \cup Finished(p)))
  BY Restored DEF Countable
<1>8. Cardinality(Tokens(ready', waiting, p)) \in Nat
  BY <1>7, FS_CardinalityType
<1>9. QED
  BY <1>1, <1>3, <1>5, <1>6, <1>7, <1>8, LoadType DEF Countable, Load

LEMMA EvictLoad ==
    ASSUME TypeOK, EvictQueue, NEW waiting \in Weights, NEW going \in Weights, NEW p,
           Countable(waiting, p)
    PROVE  /\ Countable(waiting, p)'
           /\ Load(waiting, going, p)' \in Int
           /\ Load(waiting, going, p)' <= Load(waiting, going, p)
<1>1. UNCHANGED <<delayed, child>> /\ \A m \in Message : 1 .. ready'[m] = {}
  BY DEF EvictQueue
<1>2. Tokens(ready', waiting, p) = {}
  BY <1>1 DEF Tokens
<1>3. IsFiniteSet(Tokens(ready', waiting, p)) /\ Cardinality(Tokens(ready', waiting, p)) = 0
  BY <1>2, FS_EmptySet
<1>4. Unfinished(p)' = Unfinished(p)
  BY <1>1 DEF Unfinished, Running, OrderOf
<1>5. QED
  BY <1>1, <1>3, <1>4, LoadType DEF Countable, Load

(* Before its dispatch nothing is under way for an order.                  *)
LEMMA Unloaded ==
    ASSUME TypeOK, Published, NEW o \in Orders, web[o] # "published",
           NEW waiting, NEW going
    PROVE  Load(waiting, going, o) = 0 /\ sent[o] = 0
<1>1. \A m \in Message : m.order = o => 1 .. ready[m] = {} /\ 1 .. delayed[m] = {}
  <2> SUFFICES ASSUME NEW m \in Message, m.order = o
               PROVE  1 .. ready[m] = {} /\ 1 .. delayed[m] = {}
    OBVIOUS
  <2>1. ready[m] \in Nat /\ delayed[m] \in Nat /\ ~(ready[m] > 0) /\ ~(delayed[m] > 0)
    BY DEF TypeOK, Published
  <2>2. QED
    BY <2>1
<1>2. Tokens(ready, waiting, o) = {} /\ Tokens(delayed, waiting, o) = {}
  BY <1>1 DEF Tokens
<1>3. Unfinished(o) = {}
  BY RunningBusy DEF Unfinished, Published
<1>4. Carried(child, going, Unfinished(o)) = {}
  BY <1>3 DEF Carried
<1>5. sent[o] = 0
  BY DEF TypeOK, Published
<1>6. QED
  BY <1>2, <1>4, <1>5, FS_EmptySet DEF Load

LEMMA Chains ==
    ASSUME TypeOK, NEW o \in Orders, NEW n \in Copies(o), Publish(o, n)
    PROVE  /\ n \in Nat
           /\ \E more \in Nat : duplicates'[o] = duplicates[o] + more /\ n <= 1 + more
           /\ \A p \in Orders \ {o} : duplicates'[p] = duplicates[p]
<1>1. n \in {0, 1, 2}
  BY DEF Copies
<1>2. duplicates[o] \in Nat
  BY DEF TypeOK
<1>3. \E more \in Nat : more = (IF n = 0 THEN 0 ELSE n - 1) /\ n <= 1 + more
  BY <1>1
<1>4. QED
  BY <1>1, <1>2, <1>3 DEF Publish, TypeOK

-----------------------------------------------------------------------------
(* A copy and an execution may each bring about one confirmation, and an   *)
(* execution with r retries behind it this attempt and MaxRetries - r      *)
(* further ones.                                                           *)

Once == [m \in Message |-> {0}]
Left == [m \in Message |-> m.retries .. MaxRetries]
Further == [m \in Message |-> m.retries + 1 .. MaxRetries]

SendsKept(o) ==
    /\ Countable(Once, o)
    /\ sent[o] + Load(Once, Once, o) <= 1 + duplicates[o]

AttemptsKept(o) ==
    /\ Countable(Left, o)
    /\ attempts[o] + Load(Left, Further, o)
            <= (MaxRetries + 1) * (1 + duplicates[o]) + interrupted[o]
    /\ web[o] # "published" => attempts[o] = 0

LEMMA WeightsCounted ==
    /\ Once \in Weights /\ Left \in Weights /\ Further \in Weights
    /\ \A m \in Message :
        /\ m.retries \in 0 .. MaxRetries
        /\ Cardinality(Once[m]) = 1
        /\ Cardinality(Left[m]) = MaxRetries - m.retries + 1
        /\ Cardinality(Further[m]) = MaxRetries - m.retries
<1>1. \A m \in Message : m.retries \in 0 .. MaxRetries
  BY DEF Message
<1>2. Once \in Weights /\ Left \in Weights /\ Further \in Weights
  BY <1>1, ConfirmationAssumption DEF Once, Left, Further, Weights
<1>3. ASSUME NEW m \in Message
      PROVE  /\ Cardinality(Once[m]) = 1
             /\ Cardinality(Left[m]) = MaxRetries - m.retries + 1
             /\ Cardinality(Further[m]) = MaxRetries - m.retries
  <2>1. Once[m] = {0} /\ Left[m] = m.retries .. MaxRetries
        /\ Further[m] = m.retries + 1 .. MaxRetries
    BY DEF Once, Left, Further
  <2>2. /\ m.retries \in Int /\ m.retries + 1 \in Int /\ MaxRetries \in Int
        /\ m.retries <= MaxRetries
    BY <1>1, ConfirmationAssumption
  <2>3. Cardinality({0}) = 1
    BY FS_Singleton
  <2>4. /\ Cardinality(m.retries .. MaxRetries)
            = IF m.retries > MaxRetries THEN 0 ELSE MaxRetries - m.retries + 1
        /\ Cardinality(m.retries + 1 .. MaxRetries)
            = IF m.retries + 1 > MaxRetries THEN 0 ELSE MaxRetries - (m.retries + 1) + 1
    BY <2>2, FS_Interval
  <2>5. QED
    BY <2>1, <2>2, <2>3, <2>4
<1>4. QED
  BY <1>1, <1>2, <1>3

(* What Send, GiveUp, Acknowledge and ChildDies have in common.            *)
LEMMA Quits ==
    ASSUME TypeOK, NEW c \in Children, Send(c) \/ GiveUp(c) \/ Acknowledge(c) \/ ChildDies(c)
    PROVE  /\ child[c] # Idle /\ ~Running(c)'
           /\ \A d \in Children \ {c} : child'[d] = child[d]
           /\ UNCHANGED <<ready, delayed, web, attempts, duplicates, interrupted>>
<1>1. CASE Send(c) \/ GiveUp(c)
  <2>1. child[c] # Idle
    BY <1>1, RunningBusy DEF Send, GiveUp, Raises
  <2>2. child'[c].at \in {"sent", "failed"} /\ \A d \in Children \ {c} : child'[d] = child[d]
    BY <1>1, <2>1, AtType DEF Send, GiveUp
  <2>3. QED
    BY <1>1, <2>1, <2>2 DEF Send, GiveUp, Running, queueVars, historyVars
<1>2. CASE Acknowledge(c) \/ ChildDies(c)
  <2>1. /\ child[c] # Idle /\ child'[c] = Idle
        /\ \A d \in Children \ {c} : child'[d] = child[d]
    BY <1>2 DEF Acknowledge, ChildDies, TypeOK
  <2>2. ~Running(c)'
    BY <2>1 DEF Running, Idle
  <2>3. QED
    BY <1>2, <2>1, <2>2 DEF Acknowledge, ChildDies, queueVars, historyVars
<1>3. QED
  BY <1>1, <1>2

LEMMA RetryLoad ==
    ASSUME TypeOK, NEW c \in Children, Retry(c), NEW waiting \in Weights, NEW going \in Weights,
           NEW p \in Orders, Countable(waiting, p)
    PROVE  /\ Countable(waiting, p)'
           /\ \E m \in Message, k \in Message, more \in Nat, n \in Nat :
                /\ k.retries = m.retries + 1
                /\ n <= 1 + more
                /\ duplicates'[p] = duplicates[p] + (IF m.order = p THEN more ELSE 0)
                /\ Load(waiting, going, p)' = Load(waiting, going, p)
                    + (IF m.order = p THEN n * Cardinality(waiting[k]) - Cardinality(going[m])
                                      ELSE 0)
<1> DEFINE m == child[c].message
           k == [order |-> OrderOf(c), retries |-> RetriesOf(c) + 1]
<1>1. /\ child[c] # Idle /\ OrderOf(c) \in Orders /\ RetriesOf(c) \in 0 .. MaxRetries
      /\ m \in Message
  BY RunningBusy, ChildType DEF Retry, Raises
<1>2. /\ k \in Message /\ k.order = OrderOf(c) /\ m.order = OrderOf(c)
      /\ k.retries = m.retries + 1
  BY <1>1, ConfirmationAssumption DEF Retry, Message, OrderOf, RetriesOf
<1>3. PICK n \in Copies(OrderOf(c)) :
          delayed' = [delayed EXCEPT ![k] = @ + n] /\ Publish(OrderOf(c), n)
  BY DEF Retry
<1>4. PICK more \in Nat :
          /\ n \in Nat /\ n <= 1 + more
          /\ duplicates'[OrderOf(c)] = duplicates[OrderOf(c)] + more
          /\ \A q \in Orders \ {OrderOf(c)} : duplicates'[q] = duplicates[q]
  BY <1>1, <1>3, Chains
<1>5. child'[c].at = "retried" /\ \A d \in Children \ {c} : child'[d] = child[d]
  BY <1>1, AtType DEF Retry
<1>6. ~Running(c)' /\ ready' = ready
  BY <1>5 DEF Running, Retry
<1>7. c \in Unfinished(p) <=> OrderOf(c) = p
  BY DEF Unfinished, Retry, Raises
<1>8. delayed' = Plus(delayed, k, n)
  BY <1>3 DEF Plus
<1> HIDE DEF k
<1>9. /\ Countable(waiting, p)'
      /\ Load(waiting, going, p)' = Load(waiting, going, p)
            + (IF k.order = p THEN n * Cardinality(waiting[k]) ELSE 0)
            - (IF c \in Unfinished(p) THEN Cardinality(going[child[c].message]) ELSE 0)
  BY <1>1, <1>2, <1>4, <1>5, <1>6, <1>8, LeaveLoad
<1>10. /\ Load(waiting, going, p) \in Nat /\ Cardinality(going[m]) \in Nat
       /\ n * Cardinality(waiting[k]) \in Nat
  BY <1>1, <1>2, <1>4, LoadType, WeightFinite
<1>11. duplicates[p] \in Nat
  BY DEF TypeOK
<1> HIDE DEF m
<1>12. Load(waiting, going, p)' = Load(waiting, going, p)
            + (IF m.order = p THEN n * Cardinality(waiting[k]) - Cardinality(going[m]) ELSE 0)
  BY <1>2, <1>7, <1>9, <1>10 DEF m
<1>13. duplicates'[p] = duplicates[p] + (IF m.order = p THEN more ELSE 0)
  BY <1>2, <1>4, <1>11
<1>14. m \in Message
  BY <1>1 DEF m
<1>15. QED
  BY <1>2, <1>4, <1>9, <1>12, <1>13, <1>14

(* What the steps of the web worker, apart from the dispatch, and of the   *)
(* administrator leave alone.                                              *)
LEMMA WebSteps ==
    ASSUME TypeOK, NEW o \in Orders, CommitOrder(o) \/ WebDies(o) \/ DeleteOrder(o)
    PROVE  /\ UNCHANGED <<ready, delayed, child, sent, attempts, interrupted, duplicates>>
           /\ \A p \in Orders : web[p] = "published" => web'[p] = "published"
BY DEF CommitOrder, WebDies, DeleteOrder, queueVars, historyVars, TypeOK

LEMMA DispatchSteps ==
    ASSUME TypeOK, NEW o \in Orders, Dispatch(o)
    PROVE  \E m \in Message, n \in Nat, more \in Nat :
            /\ m.order = o /\ m.retries = 0 /\ n <= 1 + more
            /\ ready' = Plus(ready, m, n)
            /\ duplicates'[o] = duplicates[o] + more
            /\ \A p \in Orders \ {o} : duplicates'[p] = duplicates[p]
            /\ web[o] = "dispatching"
            /\ \A p \in Orders : web[p] = "published" => web'[p] = "published"
            /\ UNCHANGED <<delayed, child, sent, attempts, interrupted>>
<1> DEFINE m == [order |-> o, retries |-> 0]
<1>1. m \in Message /\ m.order = o /\ m.retries = 0
  BY ConfirmationAssumption DEF Message
<1>2. PICK n \in Copies(o) :
          /\ ready' = [ready EXCEPT ![m] = @ + n]
          /\ Publish(o, n)
          /\ web' = [web EXCEPT ![o] = IF n = 0 THEN "unpublished" ELSE "published"]
  BY DEF Dispatch
<1>3. PICK more \in Nat :
          /\ n \in Nat /\ n <= 1 + more /\ duplicates'[o] = duplicates[o] + more
          /\ \A p \in Orders \ {o} : duplicates'[p] = duplicates[p]
  BY <1>2, Chains
<1>4. /\ web[o] = "dispatching" /\ UNCHANGED <<delayed, child, sent, attempts, interrupted>>
  BY DEF Dispatch
<1>5. \A p \in Orders : web[p] = "published" => web'[p] = "published"
  BY <1>2, <1>4 DEF TypeOK
<1>6. ready' = Plus(ready, m, n)
  BY <1>2 DEF Plus
<1> HIDE DEF m
<1>7. QED
  BY <1>1, <1>3, <1>4, <1>5, <1>6

LEMMA SendsStep ==
    ASSUME TypeOK, TypeOK', Published, [Next]_vars, NEW p \in Orders, SendsKept(p)
    PROVE  SendsKept(p)'
<1> DEFINE load == Load(Once, Once, p)
<1>0. /\ Countable(Once, p) /\ load \in Nat
      /\ sent[p] \in Nat /\ sent'[p] \in Nat /\ duplicates[p] \in Nat /\ duplicates'[p] \in Nat
      /\ sent[p] + load <= 1 + duplicates[p]
  BY WeightsCounted, LoadType DEF TypeOK, SendsKept
<1>1. ASSUME NEW o \in Orders, CommitOrder(o) \/ WebDies(o) \/ DeleteOrder(o)
      PROVE  SendsKept(p)'
  BY <1>0, <1>1, WebSteps, LoadSame DEF SendsKept
<1>2. ASSUME NEW o \in Orders, Dispatch(o)
      PROVE  SendsKept(p)'
  <2>1. PICK m \in Message, n \in Nat, more \in Nat :
            /\ m.order = o /\ n <= 1 + more /\ ready' = Plus(ready, m, n)
            /\ duplicates'[o] = duplicates[o] + more
            /\ \A q \in Orders \ {o} : duplicates'[q] = duplicates[q]
            /\ web[o] = "dispatching" /\ UNCHANGED <<delayed, child, sent>>
    BY <1>2, DispatchSteps
  <2>2. Countable(Once, p)' /\ load' = load + (IF o = p THEN n * Cardinality(Once[m]) ELSE 0)
    BY <1>0, <2>1, WeightsCounted, DispatchLoad
  <2>3. n * Cardinality(Once[m]) = n
    BY WeightsCounted
  <2>4. CASE o = p
    <3>1. load = 0 /\ sent[p] = 0
      BY <2>1, <2>4, Unloaded
    <3>2. QED
      BY <1>0, <2>1, <2>2, <2>3, <2>4, <3>1 DEF SendsKept
  <2>5. CASE o # p
    BY <1>0, <2>1, <2>2, <2>5 DEF SendsKept
  <2>6. QED
    BY <2>4, <2>5
<1>3. ASSUME NEW m \in Message, CountdownEnds(m)
      PROVE  SendsKept(p)'
  <2>1. Countable(Once, p)' /\ load' = load
    BY <1>0, <1>3, WeightsCounted, CountdownLoad
  <2>2. QED
    BY <1>0, <1>3, <2>1 DEF SendsKept, CountdownEnds, historyVars
<1>4. ASSUME NEW c \in Children, NEW m \in Message, Start(c, m)
      PROVE  SendsKept(p)'
  <2>1. /\ Countable(Once, p)'
        /\ load' = load + (IF m.order = p THEN Cardinality(Once[m]) - Cardinality(Once[m]) ELSE 0)
    BY <1>0, <1>4, WeightsCounted, StartLoad
  <2>2. load' = load
    BY <1>0, <2>1, WeightsCounted
  <2>3. QED
    BY <1>0, <1>4, <2>1, <2>2 DEF SendsKept, Start
<1>5. ASSUME NEW c \in Children, Send(c)
      PROVE  SendsKept(p)'
  <2>1. child[c].message \in Message /\ OrderOf(c) \in Orders
    BY <1>5, RunningBusy, ChildType DEF Send
  <2>2. /\ Countable(Once, p)'
        /\ load' = load
            - (IF c \in Unfinished(p) THEN Cardinality(Once[child[c].message]) ELSE 0)
    BY <1>0, <1>5, Quits, WeightsCounted, QuitLoad
  <2>3. load' = load - (IF c \in Unfinished(p) THEN 1 ELSE 0)
    BY <2>1, <2>2, WeightsCounted
  <2>4. c \in Unfinished(p) <=> OrderOf(c) = p
    BY <1>5 DEF Unfinished, Send
  <2>5. sent'[p] = sent[p] + (IF OrderOf(c) = p THEN 1 ELSE 0)
    BY <1>0, <1>5, <2>1 DEF Send, TypeOK
  <2>6. duplicates' = duplicates
    BY <1>5 DEF Send, historyVars
  <2>7. QED
    BY <1>0, <2>2, <2>3, <2>4, <2>5, <2>6 DEF SendsKept
<1>6. ASSUME NEW c \in Children, GiveUp(c) \/ Acknowledge(c) \/ ChildDies(c)
      PROVE  SendsKept(p)'
  <2>1. sent' = sent /\ duplicates' = duplicates
    BY <1>6 DEF GiveUp, Acknowledge, ChildDies, historyVars
  <2>2. Countable(Once, p)' /\ load' <= load /\ load' \in Int
    BY <1>0, <1>6, Quits, WeightsCounted, QuitLoad
  <2>3. QED
    BY <1>0, <2>1, <2>2 DEF SendsKept
<1>7. ASSUME NEW c \in Children, Retry(c)
      PROVE  SendsKept(p)'
  <2>1. Countable(Once, p)' /\ sent' = sent
    BY <1>0, <1>7, WeightsCounted, RetryLoad DEF Retry
  <2>2. PICK m \in Message, k \in Message, more \in Nat, n \in Nat :
            /\ n <= 1 + more
            /\ duplicates'[p] = duplicates[p] + (IF m.order = p THEN more ELSE 0)
            /\ load' = load + (IF m.order = p THEN n * Cardinality(Once[k]) - Cardinality(Once[m])
                                              ELSE 0)
    BY <1>0, <1>7, WeightsCounted, RetryLoad
  <2>3. n * Cardinality(Once[k]) = n /\ Cardinality(Once[m]) = 1
    BY WeightsCounted
  <2>4. QED
    BY <1>0, <2>1, <2>2, <2>3 DEF SendsKept
<1>8. ASSUME WorkerDies
      PROVE  SendsKept(p)'
  <2>1. /\ Countable(Once, p)' /\ load' \in Int
        /\ load' <= Cardinality(Tokens(ready, Once, p)) + Cardinality(Tokens(delayed, Once, p))
                + Cardinality(Carried(child, Once, Unfinished(p)))
                + Cardinality(Carried(child, Once, Finished(p)))
    BY <1>0, <1>8, WeightsCounted, CrashLoad
  <2>2. Cardinality(Carried(child, Once, Finished(p))) <= Cardinality(Finished(p))
    <3>1. IsFiniteSet({0}) /\ Cardinality({0}) = 1
      BY FS_Singleton
    <3>2. \A c \in Finished(p) : Once[child[c].message] \subseteq {0}
      BY Busy DEF Once
    <3>3. Cardinality(Carried(child, Once, Finished(p))) <= Cardinality(Finished(p)) * Cardinality({0})
      BY <3>1, <3>2, Busy, CarriedBound
    <3>4. QED
      BY <3>1, <3>3, CountType
  <2>3. /\ sent' = sent /\ duplicates'[p] = duplicates[p] + Cardinality(Finished(p))
    BY <1>8 DEF WorkerDies
  <2>4. Cardinality(Carried(child, Once, Finished(p))) \in Nat
    BY Busy, CarriedFinite, WeightsCounted
  <2>5. QED
    BY <1>0, <2>1, <2>2, <2>3, <2>4, LoadType, WeightsCounted, CountType DEF SendsKept, Load
<1>9. ASSUME EvictQueue
      PROVE  SendsKept(p)'
  <2>1. Countable(Once, p)' /\ load' <= load /\ load' \in Int
    BY <1>0, <1>9, WeightsCounted, EvictLoad
  <2>2. QED
    BY <1>0, <1>9, <2>1 DEF SendsKept, EvictQueue
<1>10. CASE UNCHANGED vars
  BY <1>0, <1>10, LoadSame DEF SendsKept, vars, queueVars, historyVars
<1>11. QED
  BY <1>1, <1>2, <1>3, <1>4, <1>5, <1>6, <1>7, <1>8, <1>9, <1>10 DEF Next, Begin, Execute

(* Nobody is told twice unless a message was published twice or came back  *)
(* after its task had run to its end.                                      *)
THEOREM ConfirmationSentOnce == Spec => []SentOnce
<1>1. Init => \A p \in Orders : SendsKept(p)
  <2> SUFFICES ASSUME Init, NEW p \in Orders PROVE SendsKept(p)
    OBVIOUS
  <2>1. TypeOK /\ Published
    BY InitIInv, InitPublished DEF IInv
  <2>2. Load(Once, Once, p) = 0 /\ sent[p] = 0 /\ duplicates[p] = 0
    BY <2>1, Unloaded DEF Init
  <2>3. \A m \in Message : 1 .. ready[m] = {} /\ 1 .. delayed[m] = {}
    BY DEF Init
  <2>4. Tokens(ready, Once, p) = {} /\ Tokens(delayed, Once, p) = {}
    BY <2>3 DEF Tokens
  <2>5. QED
    BY <2>2, <2>4, FS_EmptySet DEF SendsKept, Countable
<1>2. /\ IInv /\ IInv' /\ Published /\ [Next]_vars
      /\ \A p \in Orders : SendsKept(p)
      => (\A p \in Orders : SendsKept(p))'
  BY SendsStep DEF IInv
<1>3. IInv /\ (\A p \in Orders : SendsKept(p)) => SentOnce
  <2> SUFFICES ASSUME TypeOK, NEW p \in Orders, SendsKept(p) PROVE sent[p] <= 1 + duplicates[p]
    BY DEF IInv, SentOnce
  <2>1. Load(Once, Once, p) \in Nat
    BY WeightsCounted, LoadType DEF SendsKept
  <2>2. QED
    BY <2>1 DEF SendsKept, TypeOK
<1>4. QED
  BY <1>1, <1>2, <1>3, ConfirmationInvariant, InitPublished, PublishedStep, PTL DEF Spec

LEMMA ChainAttempts ==
    ASSUME NEW top \in Nat, NEW past \in Nat, NEW more \in Nat, NEW n \in Nat, n <= 1 + more
    PROVE  /\ top * (1 + (past + more)) = top * (1 + past) + top * more
           /\ n * top <= top * (1 + (past + more))
           /\ \A a \in Nat : a <= top => n * a - a <= top * more
<1>1. top * (1 + (past + more)) = top + top * past + top * more
      /\ top * (1 + past) = top + top * past
  OBVIOUS
<1>2. n * top <= (1 + more) * top /\ (1 + more) * top = top + top * more
  OBVIOUS
<1>3. top * past \in Nat /\ top * more \in Nat
  OBVIOUS
<1>4. ASSUME NEW a \in Nat, a <= top
      PROVE  n * a - a <= top * more
  <2>1. n * a <= (1 + more) * a /\ (1 + more) * a = a + more * a
    OBVIOUS
  <2>2. more * a <= more * top /\ more * top = top * more
    BY <1>4
  <2>3. n * a \in Nat /\ more * a \in Nat
    OBVIOUS
  <2>4. QED
    BY <1>3, <2>1, <2>2, <2>3
<1>5. QED
  BY <1>1, <1>2, <1>3, <1>4

(* An execution cut short carries this attempt besides the further ones.   *)
LEMMA CutShort ==
    ASSUME TypeOK, NEW o
    PROVE  Cardinality(Carried(child, Left, Unfinished(o)))
                <= Cardinality(Carried(child, Further, Unfinished(o))) + Cardinality(Unfinished(o))
<1> DEFINE this == {<<c, RetriesOf(c)>> : c \in Unfinished(o)}
           doer == [t \in this |-> t[1]]
<1>1. \A c \in Unfinished(o) :
        /\ Left[child[c].message] = RetriesOf(c) .. MaxRetries
        /\ Further[child[c].message] = RetriesOf(c) + 1 .. MaxRetries
        /\ RetriesOf(c) \in 0 .. MaxRetries
  BY Busy, WeightsCounted DEF Left, Further, RetriesOf
<1>2. \A r \in 0 .. MaxRetries : r .. MaxRetries = (r + 1 .. MaxRetries) \cup {r}
  BY ConfirmationAssumption
<1>3. Carried(child, Left, Unfinished(o)) = Carried(child, Further, Unfinished(o)) \cup this
  <2>1. \A c \in Unfinished(o) : {c} \X Left[child[c].message]
            = ({c} \X Further[child[c].message]) \cup {<<c, RetriesOf(c)>>}
    <3> SUFFICES ASSUME NEW c \in Unfinished(o)
                 PROVE  {c} \X Left[child[c].message]
                        = ({c} \X Further[child[c].message]) \cup {<<c, RetriesOf(c)>>}
      OBVIOUS
    <3>1. Left[child[c].message] = Further[child[c].message] \cup {RetriesOf(c)}
      BY <1>1, <1>2
    <3>2. QED
      BY <3>1
  <2>2. ASSUME NEW t, t \in Carried(child, Left, Unfinished(o))
        PROVE  t \in Carried(child, Further, Unfinished(o)) \cup this
    <3>1. PICK c \in Unfinished(o) : t \in {c} \X Left[child[c].message]
      BY <2>2 DEF Carried
    <3>2. QED
      BY <2>1, <3>1 DEF Carried
  <2>3. ASSUME NEW t, t \in Carried(child, Further, Unfinished(o)) \cup this
        PROVE  t \in Carried(child, Left, Unfinished(o))
    <3>1. PICK c \in Unfinished(o) :
                t \in ({c} \X Further[child[c].message]) \cup {<<c, RetriesOf(c)>>}
      BY <2>3 DEF Carried
    <3>2. QED
      BY <2>1, <3>1 DEF Carried
  <2>4. QED
    BY <2>2, <2>3
<1>4. Carried(child, Further, Unfinished(o)) \cap this = {}
  <2> SUFFICES ASSUME NEW t \in this, t \in Carried(child, Further, Unfinished(o)) PROVE FALSE
    OBVIOUS
  <2>1. PICK c \in Unfinished(o) : t = <<c, RetriesOf(c)>>
    OBVIOUS
  <2>2. PICK d \in Unfinished(o) : t \in {d} \X Further[child[d].message]
    BY DEF Carried
  <2>3. d = c /\ RetriesOf(c) \in RetriesOf(c) + 1 .. MaxRetries
    BY <1>1, <2>1, <2>2
  <2>4. QED
    BY <1>1, <2>3, ConfirmationAssumption
<1>5. doer \in Injection(this, Unfinished(o))
  BY DEF Injection, IsInjective
<1>6. IsFiniteSet(Unfinished(o))
  BY Busy, ConfirmationAssumption, FS_Subset
<1>7. IsFiniteSet(this) /\ Cardinality(this) <= Cardinality(Unfinished(o))
  BY <1>5, <1>6, FS_Injection, Zenon
<1>8. IsFiniteSet(Carried(child, Further, Unfinished(o)))
  BY Busy, CarriedFinite, WeightsCounted
<1> HIDE DEF this, doer
<1>9. Cardinality(Carried(child, Left, Unfinished(o)))
        = Cardinality(Carried(child, Further, Unfinished(o))) + Cardinality(this)
  BY <1>3, <1>4, <1>7, <1>8, DisjointUnion
<1>10. QED
  BY <1>6, <1>7, <1>8, <1>9, FS_CardinalityType

LEMMA AttemptsStep ==
    ASSUME TypeOK, TypeOK', Published, [Next]_vars, NEW p \in Orders, AttemptsKept(p)
    PROVE  AttemptsKept(p)'
<1> DEFINE load == Load(Left, Further, p)
           top == MaxRetries + 1
<1>0. /\ Countable(Left, p) /\ load \in Nat /\ top \in Nat
      /\ attempts[p] \in Nat /\ interrupted[p] \in Nat /\ duplicates[p] \in Nat
      /\ attempts'[p] \in Nat /\ interrupted'[p] \in Nat /\ duplicates'[p] \in Nat
      /\ attempts[p] + load <= top * (1 + duplicates[p]) + interrupted[p]
      /\ top * (1 + duplicates[p]) \in Nat
      /\ web[p] # "published" => attempts[p] = 0
  <2>1. top \in Nat
    BY ConfirmationAssumption
  <2>2. duplicates[p] \in Nat
    BY DEF TypeOK
  <2>3. top * (1 + duplicates[p]) \in Nat
    BY <2>1, <2>2
  <2>4. QED
    BY <2>1, <2>2, <2>3, WeightsCounted, LoadType DEF TypeOK, AttemptsKept
<1>1. ASSUME NEW o \in Orders, CommitOrder(o) \/ WebDies(o) \/ DeleteOrder(o)
      PROVE  AttemptsKept(p)'
  BY <1>0, <1>1, WebSteps, LoadSame DEF AttemptsKept
<1>2. ASSUME NEW o \in Orders, Dispatch(o)
      PROVE  AttemptsKept(p)'
  <2>1. PICK m \in Message, n \in Nat, more \in Nat :
            /\ m.order = o /\ m.retries = 0 /\ n <= 1 + more /\ ready' = Plus(ready, m, n)
            /\ duplicates'[o] = duplicates[o] + more
            /\ \A q \in Orders \ {o} : duplicates'[q] = duplicates[q]
            /\ web[o] = "dispatching"
            /\ \A q \in Orders : web[q] = "published" => web'[q] = "published"
            /\ UNCHANGED <<delayed, child, sent, attempts, interrupted>>
    BY <1>2, DispatchSteps
  <2>2. Countable(Left, p)' /\ load' = load + (IF o = p THEN n * Cardinality(Left[m]) ELSE 0)
    BY <1>0, <2>1, WeightsCounted, DispatchLoad
  <2>3. Cardinality(Left[m]) = top
    BY <2>1, WeightsCounted, ConfirmationAssumption
  <2>4. CASE o = p
    <3>1. load = 0 /\ attempts[p] = 0
      BY <1>0, <2>1, <2>4, Unloaded
    <3>2. n * top <= top * (1 + duplicates'[p])
      BY <1>0, <2>1, <2>4, ChainAttempts
    <3>3. n * top \in Nat /\ top * (1 + duplicates'[p]) \in Nat
      BY <1>0
    <3>4. QED
      BY <1>0, <2>1, <2>2, <2>3, <2>4, <3>1, <3>2, <3>3 DEF AttemptsKept
  <2>5. CASE o # p
    BY <1>0, <2>1, <2>2, <2>5 DEF AttemptsKept
  <2>6. QED
    BY <2>4, <2>5
<1>3. ASSUME NEW m \in Message, CountdownEnds(m)
      PROVE  AttemptsKept(p)'
  <2>1. Countable(Left, p)' /\ load' = load
    BY <1>0, <1>3, WeightsCounted, CountdownLoad
  <2>2. QED
    BY <1>0, <1>3, <2>1 DEF AttemptsKept, CountdownEnds, historyVars
<1>4. ASSUME NEW c \in Children, NEW m \in Message, Start(c, m)
      PROVE  AttemptsKept(p)'
  <2>1. /\ Countable(Left, p)'
        /\ load' = load + (IF m.order = p THEN Cardinality(Further[m]) - Cardinality(Left[m]) ELSE 0)
    BY <1>0, <1>4, WeightsCounted, StartLoad
  <2>2. Cardinality(Further[m]) - Cardinality(Left[m]) = -1
    BY WeightsCounted, ConfirmationAssumption
  <2>3. attempts'[p] = attempts[p] + (IF m.order = p THEN 1 ELSE 0)
    BY <1>0, <1>4 DEF Start, TypeOK
  <2>4. m.order = p => web[p] = "published"
    BY <1>4 DEF Start, Published
  <2>5. UNCHANGED <<web, duplicates, interrupted>>
    BY <1>4 DEF Start
  <2>6. QED
    BY <1>0, <2>1, <2>2, <2>3, <2>4, <2>5 DEF AttemptsKept
<1>5. ASSUME NEW c \in Children, Send(c) \/ GiveUp(c) \/ Acknowledge(c) \/ ChildDies(c)
      PROVE  AttemptsKept(p)'
  <2>1. Countable(Left, p)' /\ load' <= load /\ load' \in Int
    BY <1>0, <1>5, Quits, WeightsCounted, QuitLoad
  <2>2. UNCHANGED <<web, attempts, duplicates, interrupted>>
    BY <1>5, Quits
  <2>3. QED
    BY <1>0, <2>1, <2>2 DEF AttemptsKept
<1>6. ASSUME NEW c \in Children, Retry(c)
      PROVE  AttemptsKept(p)'
  <2>1. Countable(Left, p)' /\ UNCHANGED <<web, attempts, interrupted>>
    BY <1>0, <1>6, WeightsCounted, RetryLoad DEF Retry
  <2>2. PICK m \in Message, k \in Message, more \in Nat, n \in Nat :
            /\ k.retries = m.retries + 1
            /\ n <= 1 + more
            /\ duplicates'[p] = duplicates[p] + (IF m.order = p THEN more ELSE 0)
            /\ load' = load
                + (IF m.order = p THEN n * Cardinality(Left[k]) - Cardinality(Further[m]) ELSE 0)
    BY <1>0, <1>6, WeightsCounted, RetryLoad
  <2> DEFINE a == Cardinality(Further[m])
  <2>3. a \in Nat /\ a <= top /\ Cardinality(Left[k]) = a
    BY <2>2, WeightsCounted, ConfirmationAssumption
  <2> HIDE DEF a, top
  <2>4. /\ n * a - a <= top * more
        /\ top * (1 + (duplicates[p] + more)) = top * (1 + duplicates[p]) + top * more
    BY <1>0, <2>2, <2>3, ChainAttempts
  <2>5. n * a \in Nat /\ top * more \in Nat
    BY <1>0, <2>3
  <2>6. CASE m.order = p
    <3>1. duplicates'[p] = duplicates[p] + more /\ load' = load + (n * a - a)
      BY <2>2, <2>3, <2>6 DEF a
    <3>2. attempts[p] + load' <= top * (1 + duplicates'[p]) + interrupted[p]
      BY <1>0, <2>3, <2>4, <2>5, <3>1
    <3>3. QED
      BY <1>0, <2>1, <3>2 DEF AttemptsKept, top
  <2>7. CASE m.order # p
    BY <1>0, <2>1, <2>2, <2>7 DEF AttemptsKept, top
  <2>8. QED
    BY <2>6, <2>7
<1>7. ASSUME WorkerDies
      PROVE  AttemptsKept(p)'
  <2> DEFINE done == Cardinality(Finished(p))
             cut == Cardinality(Unfinished(p))
  <2>1. /\ Countable(Left, p)' /\ load' \in Int
        /\ load' <= Cardinality(Tokens(ready, Left, p)) + Cardinality(Tokens(delayed, Left, p))
                + Cardinality(Carried(child, Left, Unfinished(p)))
                + Cardinality(Carried(child, Left, Finished(p)))
    BY <1>0, <1>7, WeightsCounted, CrashLoad
  <2>2. done \in Nat /\ cut \in Nat
    BY CountType
  <2>3. Cardinality(Carried(child, Left, Finished(p))) <= done * top
    <3>1. IsFiniteSet(0 .. MaxRetries) /\ Cardinality(0 .. MaxRetries) = top
      BY ConfirmationAssumption, FS_Interval
    <3>2. \A c \in Finished(p) : Left[child[c].message] \subseteq 0 .. MaxRetries
      BY Busy, WeightsCounted DEF Weights
    <3>3. QED
      BY <3>1, <3>2, Busy, CarriedBound
  <2>4. Cardinality(Carried(child, Left, Unfinished(p)))
            <= Cardinality(Carried(child, Further, Unfinished(p))) + cut
    BY CutShort
  <2>5. /\ Cardinality(Carried(child, Left, Finished(p))) \in Nat
        /\ Cardinality(Carried(child, Left, Unfinished(p))) \in Nat
        /\ Cardinality(Carried(child, Further, Unfinished(p))) \in Nat
        /\ Cardinality(Tokens(ready, Left, p)) \in Nat
        /\ Cardinality(Tokens(delayed, Left, p)) \in Nat
    BY <1>0, Busy, CarriedFinite, WeightsCounted, LoadType
  <2>6. /\ UNCHANGED <<web, attempts>> /\ duplicates'[p] = duplicates[p] + done
        /\ interrupted'[p] = interrupted[p] + cut
    BY <1>7 DEF WorkerDies
  <2>7. load = Cardinality(Tokens(ready, Left, p)) + Cardinality(Tokens(delayed, Left, p))
                + Cardinality(Carried(child, Further, Unfinished(p)))
    BY DEF Load
  <2> HIDE DEF load, top, done, cut
  <2>8. load' <= load + cut + done * top
    <3>1. done * top \in Nat
      BY <1>0, <2>2
    <3>2. QED
      BY <2>1, <2>2, <2>3, <2>4, <2>5, <2>7, <3>1
  <2>9. top * (1 + (duplicates[p] + done)) = top * (1 + duplicates[p]) + done * top
    <3>1. /\ done <= 1 + done
          /\ top * done = done * top
      BY <1>0, <2>2
    <3>2. top * (1 + (duplicates[p] + done)) = top * (1 + duplicates[p]) + top * done
      BY <1>0, <2>2, <3>1, ChainAttempts
    <3>3. QED
      BY <3>1, <3>2
  <2>10. done * top \in Nat
    BY <1>0, <2>2
  <2>11. attempts'[p] + load' <= top * (1 + duplicates'[p]) + interrupted'[p]
    BY <1>0, <2>1, <2>2, <2>6, <2>8, <2>9, <2>10
  <2>12. QED
    BY <1>0, <2>1, <2>6, <2>11 DEF AttemptsKept, load, top
<1>8. ASSUME EvictQueue
      PROVE  AttemptsKept(p)'
  <2>1. Countable(Left, p)' /\ load' <= load /\ load' \in Int
    BY <1>0, <1>8, WeightsCounted, EvictLoad
  <2>2. QED
    BY <1>0, <1>8, <2>1 DEF AttemptsKept, EvictQueue
<1>9. CASE UNCHANGED vars
  BY <1>0, <1>9, LoadSame DEF AttemptsKept, vars, queueVars, historyVars
<1>10. QED
  BY <1>1, <1>2, <1>3, <1>4, <1>5, <1>6, <1>7, <1>8, <1>9 DEF Next, Begin, Execute

(* The retries are bounded for any number of crashes, duplicates and       *)
(* processes: each chain of attempts has MaxRetries + 1 of them, and only  *)
(* executions a dying worker cut short come on top.                        *)
THEOREM ConfirmationAttemptsBounded == Spec => []AttemptsBounded
<1>1. Init => \A p \in Orders : AttemptsKept(p)
  <2> SUFFICES ASSUME Init, NEW p \in Orders PROVE AttemptsKept(p)
    OBVIOUS
  <2>1. TypeOK /\ Published
    BY InitIInv, InitPublished DEF IInv
  <2>2. /\ Load(Left, Further, p) = 0 /\ attempts[p] = 0
        /\ duplicates[p] = 0 /\ interrupted[p] = 0
    BY <2>1, Unloaded DEF Init
  <2>3. \A m \in Message : 1 .. ready[m] = {} /\ 1 .. delayed[m] = {}
    BY DEF Init
  <2>4. Tokens(ready, Left, p) = {} /\ Tokens(delayed, Left, p) = {}
    BY <2>3 DEF Tokens
  <2>5. Countable(Left, p)
    BY <2>4, FS_EmptySet DEF Countable
  <2>6. 0 <= (MaxRetries + 1) * (1 + 0) + 0
    BY ConfirmationAssumption
  <2>7. QED
    BY <2>2, <2>5, <2>6 DEF AttemptsKept
<1>2. /\ IInv /\ IInv' /\ Published /\ [Next]_vars
      /\ \A p \in Orders : AttemptsKept(p)
      => (\A p \in Orders : AttemptsKept(p))'
  BY AttemptsStep DEF IInv
<1>3. IInv /\ (\A p \in Orders : AttemptsKept(p)) => AttemptsBounded
  <2> SUFFICES ASSUME TypeOK, NEW p \in Orders, AttemptsKept(p)
               PROVE  attempts[p] <= (MaxRetries + 1) * (1 + duplicates[p]) + interrupted[p]
    BY DEF IInv, AttemptsBounded
  <2>1. Load(Left, Further, p) \in Nat
    BY WeightsCounted, LoadType DEF AttemptsKept
  <2>2. /\ attempts[p] \in Nat /\ interrupted[p] \in Nat
        /\ (MaxRetries + 1) * (1 + duplicates[p]) \in Int
    BY ConfirmationAssumption DEF TypeOK
  <2>3. QED
    BY <2>1, <2>2 DEF AttemptsKept
<1>4. QED
  BY <1>1, <1>2, <1>3, ConfirmationInvariant, InitPublished, PublishedStep, PTL DEF Spec
=============================================================================

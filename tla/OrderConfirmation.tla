-------------------------- MODULE OrderConfirmation --------------------------
(***************************************************************************)
(* The confirmation task of an order, from the commit of the order to the  *)
(* acknowledgement of the message: the web worker that dispatches it, the  *)
(* queue in Redis, and a Celery worker with a pool of child processes.     *)
(*                                                                         *)
(* Messages are acknowledged after the task has run (CELERY_TASK_ACKS_     *)
(* LATE).  A task that raises puts a new message with a countdown in the   *)
(* queue, up to max_retries times.  When the worker dies, the messages it  *)
(* has not acknowledged are delivered again; when only a child process     *)
(* dies, the worker acknowledges the message of the task it was running    *)
(* (task_reject_on_worker_lost is off).                                    *)
(***************************************************************************)
EXTENDS Integers, FiniteSets

CONSTANTS
    Orders,         \* the orders that the service confirms
    Children,       \* the processes of the worker's pool
    MaxRetries,     \* max_retries of send_order_confirmation
    MaxCrashes,     \* bound: how often the worker dies in a behaviour
    MaxDuplicates,  \* bound: how often a message of an order is published twice
    Faults          \* what may go wrong, see ConfirmationAssumption

ASSUME ConfirmationAssumption ==
    /\ MaxRetries \in Nat
    /\ MaxCrashes \in Nat
    /\ MaxDuplicates \in Nat
    /\ IsFiniteSet(Children)
    /\ Faults \subseteq {"web", "broker", "task", "child", "worker", "eviction", "delete"}

Message == [order : Orders, retries : 0 .. MaxRetries]
Idle == [at |-> "idle"]
Job == [message : Message, at : {"started", "sent", "retried", "failed"}]

VARIABLES
    orders,         \* the row of each order
    web,            \* where the web worker is with each order
    ready,          \* copies of each message the worker may start
    delayed,        \* copies of each message whose countdown runs
    child,          \* what each process of the pool is doing
    sent,           \* confirmations sent for each order
    failed,         \* orders whose last retry has failed
    attempts,       \* history: executions started for each order
    interrupted,    \* history: executions to be started again
    duplicates,     \* history: chains of attempts beyond the first
    lost,           \* history: orders a message of which was lost to a fault
    crashes         \* counts the deaths of the worker up to MaxCrashes

queueVars   == <<ready, delayed>>
historyVars == <<attempts, interrupted, duplicates, lost>>
vars == <<orders, web, queueVars, child, sent, failed, historyVars, crashes>>

TypeOK ==
    /\ orders \in [Orders -> {"none", "CONFIRMED", "deleted"}]
    /\ web \in [Orders -> {"open", "dispatching", "published", "unpublished", "dead"}]
    /\ ready \in [Message -> Nat]
    /\ delayed \in [Message -> Nat]
    /\ child \in [Children -> Job \cup {Idle}]
    /\ sent \in [Orders -> Nat]
    /\ failed \subseteq Orders
    /\ attempts \in [Orders -> Nat]
    /\ interrupted \in [Orders -> Nat]
    /\ duplicates \in [Orders -> Nat]
    /\ lost \subseteq Orders
    /\ crashes \in 0 .. MaxCrashes

Init ==
    /\ orders = [o \in Orders |-> "none"]
    /\ web = [o \in Orders |-> "open"]
    /\ ready = [m \in Message |-> 0]
    /\ delayed = [m \in Message |-> 0]
    /\ child = [c \in Children |-> Idle]
    /\ sent = [o \in Orders |-> 0]
    /\ failed = {}
    /\ attempts = [o \in Orders |-> 0]
    /\ interrupted = [o \in Orders |-> 0]
    /\ duplicates = [o \in Orders |-> 0]
    /\ lost = {}
    /\ crashes = 0

-----------------------------------------------------------------------------
(* The queue.                                                              *)

(* How many copies of a message apply_async leaves in Redis: the client    *)
(* publishes again when a reply does not arrive, and may give up.          *)
Copies(o) ==
    {1} \cup (IF "broker" \in Faults THEN {0} ELSE {})
        \cup (IF "broker" \in Faults /\ duplicates[o] < MaxDuplicates THEN {2} ELSE {})

(* What publishing n copies of a message of order o does to the history.   *)
Publish(o, n) ==
    /\ duplicates' = [duplicates EXCEPT ![o] = @ + (IF n = 0 THEN 0 ELSE n - 1)]
    /\ lost' = IF n = 0 THEN lost \cup {o} ELSE lost

Running(c) == child[c].at = "started"
OrderOf(c) == child[c].message.order
RetriesOf(c) == child[c].message.retries
At(c, stage) == child' = [child EXCEPT ![c] = [@ EXCEPT !.at = stage]]

-----------------------------------------------------------------------------
(* The web worker.                                                         *)

(* The transaction of a confirmed order commits.                           *)
CommitOrder(o) ==
    /\ web[o] = "open"
    /\ orders' = [orders EXCEPT ![o] = "CONFIRMED"]
    /\ web' = [web EXCEPT ![o] = "dispatching"]
    /\ UNCHANGED <<queueVars, child, sent, failed, historyVars, crashes>>

(* Mutant of Dispatch: the task is dispatched by an on_commit hook and     *)
(* once more by create_order.                                              *)
DispatchAgain(o) ==
    /\ web[o] = "dispatching"
    /\ ready' = [ready EXCEPT ![[order |-> o, retries |-> 0]] = @ + 2]
    /\ web' = [web EXCEPT ![o] = "published"]
    /\ UNCHANGED <<orders, delayed, child, sent, failed, historyVars, crashes>>

(* Mutant of Dispatch: the task is dispatched before the order exists.     *)
DispatchEarly(o) ==
    /\ web[o] = "open"
    /\ ready' = [ready EXCEPT ![[order |-> o, retries |-> 0]] = @ + 1]
    /\ web' = [web EXCEPT ![o] = "published"]
    /\ orders' = [orders EXCEPT ![o] = "CONFIRMED"]
    /\ UNCHANGED <<delayed, child, sent, failed, historyVars, crashes>>

(* _dispatch_confirmation_task: an exception of apply_async is swallowed,  *)
(* so the request goes on whether or not a message was published.          *)
Dispatch(o) ==
    /\ web[o] = "dispatching"
    /\ \E n \in Copies(o) :
        /\ ready' = [ready EXCEPT ![[order |-> o, retries |-> 0]] = @ + n]
        /\ Publish(o, n)
        /\ web' = [web EXCEPT ![o] = IF n = 0 THEN "unpublished" ELSE "published"]
    /\ UNCHANGED <<orders, delayed, child, sent, failed, attempts, interrupted, crashes>>

(* The web worker dies between the commit and the dispatch.                *)
WebDies(o) ==
    /\ "web" \in Faults
    /\ web[o] = "dispatching"
    /\ web' = [web EXCEPT ![o] = "dead"]
    /\ lost' = lost \cup {o}
    /\ UNCHANGED <<orders, queueVars, child, sent, failed, attempts, interrupted,
                   duplicates, crashes>>

(* An administrator deletes the order.                                     *)
DeleteOrder(o) ==
    /\ "delete" \in Faults
    /\ orders[o] = "CONFIRMED"
    /\ orders' = [orders EXCEPT ![o] = "deleted"]
    /\ UNCHANGED <<web, queueVars, child, sent, failed, historyVars, crashes>>

-----------------------------------------------------------------------------
(* The Celery worker.                                                      *)

(* Mutant of CountdownEnds: the timer of a countdown fires again and again. *)
CountdownRepeats(m) ==
    /\ delayed' = [delayed EXCEPT ![m] = @ - 1]
    /\ ready' = [ready EXCEPT ![m] = @ + 1]
    /\ UNCHANGED <<orders, web, child, sent, failed, historyVars, crashes>>

(* Mutant of CountdownEnds: the worker forgets the message.                *)
CountdownForgotten(m) ==
    /\ delayed[m] > 0
    /\ delayed' = [delayed EXCEPT ![m] = @ - 1]
    /\ UNCHANGED <<orders, web, ready, child, sent, failed, historyVars, crashes>>

(* The countdown of a message has run out.                                 *)
CountdownEnds(m) ==
    /\ delayed[m] > 0
    /\ delayed' = [delayed EXCEPT ![m] = @ - 1]
    /\ ready' = [ready EXCEPT ![m] = @ + 1]
    /\ UNCHANGED <<orders, web, child, sent, failed, historyVars, crashes>>

(* An idle process of the pool starts the task of a message.               *)
Start(c, m) ==
    /\ child[c] = Idle
    /\ ready[m] > 0
    /\ ready' = [ready EXCEPT ![m] = @ - 1]
    /\ child' = [child EXCEPT ![c] = [message |-> m, at |-> "started"]]
    /\ attempts' = [attempts EXCEPT ![m.order] = @ + 1]
    /\ UNCHANGED <<orders, web, delayed, sent, failed, interrupted, duplicates, lost, crashes>>

(* The order is found and the confirmation goes out.                       *)
Send(c) ==
    /\ Running(c)
    /\ orders[OrderOf(c)] = "CONFIRMED"
    /\ sent' = [sent EXCEPT ![OrderOf(c)] = @ + 1]
    /\ At(c, "sent")
    /\ UNCHANGED <<orders, web, queueVars, failed, historyVars, crashes>>

(* The body of the task raises: the order is gone, or something it needs   *)
(* does not respond.                                                       *)
Raises(c) ==
    /\ Running(c)
    /\ orders[OrderOf(c)] # "CONFIRMED" \/ "task" \in Faults

(* Mutant of Retry: a fresh apply_async, which forgets the retries so far. *)
RetryAnew(c) ==
    /\ Raises(c)
    /\ RetriesOf(c) < MaxRetries
    /\ delayed' = [delayed EXCEPT ![child[c].message] = @ + 1]
    /\ At(c, "retried")
    /\ UNCHANGED <<orders, web, ready, sent, failed, historyVars, crashes>>

(* self.retry publishes the next attempt.  If that fails, the message is   *)
(* rejected without being put back.                                        *)
Retry(c) ==
    /\ Raises(c)
    /\ RetriesOf(c) < MaxRetries
    /\ \E n \in Copies(OrderOf(c)) :
        /\ delayed' = [delayed EXCEPT
                ![[order |-> OrderOf(c), retries |-> RetriesOf(c) + 1]] = @ + n]
        /\ Publish(OrderOf(c), n)
    /\ At(c, "retried")
    /\ UNCHANGED <<orders, web, ready, sent, failed, attempts, interrupted, crashes>>

(* self.retry raises the exception when no retry is left.                  *)
GiveUp(c) ==
    /\ Raises(c)
    /\ RetriesOf(c) = MaxRetries
    /\ failed' = failed \cup {OrderOf(c)}
    /\ At(c, "failed")
    /\ UNCHANGED <<orders, web, queueVars, sent, historyVars, crashes>>

(* The task has returned or raised: its message is acknowledged.           *)
Acknowledge(c) ==
    /\ child[c] # Idle /\ ~Running(c)
    /\ child' = [child EXCEPT ![c] = Idle]
    /\ UNCHANGED <<orders, web, queueVars, sent, failed, historyVars, crashes>>

(* A process of the pool is killed.  The worker acknowledges the message   *)
(* and replaces the process.                                               *)
ChildDies(c) ==
    /\ "child" \in Faults
    /\ child[c] # Idle
    /\ child' = [child EXCEPT ![c] = Idle]
    /\ lost' = IF Running(c) THEN lost \cup {OrderOf(c)} ELSE lost
    /\ UNCHANGED <<orders, web, queueVars, sent, failed, attempts, interrupted, duplicates,
                   crashes>>

(* The processes that hold a message, and those whose task of an order has *)
(* not or has come to its end.                                             *)
Holders(m) == {c \in Children : child[c] # Idle /\ child[c].message = m}
Unfinished(o) == {c \in Children : Running(c) /\ OrderOf(c) = o}
Finished(o) == {c \in Children : child[c] # Idle /\ ~Running(c) /\ OrderOf(c) = o}

(* Mutant of WorkerDies: messages are acknowledged when the task starts.   *)
AcknowledgedEarly ==
    /\ "worker" \in Faults
    /\ crashes < MaxCrashes
    /\ crashes' = crashes + 1
    /\ child' = [c \in Children |-> Idle]
    /\ UNCHANGED <<orders, web, queueVars, sent, failed, historyVars>>

(* The worker dies: Redis restores every message that has not been         *)
(* acknowledged.  Those still in their countdown keep it.                  *)
WorkerDies ==
    /\ "worker" \in Faults
    /\ crashes < MaxCrashes
    /\ crashes' = crashes + 1
    /\ ready' = [m \in Message |-> ready[m] + Cardinality(Holders(m))]
    /\ child' = [c \in Children |-> Idle]
    /\ interrupted' = [o \in Orders |->
            interrupted[o] + Cardinality(Unfinished(o))]
    /\ duplicates' = [o \in Orders |->
            duplicates[o] + Cardinality(Finished(o))]
    /\ UNCHANGED <<orders, web, delayed, sent, failed, attempts, lost>>

(* Redis runs out of memory and evicts the list that holds the queue.      *)
EvictQueue ==
    /\ "eviction" \in Faults
    /\ \E m \in Message : ready[m] > 0
    /\ lost' = lost \cup {m.order : m \in {n \in Message : ready[n] > 0}}
    /\ ready' = [m \in Message |-> 0]
    /\ UNCHANGED <<orders, web, delayed, child, sent, failed, attempts, interrupted,
                   duplicates, crashes>>

-----------------------------------------------------------------------------

Begin(c) == \E m \in Message : Start(c, m)
Execute(c) == Send(c) \/ Retry(c) \/ GiveUp(c) \/ Acknowledge(c)

Next ==
    \/ \E o \in Orders : CommitOrder(o) \/ Dispatch(o) \/ WebDies(o) \/ DeleteOrder(o)
    \/ \E m \in Message : CountdownEnds(m)
    \/ \E c \in Children : Begin(c) \/ Execute(c) \/ ChildDies(c)
    \/ WorkerDies
    \/ EvictQueue

Spec == Init /\ [][Next]_vars

(* The web worker goes on after the commit, clocks run, a free process     *)
(* takes a message and a task that runs comes to an end.                   *)
Fairness ==
    /\ \A o \in Orders : WF_vars(Dispatch(o))
    /\ \A m \in Message : WF_vars(CountdownEnds(m))
    /\ \A c \in Children : WF_vars(Begin(c)) /\ WF_vars(Execute(c))

FairSpec == Spec /\ Fairness

-----------------------------------------------------------------------------
(* Properties.                                                             *)

(* A message of order o waits, is delayed or runs.                         *)
Pending(o) ==
    \/ \E m \in Message : m.order = o /\ (ready[m] > 0 \/ delayed[m] > 0)
    \/ Unfinished(o) # {}

(* No confirmation disappears by itself: once the request has returned,    *)
(* the confirmation has been sent, is on its way, has used up its retries  *)
(* or fell victim to one of the faults that cost a message.  A worker that *)
(* dies is not one of them.                                                *)
Accounted ==
    \A o \in Orders :
        web[o] \in {"published", "unpublished"} =>
            Pending(o) \/ sent[o] > 0 \/ o \in failed \/ o \in lost

(* The customer hears once: a second confirmation takes a message that was *)
(* published twice, or delivered again after its task had finished.        *)
SentOnce == \A o \in Orders : sent[o] <= 1 + duplicates[o]

(* One attempt and max_retries further ones for each chain of attempts,    *)
(* not counting executions a dying worker cut short.                       *)
AttemptsBounded ==
    \A o \in Orders :
        attempts[o] <= (MaxRetries + 1) * (1 + duplicates[o]) + interrupted[o]

(* Every confirmed order is settled in the end.                            *)
Settled(o) == sent[o] > 0 \/ o \in failed \/ o \in lost
EverySettled == \A o \in Orders : web[o] = "dispatching" ~> Settled(o)

(* How far the confirmation of order o has come.                           *)
ConfirmationStage(o) ==
    IF web[o] = "dispatching" THEN "due"
    ELSE IF web[o] \in {"unpublished", "dead"} THEN "dropped"
    ELSE web[o]

(* From the commit to the customer: whoever is notified, was so by a       *)
(* message that was published after the commit of the order.               *)
Handover == INSTANCE OrderHandover WITH
                Orders <- Orders,
                stage <- [o \in Orders |-> ConfirmationStage(o)],
                notified <- {o \in Orders : sent[o] > 0}
ImplementsHandover == Handover!HandoverSpec
=============================================================================

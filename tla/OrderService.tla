----------------------------- MODULE OrderService -----------------------------
(***************************************************************************)
(* POST /api/orders/ from validation to the HTTP answer, for concurrent    *)
(* requests in separate server workers, against the PostgreSQL database    *)
(* the deployment uses, together with the administrators who edit the      *)
(* inventory table at the same time.                                       *)
(*                                                                         *)
(*   idle ---> accepted ---> locking ---> confirming ---> dispatching      *)
(*                                \                           |            *)
(*                                 `----> rejecting --> answering --> done *)
(*                                                                         *)
(* The SELECT ... FOR UPDATE of the transaction carries no OF clause while *)
(* it joins inventory with products (select_related), so PostgreSQL locks  *)
(* the inventory row and then the product row of each result row, in the   *)
(* order of the inventory ids.  It finds its rows in the snapshot of the   *)
(* statement and reads each one afresh when it locks it, skipping the ones *)
(* deleted meanwhile.  Foreign keys are deferred constraints: committing   *)
(* takes a key-share lock on every product that has an order item.         *)
(***************************************************************************)
EXTENDS StoreTables

CONSTANTS
    Free,           \* the owner of a lock nobody holds
    NoProduct,      \* no foreign key check is under way
    Deletable,      \* the products an administrator may delete
    Faults          \* what may fail: "crash", "connection", "broker"

ASSUME ServiceAssumption ==
    /\ Free \notin Requests
    /\ NoProduct \notin Products
    /\ Deletable \subseteq Products
    /\ Faults \subseteq {"crash", "connection", "broker"}

VARIABLES
    catalogue,      \* products in the table
    present,        \* inventory rows in the table
    issued,         \* inventory primary keys the sequence has handed out
    quantity,       \* the committed quantity column
    orders,         \* the orders table with its items
    payload,        \* what each client sends
    pc,             \* where each request is
    targets,        \* inventory rows the SELECT has found and not yet locked
    inventoryMap,   \* the quantities read, keyed by inventory row
    asked,          \* product whose foreign key check a commit has reached
    checked,        \* products a commit holds a key-share lock on
    rowLock,        \* FOR UPDATE lock of each inventory row
    productLock,    \* FOR UPDATE lock of each product row
    tasks,          \* orders whose confirmation task reached the broker
    answer,         \* HTTP status returned, 0 before and when none is
    base,           \* history: the last quantity an administrator saved
    sold            \* history: what confirmed orders took since then

tableVars == <<catalogue, present, issued, quantity, orders, base, sold>>
txVars    == <<targets, inventoryMap, asked, checked, rowLock, productLock>>
otherVars == <<tableVars, payload, tasks, answer>>
vars      == <<otherVars, pc, txVars>>

Status == {0, 200, 201, 400, 404, 500}
InTransaction == {"locking", "confirming", "rejecting"}
PC == InTransaction \cup {"idle", "accepted", "dispatching", "answering", "done", "crashed"}

(* The inventory rows request r has read.                                  *)
Held(r) == DOMAIN inventoryMap[r]
EmptyMap == [k \in {} |-> 0]
InventoryMap == UNION {[S -> 0 .. MaxInt] : S \in SUBSET Rows}

TypeOK ==
    /\ catalogue \subseteq Products
    /\ present \subseteq issued
    /\ issued \subseteq Rows
    /\ quantity \in [Rows -> 0 .. MaxInt]
    /\ orders \in [Requests -> OrderRow \cup {NoOrder}]
    /\ payload \in [Requests -> Payloads]
    /\ pc \in [Requests -> PC]
    /\ targets \in [Requests -> SUBSET Rows]
    /\ inventoryMap \in [Requests -> InventoryMap]
    /\ asked \in [Requests -> Products \cup {NoProduct}]
    /\ checked \in [Requests -> SUBSET Products]
    /\ rowLock \in [Rows -> Requests \cup {Free}]
    /\ productLock \in [Products -> Requests \cup {Free}]
    /\ tasks \subseteq Requests
    /\ answer \in [Requests -> Status]
    /\ base \in [Rows -> 0 .. MaxInt]
    /\ sold \in [Rows -> Nat]

Init ==
    /\ catalogue = Products
    /\ present = InitRows
    /\ issued = InitRows
    /\ quantity = InitQuantity
    /\ orders = [r \in Requests |-> NoOrder]
    /\ payload \in [Requests -> Payloads]
    /\ pc = [r \in Requests |-> "idle"]
    /\ targets = [r \in Requests |-> {}]
    /\ inventoryMap = [r \in Requests |-> EmptyMap]
    /\ asked = [r \in Requests |-> NoProduct]
    /\ checked = [r \in Requests |-> {}]
    /\ rowLock = [k \in Rows |-> Free]
    /\ productLock = [p \in Products |-> Free]
    /\ tasks = {}
    /\ answer = [r \in Requests |-> 0]
    /\ base = InitQuantity
    /\ sold = [k \in Rows |-> 0]

-----------------------------------------------------------------------------
(* Helpers of the transaction.                                             *)

Goto(r, label) == pc' = [pc EXCEPT ![r] = label]
Return(r, code) == answer' = [answer EXCEPT ![r] = code] /\ Goto(r, "done")

(* Mutant of IsNext: the query without its order_by.                       *)
IsAnyTarget(r, k) == k \in targets[r]

(* The row the SELECT handles next: ORDER BY id.                           *)
IsNext(r, k) == k \in targets[r] /\ \A j \in targets[r] : k <= j

(* COMMIT and ROLLBACK: the transaction gives up all its locks at once.    *)
Release(r) ==
    /\ rowLock' = [k \in Rows |-> IF rowLock[k] = r THEN Free ELSE rowLock[k]]
    /\ productLock' =
            [p \in Products |-> IF productLock[p] = r THEN Free ELSE productLock[p]]
    /\ targets' = [targets EXCEPT ![r] = {}]
    /\ inventoryMap' = [inventoryMap EXCEPT ![r] = EmptyMap]
    /\ asked' = [asked EXCEPT ![r] = NoProduct]
    /\ checked' = [checked EXCEPT ![r] = {}]

(* Mutant of Fail: the refusal is reported like any rejected order.        *)
FailQuietly(r) ==
    /\ Release(r)
    /\ Return(r, 200)
    /\ UNCHANGED <<tableVars, payload, tasks>>

(* Mutant of Fail: no rollback, the connection keeps its locks.            *)
FailHolding(r) ==
    /\ Return(r, 500)
    /\ UNCHANGED <<tableVars, payload, txVars, tasks>>

(* An exception leaves the atomic block: nothing the transaction wrote     *)
(* remains and the server answers 500.                                     *)
Fail(r) ==
    /\ Release(r)
    /\ Return(r, 500)
    /\ UNCHANGED <<tableVars, payload, tasks>>

(* Products whose foreign key check would still have to take a lock.  The  *)
(* checks follow the order of the client's lines, which is arbitrary; one  *)
(* on a product row this transaction has locked passes at once.            *)
NextCheck(r, done) ==
    LET left == {p \in Products : /\ payload[r].want[p] > 0
                                  /\ productLock[p] # r
                                  /\ p \notin done}
    IN  IF left = {} THEN {NoProduct} ELSE left

(* PrimaryKeyRelatedField finds every product of the order.                *)
Orderable(pl) == \A p \in Products : pl.want[p] > 0 => p \in catalogue

(* Every requested quantity fits the integer column of order_items.        *)
Storable(pl) == \A p \in Products : pl.want[p] <= MaxInt

-----------------------------------------------------------------------------
(* Before the transaction.                                                 *)

(* OrderCreateSerializer refuses the body: 400.                            *)
RefuseInvalid(r) ==
    /\ pc[r] = "idle"
    /\ Return(r, 400)
    /\ UNCHANGED <<tableVars, payload, txVars, tasks>>

(* The store does not exist: 404.                                          *)
RefuseStore(r) ==
    /\ pc[r] = "idle"
    /\ Orderable(payload[r])
    /\ payload[r].store \notin Stores
    /\ Return(r, 404)
    /\ UNCHANGED <<tableVars, payload, txVars, tasks>>

(* The body is valid and Store.objects.get finds the store.                *)
Receive(r) ==
    /\ pc[r] = "idle"
    /\ Orderable(payload[r])
    /\ payload[r].store \in Stores
    /\ Goto(r, "accepted")
    /\ UNCHANGED <<otherVars, txVars>>

-----------------------------------------------------------------------------
(* The transaction.                                                        *)

(* Mutant of SelectForUpdate: the query without select_for_update.         *)
PlainSelect(r) ==
    /\ pc[r] = "accepted"
    /\ inventoryMap' = [inventoryMap EXCEPT ![r] =
            [k \in RowsFor(present, payload[r]) |-> quantity[k]]]
    /\ Goto(r, "locking")
    /\ UNCHANGED <<otherVars, targets, asked, checked, rowLock, productLock>>

(* The statement starts: its snapshot holds the rows committed by now.     *)
SelectForUpdate(r) ==
    /\ pc[r] = "accepted"
    /\ targets' = [targets EXCEPT ![r] = RowsFor(present, payload[r])]
    /\ Goto(r, "locking")
    /\ UNCHANGED <<otherVars, inventoryMap, asked, checked, rowLock, productLock>>

(* The next row was deleted after the snapshot: it is left out.            *)
SkipRow(r, k) ==
    /\ pc[r] = "locking"
    /\ IsNext(r, k)
    /\ k \notin present
    /\ targets' = [targets EXCEPT ![r] = @ \ {k}]
    /\ UNCHANGED <<otherVars, pc, inventoryMap, asked, checked, rowLock, productLock>>

(* The next inventory row is locked and its newest version read.           *)
LockRow(r, k) ==
    /\ pc[r] = "locking"
    /\ IsNext(r, k)
    /\ k \in present
    /\ rowLock[k] = Free
    /\ rowLock' = [rowLock EXCEPT ![k] = r]
    /\ inventoryMap' = [inventoryMap EXCEPT ![r] =
            [j \in Held(r) \cup {k} |-> IF j = k THEN quantity[k] ELSE @[j]]]
    /\ UNCHANGED <<otherVars, pc, targets, asked, checked, productLock>>

(* Then the product row joined to it, against every other transaction that *)
(* has locked it or holds a key-share lock on it.                          *)
LockProduct(r, k) ==
    /\ pc[r] = "locking"
    /\ IsNext(r, k)
    /\ rowLock[k] = r
    /\ productLock[RowProduct[k]] = Free
    /\ \A q \in Requests : RowProduct[k] \notin checked[q]
    /\ productLock' = [productLock EXCEPT ![RowProduct[k]] = r]
    /\ targets' = [targets EXCEPT ![r] = @ \ {k}]
    /\ UNCHANGED <<otherVars, pc, inventoryMap, asked, checked, rowLock>>

(* Mutant of ConfirmOrder: the task is dispatched inside the transaction.  *)
ConfirmAndDispatch(r) ==
    /\ pc[r] = "locking"
    /\ targets[r] = {}
    /\ Covered(Held(r), inventoryMap[r], payload[r])
    /\ Goto(r, "confirming")
    /\ tasks' = tasks \cup {r}
    /\ UNCHANGED <<tableVars, payload, txVars, answer>>

(* No stock issue: Order, bulk_update of the quantities and order items    *)
(* are sent; they become visible at the commit.                            *)
ConfirmOrder(r) ==
    /\ pc[r] = "locking"
    /\ targets[r] = {}
    /\ Covered(Held(r), inventoryMap[r], payload[r])
    /\ Goto(r, "confirming")
    /\ \E p \in NextCheck(r, {}) : asked' = [asked EXCEPT ![r] = p]
    /\ UNCHANGED <<otherVars, targets, inventoryMap, checked, rowLock, productLock>>

(* A stock issue: the REJECTED order and its items are sent.               *)
RejectOrder(r) ==
    /\ pc[r] = "locking"
    /\ targets[r] = {}
    /\ ~Covered(Held(r), inventoryMap[r], payload[r])
    /\ Storable(payload[r])
    /\ Goto(r, "rejecting")
    /\ \E p \in NextCheck(r, {}) : asked' = [asked EXCEPT ![r] = p]
    /\ UNCHANGED <<otherVars, targets, inventoryMap, checked, rowLock, productLock>>

(* Inserting the items of the rejected order overflows the column.         *)
OverflowItems(r) ==
    /\ pc[r] = "locking"
    /\ targets[r] = {}
    /\ ~Covered(Held(r), inventoryMap[r], payload[r])
    /\ ~Storable(payload[r])
    /\ Fail(r)

(* Mutant of CheckForeignKey: a foreign key without a constraint.          *)
PassForeignKey(r) ==
    /\ pc[r] \in {"confirming", "rejecting"}
    /\ asked[r] \in Products
    /\ asked' = [asked EXCEPT ![r] = NoProduct]
    /\ UNCHANGED <<otherVars, pc, targets, inventoryMap, checked, rowLock, productLock>>

(* The commit checks the foreign key of one order item.                    *)
CheckForeignKey(r) ==
    /\ pc[r] \in {"confirming", "rejecting"}
    /\ asked[r] \in catalogue
    /\ productLock[asked[r]] = Free
    /\ checked' = [checked EXCEPT ![r] = @ \cup {asked[r]}]
    /\ \E p \in NextCheck(r, checked[r] \cup {asked[r]}) :
            asked' = [asked EXCEPT ![r] = p]
    /\ UNCHANGED <<otherVars, pc, targets, inventoryMap, rowLock, productLock>>

(* The product has been deleted since it was validated: IntegrityError.    *)
ForeignKeyFails(r) ==
    /\ pc[r] \in {"confirming", "rejecting"}
    /\ asked[r] \in Products \ catalogue
    /\ Fail(r)

(* What the commit makes visible.  The quantities written are computed     *)
(* from the ones read, not from the ones in the table.                     *)
Record(r) ==
    LET rows == RowsFor(Held(r), payload[r]) IN
    \/ /\ pc[r] = "confirming"
       /\ orders' = [orders EXCEPT ![r] = [status |-> "CONFIRMED", payload |-> payload[r]]]
       /\ quantity' = [k \in Rows |-> IF k \in rows
                                        THEN Remaining(k, inventoryMap[r], payload[r])
                                        ELSE quantity[k]]
       /\ sold' = [k \in Rows |-> IF k \in rows
                                    THEN sold[k] + payload[r].want[RowProduct[k]]
                                    ELSE sold[k]]
       /\ UNCHANGED <<catalogue, present, issued, base>>
    \/ /\ pc[r] = "rejecting"
       /\ orders' = [orders EXCEPT ![r] = [status |-> "REJECTED", payload |-> payload[r]]]
       /\ UNCHANGED <<catalogue, present, issued, quantity, base, sold>>

Commit(r) ==
    /\ asked[r] = NoProduct
    /\ Record(r)
    /\ Release(r)
    /\ Goto(r, IF pc[r] = "confirming" THEN "dispatching" ELSE "answering")
    /\ UNCHANGED <<payload, tasks, answer>>

(* The commit takes effect and the connection is lost before the server    *)
(* learns of it: the exception skips the dispatch.                         *)
CommitUnacknowledged(r) ==
    /\ "connection" \in Faults
    /\ asked[r] = NoProduct
    /\ Record(r)
    /\ Release(r)
    /\ Return(r, 500)
    /\ UNCHANGED <<payload, tasks>>

-----------------------------------------------------------------------------
(* After the transaction.                                                  *)

(* apply_async reaches the broker.                                         *)
Dispatch(r) ==
    /\ pc[r] = "dispatching"
    /\ tasks' = tasks \cup {r}
    /\ Goto(r, "answering")
    /\ UNCHANGED <<tableVars, payload, txVars, answer>>

(* apply_async raises, which _dispatch_confirmation_task swallows; the     *)
(* message may have reached the broker all the same.                       *)
DispatchFails(r) ==
    /\ "broker" \in Faults
    /\ pc[r] = "dispatching"
    /\ tasks' \in {tasks, tasks \cup {r}}
    /\ Goto(r, "answering")
    /\ UNCHANGED <<tableVars, payload, txVars, answer>>

(* OrderView serializes the committed order and picks the status.          *)
Answer(r) ==
    /\ pc[r] = "answering"
    /\ Return(r, IF orders[r].status = "CONFIRMED" THEN 201 ELSE 200)
    /\ UNCHANGED <<tableVars, payload, txVars, tasks>>

(* The serializer reads the order's store and items; those queries fail.   *)
AnswerFails(r) ==
    /\ "connection" \in Faults
    /\ pc[r] = "answering"
    /\ Return(r, 500)
    /\ UNCHANGED <<tableVars, payload, txVars, tasks>>

-----------------------------------------------------------------------------
(* Waiting, deadlocks and failures.                                        *)

(* The transactions request r is waiting for.                              *)
BlockedBy(r) ==
    {q \in Requests \ {r} :
        \/ /\ pc[r] = "locking"
           /\ \E k \in Rows :
                /\ IsNext(r, k)
                /\ \/ rowLock[k] = q
                   \/ /\ rowLock[k] = r
                      /\ \/ productLock[RowProduct[k]] = q
                         \/ RowProduct[k] \in checked[q]
        \/ /\ pc[r] \in {"confirming", "rejecting"}
           /\ asked[r] \in Products
           /\ productLock[asked[r]] = q}

(* Following "waits for" from r leads back to r: every set of requests     *)
(* that holds those r waits for, and with each the ones it waits for,      *)
(* holds r.                                                                *)
OnCycle(r) ==
    \A D \in SUBSET Requests :
        (BlockedBy(r) \subseteq D /\ \A q \in D : BlockedBy(q) \subseteq D) => r \in D

(* The connection may be lost before the commit.                           *)
MayDisconnect(r) ==
    /\ "connection" \in Faults
    /\ pc[r] \in InTransaction \cup {"accepted"}

(* PostgreSQL cancels one transaction of a cycle, or the connection is     *)
(* lost: an OperationalError either way.                                   *)
Abort(r) == (OnCycle(r) \/ MayDisconnect(r)) /\ Fail(r)

(* The half of it that the deadlock detector is bound to take.             *)
AbortDeadlock(r) == OnCycle(r) /\ Fail(r)

(* The worker process dies: the client gets no answer and the database     *)
(* rolls an open transaction back.                                         *)
Crash(r) ==
    /\ "crash" \in Faults
    /\ pc[r] \in PC \ {"idle", "done", "crashed"}
    /\ Release(r)
    /\ Goto(r, "crashed")
    /\ UNCHANGED otherVars

-----------------------------------------------------------------------------
(* Administrators.  Saving an inventory row writes an absolute quantity    *)
(* and, like deleting one, waits for the lock of the row.                  *)

(* A row is there and not locked ...                                       *)
ChangeRow(k) ==
    /\ k \in present
    /\ rowLock[k] = Free
    /\ UNCHANGED <<present, issued>>

(* ... or takes a new primary key, keeps the store and product unique and, *)
(* for its foreign key, waits for the lock of the product.                 *)
AddRow(k) ==
    /\ \A j \in issued : j < k
    /\ \A j \in present : ~SameKey(j, k)
    /\ RowProduct[k] \in catalogue
    /\ productLock[RowProduct[k]] = Free
    /\ present' = present \cup {k}
    /\ issued' = issued \cup {k}

SaveRow(k, q) ==
    /\ ChangeRow(k) \/ AddRow(k)
    /\ quantity' = [quantity EXCEPT ![k] = q]
    /\ base' = [base EXCEPT ![k] = q]
    /\ sold' = [sold EXCEPT ![k] = 0]
    /\ UNCHANGED <<catalogue, orders, payload, pc, txVars, tasks, answer>>

RemoveRow(k) ==
    /\ k \in present
    /\ rowLock[k] = Free
    /\ present' = present \ {k}
    /\ UNCHANGED <<catalogue, issued, quantity, orders, base, sold, payload, pc, txVars,
                   tasks, answer>>

(* Mutant of RemoveProduct: the rows are left behind.                      *)
RemoveProductOnly(p) ==
    /\ p \in Deletable \cap catalogue
    /\ productLock[p] = Free
    /\ catalogue' = catalogue \ {p}
    /\ UNCHANGED <<present, issued, quantity, orders, base, sold, payload, pc, txVars,
                   tasks, answer>>

(* Deleting a product takes its inventory rows along (CASCADE).  Items of  *)
(* an order protect it, and so do the locks of a transaction on the        *)
(* product or its rows.                                                    *)
RemoveProduct(p) ==
    /\ p \in Deletable \cap catalogue
    /\ \A r \in Requests : orders[r] # NoOrder => orders[r].payload.want[p] = 0
    /\ \A k \in present : RowProduct[k] = p => rowLock[k] = Free
    /\ productLock[p] = Free
    /\ \A r \in Requests : p \notin checked[r]
    /\ catalogue' = catalogue \ {p}
    /\ present' = {k \in present : RowProduct[k] # p}
    /\ UNCHANGED <<issued, quantity, orders, base, sold, payload, pc, txVars, tasks,
                   answer>>

-----------------------------------------------------------------------------

(* What a worker does with its request when nothing fails.                 *)
Work(r) ==
    \/ SelectForUpdate(r)
    \/ \E k \in Rows : SkipRow(r, k) \/ LockRow(r, k) \/ LockProduct(r, k)
    \/ ConfirmOrder(r) \/ RejectOrder(r) \/ OverflowItems(r)
    \/ CheckForeignKey(r) \/ ForeignKeyFails(r) \/ Commit(r)
    \/ Dispatch(r) \/ Answer(r)

Arrive(r) == RefuseInvalid(r) \/ RefuseStore(r) \/ Receive(r)

Mishap(r) ==
    \/ CommitUnacknowledged(r) \/ DispatchFails(r) \/ AnswerFails(r)
    \/ Crash(r)

Administer ==
    \/ \E k \in Rows : RemoveRow(k)
    \/ \E p \in Products : RemoveProduct(p)
    \/ \E k \in Rows, q \in Restocks : SaveRow(k, q)

Next ==
    \/ \E r \in Requests : Arrive(r) \/ Work(r) \/ Abort(r) \/ Mishap(r)
    \/ Administer

Spec == Init /\ [][Next]_vars

(* A worker keeps working on the request it has, and the deadlock detector *)
(* runs in every transaction that waits long enough.  Nothing obliges a    *)
(* client to send, an administrator to act or a fault to happen.           *)
Fairness ==
    \A r \in Requests : WF_vars(Work(r)) /\ WF_vars(AbortDeadlock(r))

FairSpec == Spec /\ Fairness
-----------------------------------------------------------------------------
(* Properties.                                                             *)

(* No confirmed order's deduction is ever lost or applied twice, whatever  *)
(* ran between reading a quantity and writing it back: what is on the      *)
(* shelf and what was sold since the last save add up to what was saved.   *)
StockConserved == \A k \in present : quantity[k] + sold[k] = base[k]

(* The client is told the truth: 201 and 200 name the order that was       *)
(* committed, a refusal left none behind.  500 says nothing either way.    *)
AnswersTruthful ==
    \A r \in Requests :
        /\ answer[r] = 201 => orders[r] = [status |-> "CONFIRMED", payload |-> payload[r]]
        /\ answer[r] = 200 => orders[r] = [status |-> "REJECTED", payload |-> payload[r]]
        /\ answer[r] \in {400, 404} => orders[r] = NoOrder

(* A confirmation is only ever sent for an order that is in the database   *)
(* as CONFIRMED: the task is dispatched after the commit, never before.    *)
TasksTruthful ==
    \A r \in tasks : orders[r] = [status |-> "CONFIRMED", payload |-> payload[r]]

(* No row of inventory and no item of an order ever refers to a product    *)
(* that is gone, whatever was deleted while the order was under way.       *)
ReferencesIntact ==
    /\ \A k \in present : RowProduct[k] \in catalogue
    /\ \A r \in Requests : orders[r] # NoOrder => Orderable(orders[r].payload)

(* Row locks keep the decision true until it is committed: an order about  *)
(* to be confirmed is covered by the inventory as it is now ...            *)
ConfirmationsHold ==
    \A r \in Requests :
        pc[r] = "confirming" => Covered(present, quantity, payload[r])

(* ... and, as long as nobody adds inventory rows, which no lock prevents, *)
(* one about to be rejected is not.                                        *)
RejectionsHold ==
    \A r \in Requests :
        pc[r] = "rejecting" => ~Covered(present, quantity, payload[r])

(* Every order behaves as if it had been placed in one step.               *)
Book == INSTANCE OrderBook WITH
            present <- present, quantity <- quantity, orders <- orders
ImplementsBook == Book!BookSpec

(* How far the confirmation of the order of request r has come.            *)
ConfirmationStage(r) ==
    IF r \in tasks THEN "published"
    ELSE IF pc[r] = "dispatching" THEN "due"
    ELSE IF orders[r] = [status |-> "CONFIRMED", payload |-> payload[r]] THEN "dropped"
    ELSE "open"

(* The service keeps the agreement the confirmation task relies on: it     *)
(* hands a confirmation over after the commit or not at all.               *)
Handover == INSTANCE OrderHandover WITH
                Orders <- Requests,
                stage <- [r \in Requests |-> ConfirmationStage(r)],
                notified <- {}
ImplementsHandover == Handover!HandoverSpec

(* No two requests wait for each other: the ORDER BY id of the SELECT      *)
(* makes all of them take their locks in the same order.                   *)
NoDeadlock == \A r \in Requests : ~OnCycle(r)

(* A request that was accepted gets an answer or dies with its worker.     *)
EveryRequestAnswered ==
    \A r \in Requests : pc[r] = "accepted" ~> pc[r] \in {"done", "crashed"}

(* A request that failed verification leaves a REJECTED order behind for   *)
(* the audit trail: no 500 without a failing connection or a deadlock.     *)
RejectionsRecorded ==
    \A r \in Requests : answer[r] = 500 => orders[r] # NoOrder
=============================================================================

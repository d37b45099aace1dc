-------------------------- MODULE OrderServiceProofs --------------------------
(***************************************************************************)
(* Theorems about OrderService for any number of requests, stores,         *)
(* products and inventory rows, any payloads and any set of faults.        *)
(***************************************************************************)
EXTENDS OrderService, TLAPS

(* The unique_together constraint of the inventory table.                  *)
UniqueRows == \A j, k \in present : SameKey(j, k) => j = k

(* A quantity in inventory_map belongs to a locked row of the table and is *)
(* still the committed one: the heart of every argument below.             *)
MapsGuarded ==
    \A r \in Requests : \A k \in Held(r) :
        /\ pc[r] \in InTransaction
        /\ rowLock[k] = r
        /\ k \in present
        /\ inventoryMap[r][k] = quantity[k]

(* An order about to be confirmed passed the stock check on what it read.  *)
ChecksPassed ==
    \A r \in Requests :
        pc[r] = "confirming" => Covered(Held(r), inventoryMap[r], payload[r])

(* How far the transaction got by the time each stage is reached.          *)
Stages ==
    \A r \in Requests :
        /\ pc[r] \in InTransaction \cup {"idle", "accepted"} => orders[r] = NoOrder
        /\ pc[r] = "dispatching" =>
                orders[r] = [status |-> "CONFIRMED", payload |-> payload[r]]
        /\ pc[r] = "answering" =>
                \E s \in {"CONFIRMED", "REJECTED"} :
                    orders[r] = [status |-> s, payload |-> payload[r]]
        /\ answer[r] # 0 => pc[r] = "done"
        /\ r \in tasks => pc[r] \in {"answering", "done", "crashed"}

IInv == TypeOK /\ UniqueRows /\ MapsGuarded /\ ChecksPassed
-----------------------------------------------------------------------------
(* Lemmas about single operators.                                          *)

(* Giving up the locks of r keeps the types of the transaction's state.    *)
LEMMA ReleaseTypes ==
    ASSUME TypeOK, NEW r \in Requests, Release(r)
    PROVE  /\ targets' \in [Requests -> SUBSET Rows]
           /\ inventoryMap' \in [Requests -> InventoryMap]
           /\ asked' \in [Requests -> Products \cup {NoProduct}]
           /\ checked' \in [Requests -> SUBSET Products]
           /\ rowLock' \in [Rows -> Requests \cup {Free}]
           /\ productLock' \in [Products -> Requests \cup {Free}]
<1>1. EmptyMap \in InventoryMap
  <2>1. EmptyMap \in [{} -> 0 .. MaxInt]
    BY DEF EmptyMap
  <2>2. QED
    BY <2>1 DEF InventoryMap
<1>2. QED
  BY <1>1 DEF TypeOK, Release

(* The rows a confirmed order deducts hold at least what it takes: the     *)
(* check found a row for each product, and there is only one.              *)
LEMMA CoveredRows ==
    ASSUME IInv, NEW r \in Requests, pc[r] = "confirming",
           NEW k \in RowsFor(Held(r), payload[r])
    PROVE  /\ k \in Rows
           /\ k \in present
           /\ rowLock[k] = r
           /\ inventoryMap[r][k] = quantity[k]
           /\ payload[r].want[RowProduct[k]] \in Nat
           /\ Remaining(k, inventoryMap[r], payload[r]) \in 0 .. MaxInt
<1>1. /\ k \in Held(r)
      /\ RowStore[k] = payload[r].store
      /\ payload[r].want[RowProduct[k]] > 0
  BY DEF RowsFor
<1>2. /\ k \in present
      /\ rowLock[k] = r
      /\ inventoryMap[r][k] = quantity[k]
  BY <1>1 DEF IInv, MapsGuarded
<1>3. k \in Rows /\ quantity[k] \in 0 .. MaxInt
  BY <1>2 DEF IInv, TypeOK
<1>4. RowProduct[k] \in Products /\ MaxInt \in Nat
  BY <1>3, TablesAssumption
<1>5. payload[r].want \in [Products -> Nat]
  BY TablesAssumption DEF IInv, TypeOK, Payload
<1>6. PICK j \in Held(r) : /\ RowStore[j] = payload[r].store
                           /\ RowProduct[j] = RowProduct[k]
                           /\ inventoryMap[r][j] >= payload[r].want[RowProduct[k]]
  BY <1>1, <1>4 DEF IInv, ChecksPassed, Covered
<1>7. j \in present
  BY <1>6 DEF IInv, MapsGuarded
<1>8. j = k
  BY <1>1, <1>2, <1>6, <1>7 DEF IInv, UniqueRows, SameKey
<1>9. quantity[k] >= payload[r].want[RowProduct[k]]
  BY <1>2, <1>6, <1>8
<1>10. Remaining(k, inventoryMap[r], payload[r]) \in 0 .. MaxInt
  BY <1>2, <1>3, <1>4, <1>5, <1>9 DEF Remaining
<1>11. QED
  BY <1>2, <1>3, <1>4, <1>5, <1>10

(* What a commit writes keeps the types of the tables.                     *)
LEMMA RecordTypes ==
    ASSUME IInv, NEW r \in Requests, Record(r)
    PROVE  /\ present' \subseteq issued' /\ issued' \subseteq Rows
           /\ catalogue' \subseteq Products
           /\ quantity' \in [Rows -> 0 .. MaxInt]
           /\ orders' \in [Requests -> OrderRow \cup {NoOrder}]
           /\ base' \in [Rows -> 0 .. MaxInt]
           /\ sold' \in [Rows -> Nat]
<1>1. \A s \in {"CONFIRMED", "REJECTED"} : [status |-> s, payload |-> payload[r]] \in OrderRow
  BY DEF IInv, TypeOK, OrderRow
<1>2. CASE pc[r] = "confirming"
  <2>1. quantity' \in [Rows -> 0 .. MaxInt]
    BY <1>2, CoveredRows DEF Record, IInv, TypeOK
  <2>2. sold' \in [Rows -> Nat]
    BY <1>2, CoveredRows DEF Record, IInv, TypeOK
  <2>3. QED
    BY <1>1, <1>2, <2>1, <2>2 DEF Record, IInv, TypeOK
<1>3. CASE pc[r] = "rejecting"
  BY <1>1, <1>3 DEF Record, IInv, TypeOK
<1>4. QED
  BY <1>2, <1>3 DEF Record

(* The map after another row has been read.                                *)
LEMMA ReadTypes ==
    ASSUME TypeOK, NEW r \in Requests, NEW k \in Rows
    PROVE  [j \in Held(r) \cup {k} |-> IF j = k THEN quantity[k] ELSE inventoryMap[r][j]]
                \in InventoryMap
<1>1. PICK S \in SUBSET Rows : inventoryMap[r] \in [S -> 0 .. MaxInt]
  BY DEF TypeOK, InventoryMap
<1>2. Held(r) = S
  BY <1>1 DEF Held
<1>3. quantity[k] \in 0 .. MaxInt
  BY DEF TypeOK
<1>4. [j \in Held(r) \cup {k} |-> IF j = k THEN quantity[k] ELSE inventoryMap[r][j]]
            \in [S \cup {k} -> 0 .. MaxInt]
  BY <1>1, <1>2, <1>3
<1>5. S \cup {k} \in SUBSET Rows
  OBVIOUS
<1>6. QED
  BY <1>4, <1>5 DEF InventoryMap

(* A product a foreign key check is about.                                 *)
LEMMA NextCheckTypes ==
    ASSUME NEW r, NEW done, NEW p \in NextCheck(r, done)
    PROVE  p \in Products \cup {NoProduct}
BY DEF NextCheck

-----------------------------------------------------------------------------
(* The invariant holds initially and every step keeps each of its parts.   *)

LEMMA InitIInv == Init => IInv
<1> SUFFICES ASSUME Init PROVE IInv
  OBVIOUS
<1>1. EmptyMap \in InventoryMap
  <2>1. EmptyMap \in [{} -> 0 .. MaxInt]
    BY DEF EmptyMap
  <2>2. QED
    BY <2>1 DEF InventoryMap
<1>2. \A r \in Requests : Held(r) = {}
  BY DEF Init, Held, EmptyMap
<1>3. TypeOK
  BY <1>1, TablesAssumption DEF Init, TypeOK, PC, Status
<1>4. UniqueRows
  BY TablesAssumption DEF Init, UniqueRows
<1>5. MapsGuarded
  BY <1>2 DEF MapsGuarded
<1>6. ChecksPassed
  BY DEF Init, ChecksPassed
<1>7. QED
  BY <1>3, <1>4, <1>5, <1>6 DEF IInv

(* Every step keeps the types, quantity >= 0 included.                     *)
LEMMA TypeStep == IInv /\ [Next]_vars => TypeOK'
<1> SUFFICES ASSUME IInv, [Next]_vars PROVE TypeOK'
  OBVIOUS
<1> USE DEF IInv
<1>1. ASSUME NEW r \in Requests, Arrive(r)
      PROVE  TypeOK'
  BY <1>1 DEF Arrive, RefuseInvalid, RefuseStore, Receive, Return, Goto, PC, Status,
              TypeOK, otherVars, tableVars, txVars
<1>2. ASSUME NEW r \in Requests, Fail(r)
      PROVE  TypeOK'
  BY <1>2, ReleaseTypes DEF Fail, Return, Goto, PC, Status, TypeOK, tableVars
<1>3. ASSUME NEW r \in Requests, Work(r)
      PROVE  TypeOK'
  <2>1. CASE SelectForUpdate(r)
    BY <2>1 DEF SelectForUpdate, RowsFor, Goto, PC, InTransaction, TypeOK, otherVars, tableVars
  <2>2. ASSUME NEW k \in Rows, SkipRow(r, k)
        PROVE  TypeOK'
    BY <2>2 DEF SkipRow, TypeOK, otherVars, tableVars
  <2>3. ASSUME NEW k \in Rows, LockRow(r, k)
        PROVE  TypeOK'
    <3>1. inventoryMap' \in [Requests -> InventoryMap]
      BY <2>3, ReadTypes DEF LockRow, TypeOK
    <3>2. QED
      BY <2>3, <3>1 DEF LockRow, TypeOK, otherVars, tableVars
  <2>4. ASSUME NEW k \in Rows, LockProduct(r, k)
        PROVE  TypeOK'
    BY <2>4 DEF LockProduct, TypeOK, otherVars, tableVars
  <2>5. CASE ConfirmOrder(r) \/ RejectOrder(r)
    BY <2>5, NextCheckTypes DEF ConfirmOrder, RejectOrder, Goto, PC, InTransaction,
                                TypeOK, otherVars, tableVars
  <2>6. CASE OverflowItems(r)
    BY <1>2, <2>6 DEF OverflowItems
  <2>7. CASE ForeignKeyFails(r)
    BY <1>2, <2>7 DEF ForeignKeyFails
  <2>8. CASE CheckForeignKey(r)
    BY <2>8, NextCheckTypes DEF CheckForeignKey, TypeOK, otherVars, tableVars
  <2>9. CASE Commit(r)
    <3>1. pc' \in [Requests -> PC]
      BY <2>9 DEF Commit, Goto, PC, TypeOK
    <3>2. /\ payload' \in [Requests -> Payloads]
          /\ tasks' \subseteq Requests
          /\ answer' \in [Requests -> Status]
      BY <2>9 DEF Commit, TypeOK
    <3>3. Record(r) /\ Release(r)
      BY <2>9 DEF Commit
    <3>4. QED
      BY <3>1, <3>2, <3>3, RecordTypes, ReleaseTypes DEF TypeOK
  <2>10. CASE Dispatch(r)
    BY <2>10 DEF Dispatch, Goto, PC, TypeOK, txVars, tableVars
  <2>11. CASE Answer(r)
    BY <2>11 DEF Answer, Return, Goto, PC, Status, TypeOK, txVars, tableVars
  <2>12. QED
    BY <1>3, <2>1, <2>2, <2>3, <2>4, <2>5, <2>6, <2>7, <2>8, <2>9, <2>10, <2>11 DEF Work
<1>4. ASSUME NEW r \in Requests, Abort(r)
      PROVE  TypeOK'
  BY <1>2, <1>4 DEF Abort
<1>5. ASSUME NEW r \in Requests, Mishap(r)
      PROVE  TypeOK'
  <2>1. CASE CommitUnacknowledged(r)
    <3>1. pc' \in [Requests -> PC]
      BY <2>1 DEF CommitUnacknowledged, Return, Goto, PC, TypeOK
    <3>2. /\ payload' \in [Requests -> Payloads]
          /\ tasks' \subseteq Requests
          /\ answer' \in [Requests -> Status]
      BY <2>1 DEF CommitUnacknowledged, Return, Status, TypeOK
    <3>3. Record(r) /\ Release(r)
      BY <2>1 DEF CommitUnacknowledged
    <3>4. QED
      BY <3>1, <3>2, <3>3, RecordTypes, ReleaseTypes DEF TypeOK
  <2>2. CASE DispatchFails(r)
    BY <2>2 DEF DispatchFails, Goto, PC, TypeOK, txVars, tableVars
  <2>3. CASE AnswerFails(r)
    BY <2>3 DEF AnswerFails, Return, Goto, PC, Status, TypeOK, txVars, tableVars
  <2>4. CASE Crash(r)
    BY <2>4, ReleaseTypes DEF Crash, Goto, PC, TypeOK, otherVars, tableVars
  <2>5. QED
    BY <1>5, <2>1, <2>2, <2>3, <2>4 DEF Mishap
<1>6. CASE Administer
  <2>1. ASSUME NEW k \in Rows, RemoveRow(k)
        PROVE  TypeOK'
    BY <2>1 DEF RemoveRow, TypeOK, txVars
  <2>2. ASSUME NEW k \in Rows, NEW q \in Restocks, SaveRow(k, q), ChangeRow(k)
        PROVE  TypeOK'
    BY <2>2, TablesAssumption DEF SaveRow, ChangeRow, TypeOK, txVars
  <2>3. ASSUME NEW k \in Rows, NEW q \in Restocks, SaveRow(k, q), AddRow(k)
        PROVE  TypeOK'
    BY <2>3, TablesAssumption DEF SaveRow, AddRow, TypeOK, txVars
  <2>4. ASSUME NEW p \in Products, RemoveProduct(p)
        PROVE  TypeOK'
    BY <2>4 DEF RemoveProduct, TypeOK, txVars
  <2>5. QED
    BY <1>6, <2>1, <2>2, <2>3, <2>4 DEF Administer, SaveRow
<1>7. CASE UNCHANGED vars
  BY <1>7 DEF vars, otherVars, tableVars, txVars, TypeOK
<1>8. QED
  BY <1>1, <1>3, <1>4, <1>5, <1>6, <1>7 DEF Next

(* The administrators are the only ones who change which rows exist.       *)
LEMMA UniqueStep == IInv /\ [Next]_vars => UniqueRows'
<1> SUFFICES ASSUME IInv, [Next]_vars PROVE UniqueRows'
  OBVIOUS
<1> USE DEF IInv, UniqueRows, SameKey
<1>1. ASSUME NEW r \in Requests, Arrive(r) \/ Work(r) \/ Abort(r) \/ Mishap(r)
      PROVE  present' = present
  BY <1>1 DEF Arrive, RefuseInvalid, RefuseStore, Receive, Work, SelectForUpdate, SkipRow,
              LockRow, LockProduct, ConfirmOrder, RejectOrder, OverflowItems,
              CheckForeignKey, ForeignKeyFails, Commit, Record, Dispatch, Answer, Abort, Mishap,
              CommitUnacknowledged, DispatchFails, AnswerFails, MayDisconnect, Crash,
              Fail, otherVars, tableVars
<1>2. ASSUME NEW k \in Rows, RemoveRow(k)
      PROVE  UniqueRows'
  BY <1>2 DEF RemoveRow
<1>3. ASSUME NEW k \in Rows, NEW q \in Restocks, SaveRow(k, q), ChangeRow(k)
      PROVE  UniqueRows'
  BY <1>3 DEF SaveRow, ChangeRow
<1>4. ASSUME NEW k \in Rows, NEW q \in Restocks, SaveRow(k, q), AddRow(k)
      PROVE  UniqueRows'
  BY <1>4 DEF SaveRow, AddRow
<1>5. ASSUME NEW p \in Products, RemoveProduct(p)
      PROVE  UniqueRows'
  BY <1>5 DEF RemoveProduct
<1>6. CASE UNCHANGED vars
  BY <1>6 DEF vars, otherVars, tableVars
<1>7. QED
  BY <1>1, <1>2, <1>3, <1>4, <1>5, <1>6 DEF Next, Administer, SaveRow

(* Whatever ends transaction r leaves the other transactions' rows and     *)
(* checks alone, provided that it only writes quantities of its own rows.  *)
LEMMA ReleaseGuards ==
    ASSUME IInv, NEW r \in Requests, Release(r),
           present' = present, payload' = payload,
           \A q \in Requests \ {r} : pc'[q] = pc[q],
           pc'[r] \notin InTransaction,
           \A k \in Rows : rowLock[k] # r => quantity'[k] = quantity[k]
    PROVE  MapsGuarded' /\ ChecksPassed'
<1>1. Held(r)' = {}
  BY DEF Held, Release, EmptyMap, IInv, TypeOK
<1>2. \A q \in Requests \ {r} : inventoryMap'[q] = inventoryMap[q] /\ Held(q)' = Held(q)
  BY DEF Held, Release, IInv, TypeOK
<1>3. \A q \in Requests \ {r} : \A k \in Held(q) :
            rowLock'[k] = q /\ quantity'[k] = quantity[k]
  BY DEF IInv, TypeOK, MapsGuarded, Release
<1>4. MapsGuarded'
  BY <1>1, <1>2, <1>3 DEF IInv, MapsGuarded
<1>5. ChecksPassed'
  BY <1>2 DEF IInv, ChecksPassed, Covered, InTransaction
<1>6. QED
  BY <1>4, <1>5

(* A transaction only writes the quantities of rows it has locked.         *)
LEMMA RecordGuards ==
    ASSUME IInv, NEW r \in Requests, Record(r)
    PROVE  /\ present' = present
           /\ \A k \in Rows : rowLock[k] # r => quantity'[k] = quantity[k]
<1>1. \A k \in RowsFor(Held(r), payload[r]) : rowLock[k] = r
  BY DEF IInv, MapsGuarded, RowsFor
<1>2. QED
  BY <1>1 DEF Record, IInv, TypeOK

LEMMA GuardStep == IInv /\ [Next]_vars => MapsGuarded' /\ ChecksPassed'
<1> SUFFICES ASSUME IInv, [Next]_vars PROVE MapsGuarded' /\ ChecksPassed'
  OBVIOUS
<1> USE DEF IInv
<1>1. ASSUME NEW r \in Requests, pc[r] \notin InTransaction, NEW label \in PC \ InTransaction,
             Goto(r, label),
             UNCHANGED <<present, quantity, payload, inventoryMap, rowLock>>
      PROVE  MapsGuarded' /\ ChecksPassed'
  BY <1>1 DEF Goto, MapsGuarded, ChecksPassed, Held, InTransaction, TypeOK, Covered
<1>2. ASSUME NEW r \in Requests, Fail(r)
      PROVE  MapsGuarded' /\ ChecksPassed'
  BY <1>2, ReleaseGuards DEF Fail, Return, Goto, InTransaction, TypeOK, tableVars
<1>3. ASSUME NEW r \in Requests, Work(r)
      PROVE  MapsGuarded' /\ ChecksPassed'
  <2>1. CASE SelectForUpdate(r)
    <3>1. Held(r) = {}
      BY <2>1 DEF SelectForUpdate, MapsGuarded, InTransaction
    <3>2. QED
      BY <2>1, <3>1 DEF SelectForUpdate, MapsGuarded, ChecksPassed, Held, Goto, TypeOK,
                        Covered, InTransaction, otherVars, tableVars
  <2>2. ASSUME NEW k \in Rows, SkipRow(r, k) \/ LockProduct(r, k)
        PROVE  MapsGuarded' /\ ChecksPassed'
    BY <2>2 DEF SkipRow, LockProduct, MapsGuarded, ChecksPassed, Held, Covered,
                otherVars, tableVars
  <2>3. ASSUME NEW k \in Rows, LockRow(r, k)
        PROVE  MapsGuarded' /\ ChecksPassed'
    <3>1. /\ pc[r] = "locking" /\ k \in present /\ rowLock[k] = Free
          /\ rowLock' = [rowLock EXCEPT ![k] = r]
          /\ UNCHANGED <<present, quantity, payload, pc>>
      BY <2>3 DEF LockRow, otherVars, tableVars
    <3>2. inventoryMap'[r] =
            [j \in Held(r) \cup {k} |-> IF j = k THEN quantity[k] ELSE inventoryMap[r][j]]
      BY <2>3 DEF LockRow, TypeOK
    <3>3. Held(r)' = Held(r) \cup {k}
      BY <3>2 DEF Held
    <3>4. \A q \in Requests \ {r} : inventoryMap'[q] = inventoryMap[q] /\ Held(q)' = Held(q)
      BY <2>3 DEF LockRow, TypeOK, Held
    <3>5. \A q \in Requests : k \notin Held(q)
      BY <3>1, ServiceAssumption DEF MapsGuarded
    <3>6. \A q \in Requests : \A j \in Held(q) : rowLock'[j] = q
      BY <3>1, <3>5 DEF MapsGuarded, TypeOK
    <3>7. rowLock'[k] = r
      BY <3>1 DEF TypeOK
    <3>8. MapsGuarded'
      <4>1. ASSUME NEW q \in Requests, NEW j \in Held(q)'
            PROVE  /\ pc'[q] \in InTransaction
                   /\ rowLock'[j] = q
                   /\ j \in present'
                   /\ inventoryMap'[q][j] = quantity'[j]
        <5>1. CASE q = r
          BY <3>1, <3>2, <3>3, <3>6, <3>7, <4>1, <5>1 DEF MapsGuarded, InTransaction
        <5>2. CASE q # r
          BY <3>1, <3>4, <3>6, <4>1, <5>2 DEF MapsGuarded
        <5>3. QED
          BY <5>1, <5>2
      <4>2. QED
        BY <4>1 DEF MapsGuarded
    <3>9. ChecksPassed'
      BY <3>1, <3>4 DEF ChecksPassed, Covered
    <3>10. QED
      BY <3>8, <3>9
  <2>4. CASE ConfirmOrder(r) \/ RejectOrder(r)
    <3>1. /\ pc[r] = "locking"
          /\ pc' \in {[pc EXCEPT ![r] = "confirming"], [pc EXCEPT ![r] = "rejecting"]}
          /\ UNCHANGED <<present, quantity, payload, inventoryMap, rowLock>>
      BY <2>4 DEF ConfirmOrder, RejectOrder, Goto, otherVars, tableVars
    <3>2. pc'[r] = "confirming" => Covered(Held(r), inventoryMap[r], payload[r])
      BY <2>4 DEF ConfirmOrder, RejectOrder, Goto, TypeOK
    <3>3. \A q \in Requests : Held(q)' = Held(q)
      BY <3>1 DEF Held
    <3>4. MapsGuarded'
      BY <3>1, <3>3 DEF MapsGuarded, InTransaction, TypeOK
    <3>5. ChecksPassed'
      BY <3>1, <3>2, <3>3 DEF ChecksPassed, Covered, TypeOK
    <3>6. QED
      BY <3>4, <3>5
  <2>5. CASE OverflowItems(r) \/ ForeignKeyFails(r)
    BY <1>2, <2>5 DEF OverflowItems, ForeignKeyFails
  <2>6. CASE CheckForeignKey(r)
    BY <2>6 DEF CheckForeignKey, MapsGuarded, ChecksPassed, Held, Covered, otherVars, tableVars
  <2>7. CASE Commit(r)
    BY <2>7, RecordGuards, ReleaseGuards DEF Commit, Goto, InTransaction, TypeOK
  <2>8. CASE Dispatch(r)
    BY <1>1, <2>8 DEF Dispatch, PC, InTransaction, txVars, tableVars
  <2>9. CASE Answer(r)
    BY <1>1, <2>9 DEF Answer, Return, PC, InTransaction, txVars, tableVars
  <2>10. QED
    BY <1>3, <2>1, <2>2, <2>3, <2>4, <2>5, <2>6, <2>7, <2>8, <2>9 DEF Work
<1>4. ASSUME NEW r \in Requests, Arrive(r)
      PROVE  MapsGuarded' /\ ChecksPassed'
  BY <1>1, <1>4 DEF Arrive, RefuseInvalid, RefuseStore, Receive, Return, PC, InTransaction,
                    otherVars, txVars, tableVars
<1>5. ASSUME NEW r \in Requests, Abort(r)
      PROVE  MapsGuarded' /\ ChecksPassed'
  BY <1>2, <1>5 DEF Abort
<1>6. ASSUME NEW r \in Requests, Mishap(r)
      PROVE  MapsGuarded' /\ ChecksPassed'
  <2>1. CASE CommitUnacknowledged(r)
    BY <2>1, RecordGuards, ReleaseGuards
       DEF CommitUnacknowledged, Return, Goto, InTransaction, TypeOK
  <2>2. CASE DispatchFails(r)
    BY <1>1, <2>2 DEF DispatchFails, PC, InTransaction, txVars, tableVars
  <2>3. CASE AnswerFails(r)
    BY <1>1, <2>3 DEF AnswerFails, Return, PC, InTransaction, txVars, tableVars
  <2>4. CASE Crash(r)
    BY <2>4, ReleaseGuards DEF Crash, Goto, InTransaction, TypeOK, otherVars, tableVars
  <2>5. QED
    BY <1>6, <2>1, <2>2, <2>3, <2>4 DEF Mishap
<1>7. ASSUME NEW k \in Rows, rowLock[k] = Free \/ k \notin present,
             \A j \in Rows \ {k} : quantity'[j] = quantity[j] /\ (j \in present => j \in present'),
             UNCHANGED <<payload, pc, inventoryMap, rowLock>>
      PROVE  MapsGuarded' /\ ChecksPassed'
  <2>1. \A q \in Requests : k \notin Held(q)
    BY <1>7, ServiceAssumption DEF MapsGuarded
  <2>2. \A q \in Requests : Held(q) \subseteq Rows
    BY DEF MapsGuarded, TypeOK
  <2>3. QED
    BY <1>7, <2>1, <2>2 DEF MapsGuarded, ChecksPassed, Held, Covered
<1>8. CASE Administer
  <2>1. ASSUME NEW k \in Rows, RemoveRow(k)
        PROVE  MapsGuarded' /\ ChecksPassed'
    BY <1>7, <2>1 DEF RemoveRow, txVars
  <2>2. ASSUME NEW k \in Rows, NEW q \in Restocks, SaveRow(k, q), ChangeRow(k)
        PROVE  MapsGuarded' /\ ChecksPassed'
    BY <1>7, <2>2 DEF SaveRow, ChangeRow, TypeOK, txVars
  <2>3. ASSUME NEW k \in Rows, NEW q \in Restocks, SaveRow(k, q), AddRow(k)
        PROVE  MapsGuarded' /\ ChecksPassed'
    <3>1. k \notin present
      BY <2>3, TablesAssumption DEF SaveRow, AddRow, TypeOK
    <3>2. QED
      BY <1>7, <2>3, <3>1 DEF SaveRow, AddRow, TypeOK, txVars
  <2>4. ASSUME NEW p \in Products, RemoveProduct(p)
        PROVE  MapsGuarded' /\ ChecksPassed'
    <3>1. \A q \in Requests : \A k \in Held(q) : k \in present'
      BY <2>4, ServiceAssumption DEF RemoveProduct, MapsGuarded
    <3>2. UNCHANGED <<quantity, payload, pc, inventoryMap, rowLock>>
      BY <2>4 DEF RemoveProduct, txVars
    <3>3. QED
      BY <3>1, <3>2 DEF MapsGuarded, ChecksPassed, Held, Covered
  <2>5. QED
    BY <1>8, <2>1, <2>2, <2>3, <2>4 DEF Administer, SaveRow
<1>9. CASE UNCHANGED vars
  BY <1>9 DEF vars, otherVars, tableVars, txVars, MapsGuarded, ChecksPassed, Held, Covered
<1>10. QED
  BY <1>3, <1>4, <1>5, <1>6, <1>8, <1>9 DEF Next

(* IInv is inductive.                                                      *)
THEOREM InductiveInvariant == Spec => []IInv
<1>1. Init => IInv
  BY InitIInv
<1>2. IInv /\ [Next]_vars => IInv'
  BY TypeStep, UniqueStep, GuardStep DEF IInv
<1>3. QED
  BY <1>1, <1>2, PTL DEF Spec

(* Type correctness; in particular no quantity ever leaves the range of    *)
(* its column, so the CHECK constraint of the table never fires.           *)
THEOREM TypeCorrect == Spec => []TypeOK
<1>1. IInv => TypeOK
  BY DEF IInv
<1>2. QED
  BY <1>1, InductiveInvariant, PTL

(* An order about to be confirmed is covered by the inventory as it is at  *)
(* that very moment, whoever else reads, writes, adds or deletes rows.     *)
THEOREM ConfirmationsAreSound == Spec => []ConfirmationsHold
<1>1. IInv => ConfirmationsHold
  <2> SUFFICES ASSUME IInv, NEW r \in Requests, pc[r] = "confirming"
               PROVE  Covered(present, quantity, payload[r])
    BY DEF ConfirmationsHold
  <2>1. Covered(Held(r), inventoryMap[r], payload[r])
    BY DEF IInv, ChecksPassed
  <2>2. \A k \in Held(r) : k \in present /\ inventoryMap[r][k] = quantity[k]
    BY DEF IInv, MapsGuarded
  <2>3. QED
    BY <2>1, <2>2 DEF Covered
<1>2. QED
  BY <1>1, InductiveInvariant, PTL

-----------------------------------------------------------------------------
(* Stock.                                                                  *)

(* No deduction is lost or applied twice: a commit writes quantities it    *)
(* computed from what it read, and MapsGuarded says those are current.     *)
THEOREM StockIsConserved == Spec => []StockConserved
<1>1. Init => StockConserved
  BY TablesAssumption DEF Init, StockConserved
<1>2. IInv /\ StockConserved /\ [Next]_vars => StockConserved'
  <2> SUFFICES ASSUME IInv, StockConserved, [Next]_vars
               PROVE  StockConserved'
    OBVIOUS
  <2>1. ASSUME NEW r \in Requests, Record(r)
        PROVE  StockConserved'
    <3>1. CASE pc[r] = "confirming"
      <4> SUFFICES ASSUME NEW k \in present
                   PROVE  quantity'[k] + sold'[k] = base'[k]
        BY <2>1, <3>1 DEF Record, StockConserved
      <4>1. /\ k \in Rows /\ quantity[k] \in Nat /\ sold[k] \in Nat
            /\ base' = base /\ quantity[k] + sold[k] = base[k]
        BY <2>1, <3>1, TablesAssumption DEF Record, StockConserved, IInv, TypeOK
      <4>2. CASE k \in RowsFor(Held(r), payload[r])
        <5>1. /\ quantity'[k] = Remaining(k, inventoryMap[r], payload[r])
              /\ sold'[k] = sold[k] + payload[r].want[RowProduct[k]]
          BY <2>1, <3>1, <4>1, <4>2 DEF Record
        <5>2. /\ inventoryMap[r][k] = quantity[k]
              /\ payload[r].want[RowProduct[k]] \in Nat
          BY <3>1, <4>2, CoveredRows
        <5>3. QED
          BY <4>1, <5>1, <5>2 DEF Remaining
      <4>3. CASE k \notin RowsFor(Held(r), payload[r])
        BY <2>1, <3>1, <4>1, <4>3 DEF Record
      <4>4. QED
        BY <4>2, <4>3
    <3>2. CASE pc[r] = "rejecting"
      BY <2>1, <3>2 DEF Record, StockConserved
    <3>3. QED
      BY <2>1, <3>1, <3>2 DEF Record
  <2>2. CASE UNCHANGED tableVars
    BY <2>2 DEF tableVars, StockConserved
  <2>3. ASSUME NEW r \in Requests, Arrive(r) \/ Work(r) \/ Abort(r) \/ Mishap(r)
        PROVE  Record(r) \/ UNCHANGED tableVars
    BY <2>3 DEF Arrive, RefuseInvalid, RefuseStore, Receive, Work, SelectForUpdate, SkipRow,
                LockRow, LockProduct, ConfirmOrder, RejectOrder, OverflowItems,
                CheckForeignKey, ForeignKeyFails, Commit, Dispatch, Answer, Abort, Mishap,
                CommitUnacknowledged, DispatchFails, AnswerFails, MayDisconnect, Crash,
                Fail, otherVars
  <2>4. ASSUME NEW k \in Rows, RemoveRow(k)
        PROVE  StockConserved'
    BY <2>4 DEF RemoveRow, StockConserved
  <2>5. ASSUME NEW k \in Rows, NEW q \in Restocks, SaveRow(k, q)
        PROVE  StockConserved'
    <3>1. q \in Nat
      BY TablesAssumption
    <3>2. /\ \A j \in present' \ {k} : j \in present
          /\ present' \subseteq Rows
      BY <2>5 DEF SaveRow, ChangeRow, AddRow, IInv, TypeOK
    <3>3. /\ quantity' = [quantity EXCEPT ![k] = q]
          /\ base' = [base EXCEPT ![k] = q]
          /\ sold' = [sold EXCEPT ![k] = 0]
      BY <2>5 DEF SaveRow, ChangeRow, AddRow
    <3>4. QED
      BY <3>1, <3>2, <3>3 DEF StockConserved, IInv, TypeOK
  <2>6. CASE UNCHANGED vars
    BY <2>2, <2>6 DEF vars, otherVars
  <2>7. ASSUME NEW p \in Products, RemoveProduct(p)
        PROVE  StockConserved'
    BY <2>7 DEF RemoveProduct, StockConserved
  <2>8. QED
    BY <2>1, <2>2, <2>3, <2>4, <2>5, <2>6, <2>7 DEF Next, Administer
<1>3. QED
  BY <1>1, <1>2, InductiveInvariant, PTL DEF Spec

-----------------------------------------------------------------------------
(* Answers and confirmation tasks.                                         *)

(* A step of one request leaves the rows and the place of others alone.    *)
LEMMA OthersUntouched ==
    ASSUME TypeOK, NEW r \in Requests,
           Arrive(r) \/ Work(r) \/ Abort(r) \/ Mishap(r)
    PROVE  \A q \in Requests \ {r} :
                UNCHANGED <<pc[q], orders[q], payload[q], answer[q]>>
                /\ (q \in tasks' => q \in tasks)
<1> DEFINE Untouched == \A q \in Requests \ {r} :
                UNCHANGED <<pc[q], orders[q], payload[q], answer[q]>>
                /\ (q \in tasks' => q \in tasks)
<1>1. CASE Arrive(r)
  BY <1>1 DEF Arrive, RefuseInvalid, RefuseStore, Receive, Return, Goto, otherVars, tableVars,
              TypeOK
<1>2. CASE Fail(r)
  BY <1>2 DEF Fail, Return, Goto, tableVars, TypeOK
<1>3. CASE Record(r) /\ (Commit(r) \/ CommitUnacknowledged(r))
  BY <1>3 DEF Commit, CommitUnacknowledged, Record, Return, Goto, TypeOK
<1>4. CASE Work(r)
  <2>1. CASE SelectForUpdate(r) \/ ConfirmOrder(r) \/ RejectOrder(r) \/ CheckForeignKey(r)
    BY <2>1 DEF SelectForUpdate, ConfirmOrder, RejectOrder, CheckForeignKey, Goto,
                otherVars, tableVars, TypeOK
  <2>2. ASSUME NEW k \in Rows, SkipRow(r, k) \/ LockRow(r, k) \/ LockProduct(r, k)
        PROVE  Untouched
    BY <2>2 DEF SkipRow, LockRow, LockProduct, otherVars, tableVars
  <2>3. CASE Dispatch(r) \/ Answer(r)
    BY <2>3 DEF Dispatch, Answer, Return, Goto, tableVars, TypeOK
  <2>4. QED
    BY <1>2, <1>3, <1>4, <2>1, <2>2, <2>3 DEF Work, OverflowItems, ForeignKeyFails, Commit
<1>5. CASE Mishap(r)
  <2>1. CASE DispatchFails(r) \/ AnswerFails(r) \/ Crash(r)
    BY <2>1 DEF DispatchFails, AnswerFails, Crash, Return, Goto, otherVars, tableVars, TypeOK
  <2>2. QED
    BY <1>2, <1>3, <1>5, <2>1 DEF Mishap, CommitUnacknowledged
<1>6. QED
  BY <1>1, <1>2, <1>4, <1>5 DEF Abort

(* A deadlock takes a transaction that waits.                              *)
LEMMA CycleInTransaction ==
    ASSUME NEW r \in Requests, OnCycle(r)
    PROVE  pc[r] \in InTransaction
<1>1. BlockedBy(r) # {}
  <2> SUFFICES ASSUME BlockedBy(r) = {} PROVE FALSE
    OBVIOUS
  <2>1. {} \in SUBSET Requests
    OBVIOUS
  <2>2. r \in {}
    BY <2>1 DEF OnCycle
  <2>3. QED
    BY <2>2
<1>2. QED
  BY <1>1 DEF BlockedBy, InTransaction

LEMMA StageStep == IInv /\ Stages /\ [Next]_vars => Stages'
<1> SUFFICES ASSUME IInv, Stages, [Next]_vars PROVE Stages'
  OBVIOUS
<1> DEFINE Stage(r) ==
        /\ pc[r] \in InTransaction \cup {"idle", "accepted"} => orders[r] = NoOrder
        /\ pc[r] = "dispatching" =>
                orders[r] = [status |-> "CONFIRMED", payload |-> payload[r]]
        /\ pc[r] = "answering" =>
                \E s \in {"CONFIRMED", "REJECTED"} :
                    orders[r] = [status |-> s, payload |-> payload[r]]
        /\ answer[r] # 0 => pc[r] = "done"
        /\ r \in tasks => pc[r] \in {"answering", "done", "crashed"}
<1>0. \A q \in Requests : Stage(q)
  BY DEF Stages
<1>1. ASSUME NEW r \in Requests, Stage(r)',
             \A q \in Requests \ {r} :
                UNCHANGED <<pc[q], orders[q], payload[q], answer[q]>>
                /\ (q \in tasks' => q \in tasks)
      PROVE  Stages'
  BY <1>0, <1>1 DEF Stages
<1>2. ASSUME NEW r \in Requests, Arrive(r) \/ Work(r) \/ Abort(r) \/ Mishap(r)
      PROVE  \A q \in Requests \ {r} :
                UNCHANGED <<pc[q], orders[q], payload[q], answer[q]>>
                /\ (q \in tasks' => q \in tasks)
  BY <1>2, OthersUntouched DEF IInv
<1>3. ASSUME NEW r \in Requests, Fail(r), pc[r] \in InTransaction \cup {"accepted"}
      PROVE  Stage(r)'
  BY <1>0, <1>3 DEF Fail, Return, Goto, IInv, TypeOK, InTransaction, tableVars
<1>4. ASSUME NEW r \in Requests, OnCycle(r)
      PROVE  pc[r] \in InTransaction
  BY <1>4, CycleInTransaction
<1>5. ASSUME NEW r \in Requests, Arrive(r)
      PROVE  Stage(r)'
  BY <1>0, <1>5 DEF Arrive, RefuseInvalid, RefuseStore, Receive, Return, Goto, InTransaction,
                    otherVars, tableVars, IInv, TypeOK
<1>6. ASSUME NEW r \in Requests, Work(r)
      PROVE  Stage(r)'
  <2>1. CASE SelectForUpdate(r) \/ ConfirmOrder(r) \/ RejectOrder(r)
    BY <1>0, <2>1 DEF SelectForUpdate, ConfirmOrder, RejectOrder, Goto, InTransaction,
                      otherVars, tableVars, IInv, TypeOK
  <2>2. CASE CheckForeignKey(r) \/ \E k \in Rows : SkipRow(r, k) \/ LockRow(r, k) \/ LockProduct(r, k)
    BY <1>0, <2>2 DEF SkipRow, LockRow, LockProduct, CheckForeignKey, InTransaction,
                      otherVars, tableVars
  <2>3. CASE OverflowItems(r) \/ ForeignKeyFails(r)
    BY <1>3, <2>3 DEF OverflowItems, ForeignKeyFails, InTransaction
  <2>4. CASE Commit(r)
    BY <1>0, <2>4 DEF Commit, Record, Goto, InTransaction, IInv, TypeOK
  <2>5. CASE Dispatch(r) \/ Answer(r)
    BY <1>0, <2>5 DEF Dispatch, Answer, Return, Goto, InTransaction, tableVars, IInv, TypeOK
  <2>6. QED
    BY <1>6, <2>1, <2>2, <2>3, <2>4, <2>5 DEF Work
<1>7. ASSUME NEW r \in Requests, Abort(r)
      PROVE  Stage(r)'
  BY <1>3, <1>4, <1>7 DEF Abort, MayDisconnect
<1>8. ASSUME NEW r \in Requests, Mishap(r)
      PROVE  Stage(r)'
  <2>1. CASE CommitUnacknowledged(r)
    BY <1>0, <2>1 DEF CommitUnacknowledged, Record, Return, Goto, InTransaction, IInv, TypeOK
  <2>2. CASE DispatchFails(r) \/ AnswerFails(r)
    BY <1>0, <2>2 DEF DispatchFails, AnswerFails, Return, Goto, InTransaction, tableVars,
                      IInv, TypeOK
  <2>3. CASE Crash(r)
    BY <1>0, <2>3 DEF Crash, Goto, InTransaction, PC, otherVars, tableVars, IInv, TypeOK
  <2>4. QED
    BY <1>8, <2>1, <2>2, <2>3 DEF Mishap
<1>9. CASE Administer \/ UNCHANGED vars
  BY <1>9 DEF Administer, SaveRow, ChangeRow, RemoveRow, RemoveProduct, AddRow, Stages, vars,
              otherVars, tableVars
<1>10. QED
  BY <1>1, <1>2, <1>5, <1>6, <1>7, <1>8, <1>9 DEF Next

THEOREM StagesInvariant == Spec => []Stages
<1>1. Init => Stages
  BY DEF Init, Stages, InTransaction
<1>2. QED
  BY <1>1, StageStep, InductiveInvariant, PTL DEF Spec

(* How a step can change the row of request r, its answer and its task.    *)
LEMMA OutcomeStep ==
    ASSUME IInv, Stages, [Next]_vars, NEW r \in Requests
    PROVE  /\ payload'[r] = payload[r]
           /\ \/ orders'[r] = orders[r]
              \/ orders[r] = NoOrder /\ answer[r] = 0 /\ r \notin tasks /\ answer'[r] \in {0, 500}
           /\ \/ answer'[r] = answer[r]
              \/ answer'[r] = 500
              \/ answer'[r] \in {400, 404} /\ orders'[r] = NoOrder
              \/ answer'[r] = 201 /\ orders'[r] = [status |-> "CONFIRMED", payload |-> payload[r]]
              \/ answer'[r] = 200 /\ orders'[r] = [status |-> "REJECTED", payload |-> payload[r]]
           /\ \/ r \in tasks' => r \in tasks
              \/ orders'[r] = [status |-> "CONFIRMED", payload |-> payload[r]]
<1> DEFINE Outcome ==
           /\ payload'[r] = payload[r]
           /\ \/ orders'[r] = orders[r]
              \/ orders[r] = NoOrder /\ answer[r] = 0 /\ r \notin tasks /\ answer'[r] \in {0, 500}
           /\ \/ answer'[r] = answer[r]
              \/ answer'[r] = 500
              \/ answer'[r] \in {400, 404} /\ orders'[r] = NoOrder
              \/ answer'[r] = 201 /\ orders'[r] = [status |-> "CONFIRMED", payload |-> payload[r]]
              \/ answer'[r] = 200 /\ orders'[r] = [status |-> "REJECTED", payload |-> payload[r]]
           /\ \/ r \in tasks' => r \in tasks
              \/ orders'[r] = [status |-> "CONFIRMED", payload |-> payload[r]]
<1>1. CASE UNCHANGED <<orders, payload, answer, tasks>>
  BY <1>1
<1>2. ASSUME NEW q \in Requests \ {r}, Arrive(q) \/ Work(q) \/ Abort(q) \/ Mishap(q)
      PROVE  Outcome
  BY <1>2, OthersUntouched DEF IInv
<1>3. CASE Fail(r)
  BY <1>3 DEF Fail, Return, tableVars, IInv, TypeOK
<1>4. CASE Commit(r) \/ CommitUnacknowledged(r)
  <2>1. pc[r] \in InTransaction
    BY <1>4 DEF Commit, CommitUnacknowledged, Record, InTransaction
  <2>2. orders[r] = NoOrder /\ answer[r] = 0 /\ r \notin tasks
    BY <2>1 DEF Stages, InTransaction
  <2>3. payload' = payload /\ tasks' = tasks /\ answer'[r] \in {0, 500}
    BY <1>4, <2>2 DEF Commit, CommitUnacknowledged, Return, IInv, TypeOK
  <2>4. QED
    BY <2>2, <2>3
<1>5. CASE Arrive(r)
  BY <1>5 DEF Arrive, RefuseInvalid, RefuseStore, Receive, Return, otherVars, tableVars,
              IInv, TypeOK, Stages
<1>6. CASE Dispatch(r) \/ DispatchFails(r)
  BY <1>6 DEF Dispatch, DispatchFails, tableVars, Stages
<1>7. CASE Answer(r) \/ AnswerFails(r)
  <2>1. PICK s \in {"CONFIRMED", "REJECTED"} :
            orders[r] = [status |-> s, payload |-> payload[r]]
    BY <1>7 DEF Answer, AnswerFails, Stages
  <2>2. /\ orders' = orders /\ payload' = payload /\ tasks' = tasks
        /\ answer'[r] \in {500, IF orders[r].status = "CONFIRMED" THEN 201 ELSE 200}
    BY <1>7 DEF Answer, AnswerFails, Return, tableVars, IInv, TypeOK
  <2>3. QED
    BY <2>1, <2>2
<1>8. ASSUME NEW k \in Rows, SkipRow(r, k) \/ LockRow(r, k) \/ LockProduct(r, k)
      PROVE  Outcome
  BY <1>1, <1>8 DEF SkipRow, LockRow, LockProduct, otherVars, tableVars
<1>9. CASE SelectForUpdate(r) \/ ConfirmOrder(r) \/ RejectOrder(r) \/ CheckForeignKey(r) \/ Crash(r)
  BY <1>1, <1>9 DEF SelectForUpdate, ConfirmOrder, RejectOrder, CheckForeignKey, Crash,
                    otherVars, tableVars
<1>10. CASE Administer \/ UNCHANGED vars
  BY <1>1, <1>10 DEF Administer, SaveRow, ChangeRow, RemoveRow, RemoveProduct, AddRow, vars,
                     otherVars, tableVars
<1>11. CASE Work(r)
  BY <1>3, <1>4, <1>6, <1>7, <1>8, <1>9, <1>11 DEF Work, OverflowItems, ForeignKeyFails
<1>12. CASE Abort(r) \/ Mishap(r)
  BY <1>3, <1>4, <1>6, <1>7, <1>9, <1>12 DEF Abort, Mishap, MayDisconnect
<1>13. QED
  BY <1>2, <1>5, <1>10, <1>11, <1>12 DEF Next

(* 201 and 200 name the order that is in the database, 400 and 404 mean    *)
(* that there is none.                                                     *)
THEOREM AnswersAreTruthful == Spec => []AnswersTruthful
<1>1. Init => AnswersTruthful
  BY DEF Init, AnswersTruthful
<1>2. IInv /\ Stages /\ AnswersTruthful /\ [Next]_vars => AnswersTruthful'
  <2> SUFFICES ASSUME IInv, Stages, AnswersTruthful, [Next]_vars, NEW r \in Requests
               PROVE  /\ answer'[r] = 201 =>
                            orders'[r] = [status |-> "CONFIRMED", payload |-> payload'[r]]
                      /\ answer'[r] = 200 =>
                            orders'[r] = [status |-> "REJECTED", payload |-> payload'[r]]
                      /\ answer'[r] \in {400, 404} => orders'[r] = NoOrder
    BY DEF AnswersTruthful
  <2>1. payload'[r] = payload[r]
    BY OutcomeStep
  <2>2. CASE answer'[r] = answer[r]
    <3>1. orders'[r] = orders[r] \/ answer'[r] \in {0, 500}
      BY OutcomeStep
    <3>2. QED
      BY <2>1, <2>2, <3>1 DEF AnswersTruthful
  <2>3. CASE answer'[r] # answer[r]
    BY <2>1, <2>3, OutcomeStep
  <2>4. QED
    BY <2>2, <2>3
<1>3. QED
  BY <1>1, <1>2, InductiveInvariant, StagesInvariant, PTL DEF Spec

(* A confirmation task exists only for an order committed as CONFIRMED.    *)
THEOREM TasksAreTruthful == Spec => []TasksTruthful
<1>1. Init => TasksTruthful
  BY DEF Init, TasksTruthful
<1>2. IInv /\ Stages /\ TasksTruthful /\ [Next]_vars => TasksTruthful'
  <2> SUFFICES ASSUME IInv, Stages, TasksTruthful, [Next]_vars,
                      NEW r \in Requests, r \in tasks'
               PROVE  orders'[r] = [status |-> "CONFIRMED", payload |-> payload'[r]]
    BY TypeStep DEF TasksTruthful, TypeOK
  <2>1. payload'[r] = payload[r]
    BY OutcomeStep
  <2>2. CASE r \in tasks
    <3>1. orders'[r] = orders[r]
      BY <2>2, OutcomeStep
    <3>2. QED
      BY <2>1, <2>2, <3>1 DEF TasksTruthful
  <2>3. CASE r \notin tasks
    <3>1. r \in tasks' /\ ~(r \in tasks' => r \in tasks)
      BY <2>3
    <3>2. orders'[r] = [status |-> "CONFIRMED", payload |-> payload[r]]
      BY <3>1, OutcomeStep
    <3>3. QED
      BY <2>1, <3>2
  <2>4. QED
    BY <2>2, <2>3
<1>3. QED
  BY <1>1, <1>2, InductiveInvariant, StagesInvariant, PTL DEF Spec

-----------------------------------------------------------------------------
(* The agreement with the confirmation task.                               *)

StageNow == [r \in Requests |-> ConfirmationStage(r)]

LEMMA TasksGrow == [Next]_vars => tasks \subseteq tasks'
<1> SUFFICES ASSUME [Next]_vars PROVE tasks \subseteq tasks'
  OBVIOUS
<1>1. ASSUME NEW r \in Requests, Arrive(r) \/ Work(r) \/ Abort(r) \/ Mishap(r)
      PROVE  tasks \subseteq tasks'
  BY <1>1 DEF Arrive, RefuseInvalid, RefuseStore, Receive, Work, SelectForUpdate, SkipRow,
              LockRow, LockProduct, ConfirmOrder, RejectOrder, OverflowItems,
              CheckForeignKey, ForeignKeyFails, Commit, Record, Dispatch, Answer, Abort, Mishap,
              CommitUnacknowledged, DispatchFails, AnswerFails, MayDisconnect, Crash,
              Fail, otherVars
<1>2. CASE Administer \/ UNCHANGED vars
  BY <1>2 DEF Administer, SaveRow, ChangeRow, RemoveRow, RemoveProduct, AddRow, vars, otherVars
<1>3. QED
  BY <1>1, <1>2 DEF Next

(* One step of the agreement for the order of one request.                 *)
Moved(before, after) ==
    \/ after = before
    \/ before = "open" /\ after = "due"
    \/ before = "due" /\ after = "published"
    \/ before \in {"open", "due"} /\ after = "dropped"

LEMMA OwnStage ==
    ASSUME IInv, Stages, NEW r \in Requests,
           Arrive(r) \/ Work(r) \/ Abort(r) \/ Mishap(r)
    PROVE  Moved(ConfirmationStage(r), ConfirmationStage(r)')
<1> DEFINE Confirmed == [status |-> "CONFIRMED", payload |-> payload[r]]
           Goal == Moved(ConfirmationStage(r), ConfirmationStage(r)')
<1>0. NoOrder # Confirmed
  BY TablesAssumption DEF IInv, TypeOK, OrderRow
<1>1. ASSUME orders'[r] = orders[r], payload'[r] = payload[r], tasks' = tasks,
             pc[r] # "dispatching", pc'[r] # "dispatching"
      PROVE  Goal
  BY <1>1 DEF Moved, ConfirmationStage
<1>2. CASE Fail(r) /\ pc[r] \in InTransaction \cup {"accepted"}
  BY <1>1, <1>2 DEF Fail, Return, Goto, InTransaction, tableVars, IInv, TypeOK
<1>3. CASE Arrive(r)
  BY <1>1, <1>3 DEF Arrive, RefuseInvalid, RefuseStore, Receive, Return, Goto, otherVars,
                    tableVars, IInv, TypeOK
<1>4. CASE Commit(r) \/ CommitUnacknowledged(r)
  <2>1. pc[r] \in InTransaction /\ orders[r] = NoOrder /\ r \notin tasks
    BY <1>4 DEF Commit, CommitUnacknowledged, Record, InTransaction, Stages
  <2>2. ConfirmationStage(r) = "open"
    BY <1>0, <2>1 DEF ConfirmationStage, InTransaction
  <2>3. tasks' = tasks /\ payload' = payload
    BY <1>4 DEF Commit, CommitUnacknowledged
  <2>4. ConfirmationStage(r)' \in {"due", "dropped", "open"}
    BY <2>1, <2>3 DEF ConfirmationStage
  <2>5. QED
    BY <2>2, <2>4 DEF Moved
<1>5. CASE Dispatch(r) \/ DispatchFails(r)
  <2>1. ConfirmationStage(r) = "due"
    BY <1>5 DEF Dispatch, DispatchFails, ConfirmationStage, Stages
  <2>2. /\ pc'[r] = "answering" /\ orders'[r] = Confirmed /\ payload'[r] = payload[r]
    BY <1>5 DEF Dispatch, DispatchFails, Goto, tableVars, IInv, TypeOK, Stages
  <2>3. ConfirmationStage(r)' \in {"published", "dropped"}
    BY <2>2 DEF ConfirmationStage
  <2>4. QED
    BY <2>1, <2>3 DEF Moved
<1>6. CASE Answer(r) \/ AnswerFails(r)
  BY <1>1, <1>6 DEF Answer, AnswerFails, Return, Goto, tableVars, IInv, TypeOK
<1>7. CASE SelectForUpdate(r) \/ ConfirmOrder(r) \/ RejectOrder(r)
  BY <1>1, <1>7 DEF SelectForUpdate, ConfirmOrder, RejectOrder, Goto, otherVars, tableVars,
                    IInv, TypeOK
<1>8. CASE CheckForeignKey(r) \/ \E k \in Rows : SkipRow(r, k) \/ LockRow(r, k) \/ LockProduct(r, k)
  BY <1>1, <1>8 DEF CheckForeignKey, SkipRow, LockRow, LockProduct, otherVars, tableVars
<1>9. CASE Crash(r)
  <2>1. UNCHANGED <<orders, payload, tasks>> /\ pc'[r] = "crashed"
    BY <1>9 DEF Crash, Goto, otherVars, tableVars, IInv, TypeOK
  <2>2. CASE pc[r] = "dispatching"
    <3>1. orders[r] = Confirmed /\ r \notin tasks
      BY <2>2 DEF Stages
    <3>2. ConfirmationStage(r) = "due" /\ ConfirmationStage(r)' = "dropped"
      BY <2>1, <2>2, <3>1 DEF ConfirmationStage
    <3>3. QED
      BY <3>2 DEF Moved
  <2>3. CASE pc[r] # "dispatching"
    BY <1>1, <2>1, <2>3
  <2>4. QED
    BY <2>2, <2>3
<1>10. CASE Work(r)
  BY <1>2, <1>4, <1>5, <1>6, <1>7, <1>8, <1>10 DEF Work, OverflowItems, ForeignKeyFails,
                                                   InTransaction
<1>11. CASE Abort(r)
  BY <1>2, <1>11, CycleInTransaction DEF Abort, MayDisconnect
<1>12. CASE Mishap(r)
  BY <1>2, <1>4, <1>5, <1>6, <1>9, <1>12 DEF Mishap
<1>13. QED
  BY <1>3, <1>10, <1>11, <1>12

LEMMA HandoverStep ==
    ASSUME IInv, Stages, [Next]_vars
    PROVE  [Handover!HandoverNext]_<<StageNow, {}>>
<1>1. CASE Administer \/ UNCHANGED vars
  <2>1. UNCHANGED <<orders, payload, pc, tasks>>
    BY <1>1 DEF Administer, SaveRow, ChangeRow, RemoveRow, RemoveProduct, AddRow, vars,
                otherVars, tableVars
  <2>2. QED
    BY <2>1 DEF StageNow, ConfirmationStage
<1>2. ASSUME NEW r \in Requests, Arrive(r) \/ Work(r) \/ Abort(r) \/ Mishap(r)
      PROVE  [Handover!HandoverNext]_<<StageNow, {}>>
  <2>1. \A q \in Requests \ {r} : ConfirmationStage(q)' = ConfirmationStage(q)
    BY <1>2, OthersUntouched, TasksGrow DEF ConfirmationStage, IInv
  <2>2. StageNow' = [StageNow EXCEPT ![r] = ConfirmationStage(r)']
    BY <2>1 DEF StageNow
  <2>3. Moved(StageNow[r], ConfirmationStage(r)')
    BY <1>2, OwnStage DEF StageNow
  <2>4. CASE ConfirmationStage(r)' = StageNow[r]
    BY <2>2, <2>4 DEF StageNow
  <2>5. CASE StageNow[r] = "open" /\ ConfirmationStage(r)' = "due"
    BY <2>2, <2>5 DEF Handover!HandoverNext, Handover!FallDue, Handover!Move, StageNow
  <2>6. CASE StageNow[r] = "due" /\ ConfirmationStage(r)' = "published"
    BY <2>2, <2>6 DEF Handover!HandoverNext, Handover!HandOver, Handover!Move, StageNow
  <2>7. CASE StageNow[r] \in {"open", "due"} /\ ConfirmationStage(r)' = "dropped"
    BY <2>2, <2>7 DEF Handover!HandoverNext, Handover!Drop, Handover!Move, StageNow
  <2>8. QED
    BY <2>3, <2>4, <2>5, <2>6, <2>7 DEF Moved
<1>3. QED
  BY <1>1, <1>2 DEF Next

(* The order service keeps the agreement the confirmation task relies on:  *)
(* a confirmation reaches the broker after the commit of its order or not  *)
(* at all.                                                                 *)
THEOREM ServiceImplementsHandover == Spec => ImplementsHandover
<1>1. Init => Handover!HandoverInit
  BY TablesAssumption
     DEF Init, Handover!HandoverInit, ConfirmationStage, OrderRow
<1>2. IInv /\ Stages /\ [Next]_vars => [Handover!HandoverNext]_(Handover!handoverVars)
  BY HandoverStep DEF Handover!handoverVars, StageNow
<1>3. QED
  BY <1>1, <1>2, InductiveInvariant, StagesInvariant, PTL
     DEF Spec, ImplementsHandover, Handover!HandoverSpec

-----------------------------------------------------------------------------
(* References.  What is locked exists, and a transaction about to commit   *)
(* has a lock on every product of its order or a check still to make.      *)

LocksGuarded ==
    /\ \A k \in Rows : rowLock[k] # Free => k \in present
    /\ \A p \in Products : productLock[p] # Free => p \in catalogue
    /\ \A r \in Requests : checked[r] \subseteq catalogue

ChecksLeft ==
    \A r \in Requests :
        pc[r] \in {"confirming", "rejecting"} /\ asked[r] = NoProduct =>
            \A p \in Products :
                payload[r].want[p] > 0 => productLock[p] = r \/ p \in checked[r]

RInv == ReferencesIntact /\ LocksGuarded /\ ChecksLeft

(* The checks a commit does not have to make any more.                     *)
LEMMA NoCheckLeft ==
    ASSUME NEW r \in Requests, NEW done, NoProduct \in NextCheck(r, done),
           NEW p \in Products, payload[r].want[p] > 0
    PROVE  productLock[p] = r \/ p \in done
BY ServiceAssumption DEF NextCheck

(* Ending a transaction frees locks and checks nothing.                    *)
LEMMA ReleaseReferences ==
    ASSUME IInv, RInv, NEW r \in Requests, Release(r), UNCHANGED <<catalogue, present>>,
           UNCHANGED payload,
           \A q \in Requests \ {r} : pc'[q] = pc[q],
           pc'[r] \notin {"confirming", "rejecting"},
           \A q \in Requests : orders'[q] # NoOrder => Orderable(orders'[q].payload)
    PROVE  RInv'
<1>1. ReferencesIntact'
  BY DEF RInv, ReferencesIntact, Orderable
<1>2. LocksGuarded'
  BY DEF RInv, LocksGuarded, Release, IInv, TypeOK
<1>3. ASSUME NEW q \in Requests, pc'[q] \in {"confirming", "rejecting"}, asked'[q] = NoProduct,
             NEW p \in Products, payload'[q].want[p] > 0
      PROVE  productLock'[p] = q \/ p \in checked'[q]
  <2>1. q # r /\ pc[q] \in {"confirming", "rejecting"}
    BY <1>3
  <2>2. asked[q] = NoProduct /\ checked'[q] = checked[q]
    BY <1>3, <2>1 DEF Release, IInv, TypeOK
  <2>3. productLock[p] = q => productLock'[p] = q
    BY <2>1 DEF Release, IInv, TypeOK
  <2>4. QED
    BY <1>3, <2>1, <2>2, <2>3 DEF RInv, ChecksLeft
<1>4. QED
  BY <1>1, <1>2, <1>3 DEF RInv, ChecksLeft

LEMMA WorkReferences ==
    ASSUME IInv, RInv, NEW r \in Requests, Work(r)
    PROVE  RInv'
<1>1. CASE OverflowItems(r) \/ ForeignKeyFails(r)
  <2>1. Fail(r) /\ orders' = orders
    BY <1>1 DEF OverflowItems, ForeignKeyFails, Fail, tableVars
  <2>2. QED
    BY <2>1, ReleaseReferences
       DEF Fail, Return, Goto, tableVars, RInv, ReferencesIntact, IInv, TypeOK
<1>2. CASE Commit(r)
  <2>1. \A p \in Products : payload[r].want[p] > 0 => p \in catalogue
    BY <1>2, ServiceAssumption DEF Commit, Record, RInv, ChecksLeft, LocksGuarded
  <2>2. \A q \in Requests : orders'[q] # NoOrder => Orderable(orders'[q].payload)
    BY <1>2, <2>1 DEF Commit, Record, Orderable, RInv, ReferencesIntact, IInv, TypeOK
  <2>3. Release(r) /\ UNCHANGED <<catalogue, present, payload>>
    BY <1>2 DEF Commit, Record
  <2>4. /\ pc'[r] \notin {"confirming", "rejecting"}
        /\ \A q \in Requests \ {r} : pc'[q] = pc[q]
    BY <1>2 DEF Commit, Goto, IInv, TypeOK
  <2>5. QED
    BY <2>2, <2>3, <2>4, ReleaseReferences
<1>3. CASE Dispatch(r) \/ Answer(r)
  BY <1>3 DEF Dispatch, Answer, Return, Goto, tableVars, txVars, RInv, ReferencesIntact,
              LocksGuarded, ChecksLeft, Orderable, IInv, TypeOK
<1>4. CASE SelectForUpdate(r)
  BY <1>4 DEF SelectForUpdate, Goto, otherVars, tableVars, RInv, ReferencesIntact,
              LocksGuarded, ChecksLeft, Orderable, IInv, TypeOK
<1>5. ASSUME NEW k \in Rows, SkipRow(r, k)
      PROVE  RInv'
  BY <1>5 DEF SkipRow, otherVars, tableVars, RInv, ReferencesIntact, LocksGuarded, ChecksLeft,
              Orderable
<1>6. ASSUME NEW k \in Rows, LockRow(r, k)
      PROVE  RInv'
  BY <1>6 DEF LockRow, otherVars, tableVars, RInv, ReferencesIntact, LocksGuarded, ChecksLeft,
              Orderable, IInv, TypeOK
<1>7. ASSUME NEW k \in Rows, LockProduct(r, k)
      PROVE  RInv'
  <2>1. RowProduct[k] \in catalogue
    BY <1>7, ServiceAssumption DEF LockProduct, RInv, LocksGuarded, ReferencesIntact
  <2>2. UNCHANGED <<catalogue, present, orders, payload, pc, asked, checked, rowLock>>
    BY <1>7 DEF LockProduct, otherVars, tableVars
  <2>3. ASSUME NEW p \in Products
        PROVE  \/ productLock'[p] = productLock[p]
               \/ p = RowProduct[k] /\ productLock[p] = Free
    <3>1. /\ productLock[RowProduct[k]] = Free
          /\ productLock' = [productLock EXCEPT ![RowProduct[k]] = r]
          /\ productLock \in [Products -> Requests \cup {Free}]
      BY <1>7 DEF LockProduct, IInv, TypeOK
    <3>2. QED
      BY <3>1
  <2>4. ReferencesIntact'
    BY <2>2 DEF RInv, ReferencesIntact, Orderable
  <2>5. LocksGuarded'
    BY <2>1, <2>2, <2>3 DEF RInv, LocksGuarded
  <2>6. \A q \in Requests : \A p \in Products : productLock[p] = q => productLock'[p] = q
    BY <2>3, ServiceAssumption
  <2>7. ChecksLeft'
    BY <2>2, <2>6 DEF RInv, ChecksLeft
  <2>8. QED
    BY <2>4, <2>5, <2>7 DEF RInv
<1>8. ASSUME UNCHANGED <<catalogue, present, orders, payload, rowLock, productLock>>,
             checked'[r] \subseteq catalogue,
             \A q \in Requests \ {r} : UNCHANGED <<pc[q], asked[q], checked[q]>>,
             asked'[r] = NoProduct =>
                \A p \in Products :
                    payload[r].want[p] > 0 => productLock[p] = r \/ p \in checked'[r]
      PROVE  RInv'
  BY <1>8 DEF RInv, ReferencesIntact, LocksGuarded, ChecksLeft, Orderable
<1>9. CASE ConfirmOrder(r) \/ RejectOrder(r)
  <2>1. PICK n \in NextCheck(r, {}) : asked' = [asked EXCEPT ![r] = n]
    BY <1>9 DEF ConfirmOrder, RejectOrder
  <2>2. checked[r] \subseteq catalogue
    BY DEF RInv, LocksGuarded
  <2>3. asked'[r] = NoProduct => \A p \in Products : payload[r].want[p] > 0 => productLock[p] = r
    BY <2>1, NoCheckLeft DEF IInv, TypeOK
  <2>4. UNCHANGED <<catalogue, present, orders, payload, rowLock, productLock, checked>>
    BY <1>9 DEF ConfirmOrder, RejectOrder, otherVars, tableVars
  <2>5. \A q \in Requests \ {r} : UNCHANGED <<pc[q], asked[q]>>
    BY <1>9, <2>1 DEF ConfirmOrder, RejectOrder, Goto, IInv, TypeOK
  <2>6. QED
    BY <1>8, <2>2, <2>3, <2>4, <2>5
<1>10. CASE CheckForeignKey(r)
  <2> DEFINE done == checked[r] \cup {asked[r]}
  <2>1. PICK n \in NextCheck(r, done) : asked' = [asked EXCEPT ![r] = n]
    BY <1>10 DEF CheckForeignKey
  <2>2. checked'[r] = done /\ done \subseteq catalogue
    BY <1>10 DEF CheckForeignKey, RInv, LocksGuarded, IInv, TypeOK
  <2>3. asked'[r] = NoProduct => \A p \in Products :
            payload[r].want[p] > 0 => productLock[p] = r \/ p \in done
    BY <2>1, NoCheckLeft DEF IInv, TypeOK
  <2>4. /\ UNCHANGED <<catalogue, present, orders, payload, rowLock, productLock, pc>>
        /\ \A q \in Requests \ {r} : UNCHANGED <<asked[q], checked[q]>>
    BY <1>10, <2>1 DEF CheckForeignKey, otherVars, tableVars, IInv, TypeOK
  <2>5. QED
    BY <1>8, <2>2, <2>3, <2>4
<1>11. QED
  BY <1>1, <1>2, <1>3, <1>4, <1>5, <1>6, <1>7, <1>9, <1>10 DEF Work

LEMMA OtherReferences ==
    ASSUME IInv, RInv, NEW r \in Requests, Arrive(r) \/ Abort(r) \/ Mishap(r)
    PROVE  RInv'
<1>1. CASE Fail(r)
  BY <1>1, ReleaseReferences
     DEF Fail, Return, Goto, tableVars, RInv, ReferencesIntact, IInv, TypeOK
<1>2. CASE Arrive(r) \/ DispatchFails(r) \/ AnswerFails(r)
  BY <1>2 DEF Arrive, RefuseInvalid, RefuseStore, Receive, DispatchFails, AnswerFails, Return,
              Goto, otherVars, tableVars, txVars, RInv, ReferencesIntact, LocksGuarded,
              ChecksLeft, Orderable, IInv, TypeOK
<1>3. CASE CommitUnacknowledged(r)
  <2>1. \A p \in Products : payload[r].want[p] > 0 => p \in catalogue
    BY <1>3, ServiceAssumption
       DEF CommitUnacknowledged, Record, RInv, ChecksLeft, LocksGuarded
  <2>2. \A q \in Requests : orders'[q] # NoOrder => Orderable(orders'[q].payload)
    BY <1>3, <2>1 DEF CommitUnacknowledged, Record, Orderable, RInv, ReferencesIntact, IInv,
                      TypeOK
  <2>3. Release(r) /\ UNCHANGED <<catalogue, present, payload>>
    BY <1>3 DEF CommitUnacknowledged, Record
  <2>4. /\ pc'[r] \notin {"confirming", "rejecting"}
        /\ \A q \in Requests \ {r} : pc'[q] = pc[q]
    BY <1>3 DEF CommitUnacknowledged, Return, Goto, IInv, TypeOK
  <2>5. QED
    BY <2>2, <2>3, <2>4, ReleaseReferences
<1>4. CASE Crash(r)
  BY <1>4, ReleaseReferences
     DEF Crash, Goto, otherVars, tableVars, RInv, ReferencesIntact, IInv, TypeOK
<1>5. QED
  BY <1>1, <1>2, <1>3, <1>4 DEF Abort, Mishap, MayDisconnect

(* Administrators wait for the locks and are held off by the items.        *)
LEMMA AdministerReferences ==
    ASSUME IInv, RInv, Administer
    PROVE  RInv'
<1>1. ASSUME NEW p \in Products, RemoveProduct(p)
      PROVE  RInv'
  <2>1. UNCHANGED <<orders, payload, pc, asked, checked, rowLock, productLock>>
    BY <1>1 DEF RemoveProduct, txVars
  <2>2. ReferencesIntact'
    <3>1. \A k \in present' : RowProduct[k] \in catalogue'
      BY <1>1 DEF RemoveProduct, RInv, ReferencesIntact
    <3>2. ASSUME NEW r \in Requests, orders[r] # NoOrder
          PROVE  Orderable(orders[r].payload)'
      <4>1. Orderable(orders[r].payload) /\ orders[r].payload.want[p] = 0
        BY <1>1, <3>2 DEF RemoveProduct, RInv, ReferencesIntact
      <4>2. QED
        BY <1>1, <2>1, <4>1 DEF RemoveProduct, Orderable
    <3>3. QED
      BY <2>1, <3>1, <3>2 DEF ReferencesIntact
  <2>3. LocksGuarded'
    BY <1>1, <2>1 DEF RemoveProduct, RInv, LocksGuarded
  <2>4. QED
    BY <2>1, <2>2, <2>3 DEF RInv, ChecksLeft
<1>2. ASSUME NEW k \in Rows, RemoveRow(k)
      PROVE  RInv'
  BY <1>2 DEF RemoveRow, txVars, RInv, ReferencesIntact, LocksGuarded, ChecksLeft, Orderable
<1>3. ASSUME NEW k \in Rows, NEW q \in Restocks, SaveRow(k, q)
      PROVE  RInv'
  BY <1>3 DEF SaveRow, ChangeRow, AddRow, txVars, RInv, ReferencesIntact, LocksGuarded, ChecksLeft,
              Orderable
<1>4. QED
  BY <1>1, <1>2, <1>3 DEF Administer

(* Whatever an administrator deletes while orders are under way, no row of *)
(* the inventory and no item of an order is left without its product.      *)
THEOREM ReferencesStayIntact == Spec => []ReferencesIntact
<1>1. Init => RInv
  BY TablesAssumption, ServiceAssumption
     DEF Init, RInv, ReferencesIntact, LocksGuarded, ChecksLeft
<1>2. IInv /\ RInv /\ [Next]_vars => RInv'
  <2>1. IInv /\ RInv /\ UNCHANGED vars => RInv'
    BY DEF vars, otherVars, tableVars, txVars, RInv, ReferencesIntact, LocksGuarded,
           ChecksLeft, Orderable
  <2>2. QED
    BY <2>1, WorkReferences, OtherReferences, AdministerReferences DEF Next
<1>3. RInv => ReferencesIntact
  BY DEF RInv
<1>4. QED
  BY <1>1, <1>2, <1>3, InductiveInvariant, PTL DEF Spec
=============================================================================

---------------------------- MODULE OrderBookProofs ----------------------------
(***************************************************************************)
(* What holds of OrderService when administrators delete and restock       *)
(* inventory rows but add none: every order is atomic (the service         *)
(* implements OrderBook) and, within a single store, no two requests ever  *)
(* deadlock.  And, whatever they do, what it takes for a deadlock when all *)
(* stores list their products in the same order.                           *)
(***************************************************************************)
EXTENDS OrderServiceProofs

(* Every inventory row there can be exists from the start.                 *)
ClosedInventory == InitRows = Rows

SingleStore == \A s, t \in Stores : s = t

AllIssued == issued = Rows

(* What request r knows and holds at each stage of its transaction.        *)
Disciplined(r) ==
    /\ pc[r] \in InTransaction =>
            RowsFor(present, payload[r]) \subseteq Held(r) \cup targets[r]
    /\ pc[r] \in {"confirming", "rejecting"} => targets[r] = {}
    /\ pc[r] = "rejecting" => ~Covered(Held(r), inventoryMap[r], payload[r])
    /\ pc[r] \in InTransaction \cup {"accepted"} => payload[r].store \in Stores
    /\ \A k \in Rows : rowLock[k] = r => k \in Held(r)
    /\ \A p \in Products : productLock[p] = r => \E k \in Held(r) : RowProduct[k] = p
    /\ \A p \in checked[r] :
            payload[r].want[p] > 0 /\ pc[r] \in {"confirming", "rejecting"}
    /\ asked[r] \in Products => payload[r].want[asked[r]] > 0
    /\ \A j \in Held(r) : \A k \in targets[r] : j <= k

Discipline == AllIssued /\ \A r \in Requests : Disciplined(r)
-----------------------------------------------------------------------------
(* Discipline is inductive.                                                *)

(* What Disciplined(q) reads of the state, seen from a step of another     *)
(* request.                                                                *)
Unmoved(q) ==
    /\ UNCHANGED <<present, issued, payload[q], pc[q], targets[q], inventoryMap[q],
                   asked[q], checked[q]>>
    /\ \A k \in Rows : rowLock'[k] = q => rowLock[k] = q
    /\ \A p \in Products : productLock'[p] = q => productLock[p] = q

LEMMA UnmovedDisciplined ==
    ASSUME NEW q \in Requests, Disciplined(q), Unmoved(q)
    PROVE  Disciplined(q)'
<1>1. Held(q)' = Held(q)
  BY DEF Unmoved, Held
<1>2. RowsFor(present, payload[q])' = RowsFor(present, payload[q])
  BY DEF Unmoved, RowsFor
<1>3. Covered(Held(q), inventoryMap[q], payload[q])'
            <=> Covered(Held(q), inventoryMap[q], payload[q])
  BY <1>1 DEF Unmoved, Covered
<1>4. QED
  BY <1>1, <1>2, <1>3 DEF Disciplined, Unmoved

(* A step of one request does not move the others.                         *)
LEMMA OthersUnmoved ==
    ASSUME TypeOK, NEW r \in Requests,
           Arrive(r) \/ Work(r) \/ Abort(r) \/ Mishap(r),
           NEW q \in Requests \ {r}
    PROVE  Unmoved(q)
<1>1. UNCHANGED <<payload[q], pc[q]>>
  BY OthersUntouched
<1>2. ASSUME Release(r), UNCHANGED <<present, issued>>
      PROVE  Unmoved(q)
  BY <1>1, <1>2, ServiceAssumption DEF Release, Unmoved, TypeOK
<1>3. ASSUME UNCHANGED txVars, UNCHANGED <<present, issued>>
      PROVE  Unmoved(q)
  BY <1>1, <1>3 DEF txVars, Unmoved
<1>4. CASE Fail(r) \/ Commit(r) \/ CommitUnacknowledged(r) \/ Crash(r)
  BY <1>2, <1>4 DEF Fail, Commit, CommitUnacknowledged, Crash, Record, otherVars, tableVars
<1>5. CASE Arrive(r) \/ Dispatch(r) \/ DispatchFails(r) \/ Answer(r) \/ AnswerFails(r)
  BY <1>3, <1>5 DEF Arrive, RefuseInvalid, RefuseStore, Receive, Dispatch, DispatchFails,
                    Answer, AnswerFails, otherVars, tableVars
<1>6. CASE SelectForUpdate(r) \/ ConfirmOrder(r) \/ RejectOrder(r) \/ CheckForeignKey(r)
  BY <1>1, <1>6 DEF SelectForUpdate, ConfirmOrder, RejectOrder, CheckForeignKey, Unmoved,
                    otherVars, tableVars, TypeOK
<1>7. ASSUME NEW k \in Rows, SkipRow(r, k) \/ LockRow(r, k) \/ LockProduct(r, k)
      PROVE  Unmoved(q)
  BY <1>1, <1>7 DEF SkipRow, LockRow, LockProduct, Unmoved, otherVars, tableVars, TypeOK
<1>8. QED
  BY <1>4, <1>5, <1>6, <1>7 DEF Work, Mishap, Abort, MayDisconnect, OverflowItems,
                               ForeignKeyFails

(* Once its locks are gone a request has nothing left to be held to.       *)
LEMMA ReleaseDisciplined ==
    ASSUME IInv, NEW r \in Requests, Release(r),
           pc'[r] \notin InTransaction \cup {"accepted"}
    PROVE  Disciplined(r)'
<1>1. /\ Held(r)' = {} /\ targets'[r] = {} /\ checked'[r] = {} /\ asked'[r] = NoProduct
      /\ \A k \in Rows : rowLock'[k] # r
      /\ \A p \in Products : productLock'[p] # r
  BY ServiceAssumption DEF Release, Held, EmptyMap, IInv, TypeOK
<1>2. QED
  BY <1>1, ServiceAssumption DEF Disciplined, InTransaction

(* The products a foreign key check still has to look at are ordered.      *)
LEMMA NextCheckWanted ==
    ASSUME NEW r, NEW done, NEW p \in NextCheck(r, done), p # NoProduct
    PROVE  payload[r].want[p] > 0
BY DEF NextCheck

(* Reading one more row.                                                   *)
LEMMA LockRowDisciplined ==
    ASSUME IInv, NEW r \in Requests, Disciplined(r), NEW k \in Rows, LockRow(r, k)
    PROVE  Disciplined(r)'
<1>1. /\ pc[r] = "locking" /\ pc' = pc /\ targets' = targets /\ checked' = checked
      /\ asked' = asked /\ payload' = payload /\ present' = present
      /\ productLock' = productLock /\ rowLock' = [rowLock EXCEPT ![k] = r]
      /\ k \in targets[r] /\ \A j \in targets[r] : k <= j
  BY DEF LockRow, IsNext, otherVars, tableVars
<1>2. Held(r)' = Held(r) \cup {k}
  BY DEF LockRow, IInv, TypeOK, Held
<1>3. RowsFor(present, payload[r])' = RowsFor(present, payload[r])
  BY <1>1 DEF RowsFor
<1>4. \A j \in Rows : rowLock'[j] = r => j \in Held(r)'
  BY <1>1, <1>2 DEF Disciplined, IInv, TypeOK
<1>5. QED
  BY <1>1, <1>2, <1>3, <1>4 DEF Disciplined

(* Locking the product of the row read last.                               *)
LEMMA LockProductDisciplined ==
    ASSUME IInv, NEW r \in Requests, Disciplined(r), NEW k \in Rows, LockProduct(r, k)
    PROVE  Disciplined(r)'
<1>1. /\ pc[r] = "locking" /\ pc' = pc /\ checked' = checked /\ asked' = asked
      /\ payload' = payload /\ present' = present /\ rowLock' = rowLock
      /\ inventoryMap' = inventoryMap /\ rowLock[k] = r
      /\ productLock' = [productLock EXCEPT ![RowProduct[k]] = r]
      /\ targets' = [targets EXCEPT ![r] = @ \ {k}]
  BY DEF LockProduct, otherVars, tableVars
<1>2. Held(r)' = Held(r) /\ k \in Held(r)
  BY <1>1 DEF Held, Disciplined
<1>3. RowsFor(present, payload[r])' = RowsFor(present, payload[r])
  BY <1>1 DEF RowsFor
<1>4. targets'[r] = targets[r] \ {k}
  BY <1>1 DEF IInv, TypeOK
<1>5. \A p \in Products : productLock'[p] = r => \E j \in Held(r)' : RowProduct[j] = p
  BY <1>1, <1>2 DEF Disciplined, IInv, TypeOK
<1>6. QED
  BY <1>1, <1>2, <1>3, <1>4, <1>5 DEF Disciplined

LEMMA OwnStepDisciplined ==
    ASSUME IInv, NEW r \in Requests, Disciplined(r), Arrive(r) \/ Work(r)
    PROVE  Disciplined(r)'
<1>1. ASSUME UNCHANGED <<present, payload, txVars>>,
             NEW label \in PC \ InTransaction, Goto(r, label),
             label = "accepted" => payload[r].store \in Stores,
             pc[r] \notin InTransaction
      PROVE  Disciplined(r)'
  <2>1. pc'[r] = label
    BY <1>1 DEF Goto, IInv, TypeOK
  <2>2. Held(r)' = Held(r)
    BY <1>1 DEF Held, txVars
  <2>3. UNCHANGED <<payload, targets, asked, checked, rowLock, productLock>>
    BY <1>1 DEF txVars
  <2>4. pc[r] \notin {"confirming", "rejecting"} /\ pc'[r] \notin InTransaction
    BY <1>1, <2>1 DEF InTransaction
  <2>5. QED
    BY <1>1, <2>1, <2>2, <2>3, <2>4 DEF Disciplined, InTransaction
<1>2. CASE Arrive(r)
  BY <1>1, <1>2 DEF Arrive, RefuseInvalid, RefuseStore, Receive, Return, PC, InTransaction,
                    otherVars, tableVars
<1>3. CASE Dispatch(r) \/ Answer(r)
  BY <1>1, <1>3 DEF Dispatch, Answer, Return, PC, InTransaction, tableVars
<1>4. CASE SelectForUpdate(r)
  <2>1. Held(r) = {}
    BY <1>4 DEF SelectForUpdate, IInv, MapsGuarded, InTransaction
  <2>2. /\ pc[r] = "accepted" /\ pc'[r] = "locking"
        /\ targets'[r] = RowsFor(present, payload[r])
        /\ UNCHANGED <<present, payload, inventoryMap, asked, checked, rowLock, productLock>>
    BY <1>4 DEF SelectForUpdate, Goto, otherVars, tableVars, IInv, TypeOK
  <2>3. Held(r)' = {}
    BY <2>1, <2>2 DEF Held
  <2>4. RowsFor(present, payload[r])' = RowsFor(present, payload[r])
    BY <2>2 DEF RowsFor
  <2>5. QED
    BY <2>1, <2>2, <2>3, <2>4 DEF Disciplined, InTransaction
<1>5. ASSUME NEW k \in Rows, SkipRow(r, k)
      PROVE  Disciplined(r)'
  <2>1. /\ k \notin present /\ pc[r] = "locking" /\ targets'[r] = targets[r] \ {k}
        /\ UNCHANGED <<present, payload, pc, inventoryMap, asked, checked, rowLock, productLock>>
    BY <1>5 DEF SkipRow, otherVars, tableVars, IInv, TypeOK
  <2>2. Held(r)' = Held(r)
    BY <2>1 DEF Held
  <2>3. RowsFor(present, payload[r])' \subseteq RowsFor(present, payload[r]) \ {k}
    BY <2>1 DEF RowsFor
  <2>4. QED
    BY <2>1, <2>2, <2>3 DEF Disciplined
<1>6. CASE ConfirmOrder(r) \/ RejectOrder(r)
  <2>1. /\ pc[r] = "locking" /\ targets[r] = {} /\ targets' = targets
        /\ pc'[r] \in {"confirming", "rejecting"}
        /\ pc'[r] = "rejecting" => ~Covered(Held(r), inventoryMap[r], payload[r])
        /\ UNCHANGED <<present, payload, inventoryMap, checked, rowLock, productLock>>
    BY <1>6 DEF ConfirmOrder, RejectOrder, Goto, otherVars, tableVars, IInv, TypeOK
  <2>2. Held(r)' = Held(r)
    BY <2>1 DEF Held
  <2>3. /\ RowsFor(present, payload[r])' = RowsFor(present, payload[r])
        /\ Covered(Held(r), inventoryMap[r], payload[r])'
                <=> Covered(Held(r), inventoryMap[r], payload[r])
    BY <2>1, <2>2 DEF RowsFor, Covered
  <2>4. asked'[r] \in Products => payload[r].want[asked'[r]] > 0
    <3>1. PICK p \in NextCheck(r, {}) : asked' = [asked EXCEPT ![r] = p]
      BY <1>6 DEF ConfirmOrder, RejectOrder
    <3>2. asked'[r] = p
      BY <3>1 DEF IInv, TypeOK
    <3>3. QED
      BY <3>2, NextCheckWanted, ServiceAssumption
  <2>5. QED
    BY <2>1, <2>2, <2>3, <2>4 DEF Disciplined, InTransaction
<1>7. CASE CheckForeignKey(r)
  <2>1. /\ pc[r] \in {"confirming", "rejecting"} /\ asked[r] \in Products
        /\ checked'[r] = checked[r] \cup {asked[r]}
        /\ UNCHANGED <<present, payload, pc, targets, inventoryMap, rowLock, productLock>>
    BY <1>7 DEF CheckForeignKey, otherVars, tableVars, IInv, TypeOK
  <2>2. Held(r)' = Held(r)
    BY <2>1 DEF Held
  <2>3. /\ RowsFor(present, payload[r])' = RowsFor(present, payload[r])
        /\ Covered(Held(r), inventoryMap[r], payload[r])'
                <=> Covered(Held(r), inventoryMap[r], payload[r])
    BY <2>1, <2>2 DEF RowsFor, Covered
  <2>4. asked'[r] \in Products => payload[r].want[asked'[r]] > 0
    <3>1. PICK p \in NextCheck(r, checked[r] \cup {asked[r]}) : asked' = [asked EXCEPT ![r] = p]
      BY <1>7 DEF CheckForeignKey
    <3>2. asked'[r] = p
      BY <3>1 DEF IInv, TypeOK
    <3>3. QED
      BY <3>2, NextCheckWanted, ServiceAssumption
  <2>5. QED
    BY <2>1, <2>2, <2>3, <2>4 DEF Disciplined
<1>8. CASE OverflowItems(r) \/ ForeignKeyFails(r) \/ Commit(r)
  BY <1>8, ReleaseDisciplined DEF OverflowItems, ForeignKeyFails, Fail, Commit, Return, Goto,
                                  InTransaction,
                                  IInv, TypeOK
<1>9. QED
  BY <1>2, <1>3, <1>4, <1>5, <1>6, <1>7, <1>8, LockRowDisciplined, LockProductDisciplined
     DEF Work

LEMMA MishapDisciplined ==
    ASSUME IInv, NEW r \in Requests, Disciplined(r), Mishap(r) \/ Abort(r)
    PROVE  Disciplined(r)'
<1>1. CASE CommitUnacknowledged(r) \/ Fail(r) \/ Crash(r)
  BY <1>1, ReleaseDisciplined DEF CommitUnacknowledged, Fail, Crash, Return, Goto,
                                  InTransaction, IInv, TypeOK
<1>2. CASE DispatchFails(r) \/ AnswerFails(r)
  <2>1. /\ pc[r] \notin InTransaction
        /\ pc'[r] \notin InTransaction \cup {"accepted"}
        /\ UNCHANGED <<present, payload, targets, inventoryMap, asked, checked, rowLock, productLock>>
    BY <1>2 DEF DispatchFails, AnswerFails, Return, Goto, InTransaction, tableVars, txVars,
                IInv, TypeOK
  <2>2. Held(r)' = Held(r)
    BY <2>1 DEF Held
  <2>3. QED
    BY <2>1, <2>2 DEF Disciplined, InTransaction
<1>3. QED
  BY <1>1, <1>2 DEF Mishap, Abort, MayDisconnect

LEMMA DisciplineStep == ClosedInventory /\ IInv /\ Discipline /\ [Next]_vars => Discipline'
<1> SUFFICES ASSUME ClosedInventory, IInv, Discipline, [Next]_vars PROVE Discipline'
  OBVIOUS
<1>1. ASSUME NEW r \in Requests, Arrive(r) \/ Work(r) \/ Abort(r) \/ Mishap(r)
      PROVE  Discipline'
  <2>1. Disciplined(r)'
    BY <1>1, OwnStepDisciplined, MishapDisciplined DEF Discipline
  <2>2. \A q \in Requests \ {r} : Unmoved(q)
    BY <1>1, OthersUnmoved DEF IInv
  <2>3. \A q \in Requests \ {r} : Disciplined(q)'
    BY <2>2, UnmovedDisciplined DEF Discipline
  <2>4. issued' = issued
    BY <1>1 DEF Arrive, RefuseInvalid, RefuseStore, Receive, Work, SelectForUpdate, SkipRow,
                LockRow, LockProduct, ConfirmOrder, RejectOrder, OverflowItems,
                CheckForeignKey, ForeignKeyFails, Commit, Record, Dispatch, Answer, Abort, Mishap,
                CommitUnacknowledged, DispatchFails, AnswerFails, MayDisconnect, Crash,
                Fail, otherVars, tableVars
  <2>5. QED
    BY <2>1, <2>3, <2>4 DEF Discipline, AllIssued
<1>2. ASSUME UNCHANGED <<issued, payload, pc, txVars>>, present' \subseteq present
      PROVE  Discipline'
  <2>1. ASSUME NEW r \in Requests
        PROVE  Disciplined(r)'
    <3>1. Held(r)' = Held(r)
      BY <1>2 DEF Held, txVars
    <3>2. RowsFor(present, payload[r])' \subseteq RowsFor(present, payload[r])
      BY <1>2 DEF RowsFor
    <3>3. Covered(Held(r), inventoryMap[r], payload[r])'
                <=> Covered(Held(r), inventoryMap[r], payload[r])
      BY <1>2, <3>1 DEF Covered, txVars
    <3>4. QED
      BY <1>2, <3>1, <3>2, <3>3 DEF Disciplined, Discipline, txVars
  <2>2. QED
    BY <1>2, <2>1 DEF Discipline, AllIssued
<1>3. ASSUME NEW k \in Rows, NEW q \in Restocks, SaveRow(k, q), AddRow(k)
      PROVE  FALSE
  BY <1>3, TablesAssumption DEF SaveRow, AddRow, Discipline, AllIssued
<1>4. CASE Administer \/ UNCHANGED vars
  BY <1>2, <1>3, <1>4 DEF Administer, RemoveRow, RemoveProduct, SaveRow, ChangeRow, vars,
                          otherVars, tableVars
<1>5. QED
  BY <1>1, <1>4 DEF Next

THEOREM DisciplineInvariant == ASSUME ClosedInventory PROVE Spec => []Discipline
<1>1. Init => Discipline
  BY ServiceAssumption DEF Init, Discipline, AllIssued, ClosedInventory, Disciplined, Held,
                           EmptyMap, InTransaction
<1>2. QED
  BY <1>1, DisciplineStep, InductiveInvariant, PTL DEF Spec

-----------------------------------------------------------------------------
(* Isolation.                                                              *)

(* The rows of the store an order wants are exactly the ones it has locked *)
(* by the time it is decided.                                              *)
LEMMA DecidedOnAll ==
    ASSUME IInv, Discipline, NEW r \in Requests, pc[r] \in {"confirming", "rejecting"}
    PROVE  /\ RowsFor(Held(r), payload[r]) = RowsFor(present, payload[r])
           /\ \A k \in RowsFor(present, payload[r]) :
                k \in Held(r) /\ inventoryMap[r][k] = quantity[k]
<1>1. RowsFor(present, payload[r]) \subseteq Held(r)
  BY DEF Discipline, Disciplined, InTransaction
<1>2. Held(r) \subseteq present
  BY DEF IInv, MapsGuarded
<1>3. QED
  BY <1>1, <1>2 DEF RowsFor, IInv, MapsGuarded

(* A rejected order could not have been served when it was rejected.       *)
THEOREM RejectionsAreSound == ASSUME ClosedInventory PROVE Spec => []RejectionsHold
<1>1. IInv /\ Discipline => RejectionsHold
  <2> SUFFICES ASSUME IInv, Discipline, NEW r \in Requests, pc[r] = "rejecting",
                      Covered(present, quantity, payload[r])
               PROVE  FALSE
    BY DEF RejectionsHold
  <2>1. ~Covered(Held(r), inventoryMap[r], payload[r])
    BY DEF Discipline, Disciplined
  <2>2. PICK p \in Products :
            /\ payload[r].want[p] > 0
            /\ ~\E k \in Held(r) : /\ RowStore[k] = payload[r].store
                                   /\ RowProduct[k] = p
                                   /\ inventoryMap[r][k] >= payload[r].want[p]
    BY <2>1 DEF Covered
  <2>3. PICK k \in present : /\ RowStore[k] = payload[r].store
                             /\ RowProduct[k] = p
                             /\ quantity[k] >= payload[r].want[p]
    BY <2>2 DEF Covered
  <2>4. k \in RowsFor(present, payload[r])
    BY <2>2, <2>3 DEF RowsFor
  <2>5. QED
    BY <2>2, <2>3, <2>4, DecidedOnAll
<1>2. QED
  BY <1>1, InductiveInvariant, DisciplineInvariant, PTL

(* Every commit is one step of OrderBook, every other step of a request is *)
(* none: concurrent orders behave as if each had been placed at once.      *)
THEOREM OrdersAreAtomic == ASSUME ClosedInventory PROVE Spec => ImplementsBook
<1>1. Init => Book!BookInit
  BY DEF Init, Book!BookInit
<1>2. /\ IInv /\ Discipline /\ Stages /\ ConfirmationsHold /\ RejectionsHold
      /\ [Next]_vars
      => [Book!BookNext]_(Book!bookVars)
  <2> SUFFICES ASSUME IInv, Discipline, Stages, ConfirmationsHold, RejectionsHold, [Next]_vars
               PROVE  [Book!BookNext]_(Book!bookVars)
    OBVIOUS
  <2>1. CASE UNCHANGED tableVars
    BY <2>1 DEF tableVars, Book!bookVars
  <2>2. ASSUME NEW r \in Requests, Record(r)
        PROVE  Book!BookNext
    <3>1. /\ payload[r] \in Payloads
          /\ payload[r].store \in Stores
          /\ orders[r] = NoOrder
      BY <2>2 DEF Record, Discipline, Disciplined, Stages, InTransaction, IInv, TypeOK
    <3>2. CASE pc[r] = "confirming"
      <4>1. Book!Covered(present, quantity, payload[r])
        BY <3>2 DEF ConfirmationsHold, Covered, Book!Covered
      <4>2. /\ RowsFor(Held(r), payload[r]) = Book!RowsFor(present, payload[r])
            /\ \A k \in RowsFor(Held(r), payload[r]) :
                Remaining(k, inventoryMap[r], payload[r])
                    = Book!Remaining(k, quantity, payload[r])
        BY <3>2, DecidedOnAll DEF RowsFor, Remaining, Book!RowsFor, Book!Remaining
      <4>3. quantity' = [k \in Rows |-> IF k \in Book!RowsFor(present, payload[r])
                                          THEN Book!Remaining(k, quantity, payload[r])
                                          ELSE quantity[k]]
        BY <2>2, <3>2, <4>2 DEF Record
      <4>4. Book!Confirm(r, payload[r])
        BY <2>2, <3>1, <3>2, <4>1, <4>3 DEF Record, Book!Confirm
      <4>5. QED
        BY <3>1, <4>4 DEF Book!BookNext
    <3>3. CASE pc[r] = "rejecting"
      <4>1. ~Book!Covered(present, quantity, payload[r])
        BY <3>3 DEF RejectionsHold, Covered, Book!Covered
      <4>2. Book!Reject(r, payload[r])
        BY <2>2, <3>1, <3>3, <4>1 DEF Record, Book!Reject
      <4>3. QED
        BY <3>1, <4>2 DEF Book!BookNext
    <3>4. QED
      BY <2>2, <3>2, <3>3 DEF Record
  <2>3. ASSUME NEW r \in Requests, Arrive(r) \/ Work(r) \/ Abort(r) \/ Mishap(r)
        PROVE  Record(r) \/ UNCHANGED tableVars
    BY <2>3 DEF Arrive, RefuseInvalid, RefuseStore, Receive, Work, SelectForUpdate, SkipRow,
                LockRow, LockProduct, ConfirmOrder, RejectOrder, OverflowItems,
                CheckForeignKey, ForeignKeyFails, Commit, Dispatch, Answer, Abort, Mishap,
                CommitUnacknowledged, DispatchFails, AnswerFails, MayDisconnect, Crash,
                Fail, otherVars
  <2>4. ASSUME NEW k \in Rows, RemoveRow(k)
        PROVE  Book!BookNext
    BY <2>4 DEF RemoveRow, Book!BookNext, Book!DeleteRow
  <2>5. ASSUME NEW k \in Rows, NEW q \in Restocks, SaveRow(k, q), ChangeRow(k)
        PROVE  Book!BookNext
    BY <2>5 DEF SaveRow, ChangeRow, Book!BookNext, Book!SetQuantity
  <2>6. ASSUME NEW k \in Rows, NEW q \in Restocks, SaveRow(k, q), AddRow(k)
        PROVE  FALSE
    BY <2>6, TablesAssumption DEF SaveRow, AddRow, Discipline, AllIssued
  <2>7. CASE UNCHANGED vars
    BY <2>1, <2>7 DEF vars, otherVars
  <2>8. ASSUME NEW p \in Products, RemoveProduct(p)
        PROVE  Book!BookNext
    BY <2>8 DEF RemoveProduct, Book!BookNext, Book!DeleteProduct
  <2>9. QED
    BY <2>1, <2>2, <2>3, <2>4, <2>5, <2>6, <2>7, <2>8 DEF Next, Administer, SaveRow
<1>3. QED
  BY <1>1, <1>2, InductiveInvariant, DisciplineInvariant, StagesInvariant,
     ConfirmationsAreSound, RejectionsAreSound, PTL
     DEF Spec, ImplementsBook, Book!BookSpec

-----------------------------------------------------------------------------
(* Deadlock.                                                               *)

(* In a single store a request only ever waits for the next inventory row  *)
(* of its SELECT: whoever holds the row holds its product too, and nobody  *)
(* else has a foreign key check to make on it.                             *)
LEMMA WaitsForRow ==
    ASSUME SingleStore, IInv, Discipline,
           NEW r \in Requests, NEW q \in BlockedBy(r)
    PROVE  \E k \in Rows : IsNext(r, k) /\ rowLock[k] = q /\ q # r
<1>1. q \in Requests /\ q # r
  BY DEF BlockedBy
<1>2. ASSUME NEW x \in Requests, pc[x] \in InTransaction, NEW k \in present,
             payload[x].want[RowProduct[k]] > 0
      PROVE  k \in RowsFor(present, payload[x])
  <2>1. payload[x].store \in Stores /\ k \in Rows
    BY <1>2 DEF Discipline, Disciplined, IInv, TypeOK
  <2>2. RowStore[k] \in Stores
    BY <2>1, TablesAssumption
  <2>3. QED
    BY <1>2, <2>1, <2>2 DEF RowsFor, SingleStore
<1>3. ASSUME NEW p \in Products, productLock[p] = q,
             pc[r] \in InTransaction, payload[r].want[p] > 0
      PROVE  \E j \in RowsFor(present, payload[r]) : rowLock[j] = q /\ RowProduct[j] = p
  <2>1. PICK j \in Held(q) : RowProduct[j] = p
    BY <1>1, <1>3 DEF Discipline, Disciplined
  <2>2. j \in present /\ rowLock[j] = q
    BY <1>1, <2>1 DEF IInv, MapsGuarded
  <2>3. QED
    BY <1>2, <1>3, <2>1, <2>2
<1>4. ~(/\ pc[r] \in {"confirming", "rejecting"}
        /\ asked[r] \in Products
        /\ productLock[asked[r]] = q)
  <2> SUFFICES ASSUME pc[r] \in {"confirming", "rejecting"}, asked[r] \in Products,
                      productLock[asked[r]] = q
               PROVE  FALSE
    OBVIOUS
  <2>1. payload[r].want[asked[r]] > 0
    BY DEF Discipline, Disciplined
  <2>2. PICK j \in RowsFor(present, payload[r]) : rowLock[j] = q
    BY <1>3, <2>1 DEF InTransaction
  <2>3. rowLock[j] = r
    BY <2>2, DecidedOnAll DEF IInv, MapsGuarded
  <2>4. QED
    BY <1>1, <2>2, <2>3
<1>5. ASSUME NEW k \in Rows, IsNext(r, k), rowLock[k] = r, pc[r] = "locking"
      PROVE  productLock[RowProduct[k]] # q /\ RowProduct[k] \notin checked[q]
  <2>1. k \in Held(r)
    BY <1>5 DEF Discipline, Disciplined
  <2>2. k \in present
    BY <2>1 DEF IInv, MapsGuarded
  <2>3. RowProduct[k] \in Products
    BY <1>5, TablesAssumption
  <2>4. ASSUME productLock[RowProduct[k]] = q
        PROVE  FALSE
    <3>1. PICK j \in Held(q) : RowProduct[j] = RowProduct[k]
      BY <1>1, <2>3, <2>4 DEF Discipline, Disciplined
    <3>2. j \in present /\ rowLock[j] = q
      BY <1>1, <3>1 DEF IInv, MapsGuarded
    <3>3. RowStore[j] \in Stores /\ RowStore[k] \in Stores
      BY <1>5, <3>2, TablesAssumption DEF IInv, TypeOK
    <3>4. j = k
      BY <2>2, <3>1, <3>2, <3>3 DEF IInv, UniqueRows, SameKey, SingleStore
    <3>5. QED
      BY <1>1, <1>5, <3>2, <3>4
  <2>5. ASSUME RowProduct[k] \in checked[q]
        PROVE  FALSE
    <3>1. payload[q].want[RowProduct[k]] > 0 /\ pc[q] \in {"confirming", "rejecting"}
      BY <1>1, <2>5 DEF Discipline, Disciplined
    <3>2. k \in RowsFor(present, payload[q])
      BY <1>1, <1>2, <2>2, <3>1 DEF InTransaction
    <3>3. rowLock[k] = q
      BY <1>1, <3>1, <3>2, DecidedOnAll DEF IInv, MapsGuarded
    <3>4. QED
      BY <1>1, <1>5, <3>3
  <2>6. QED
    BY <2>4, <2>5
<1>6. QED
  BY <1>1, <1>4, <1>5 DEF BlockedBy

(* Within one store the row ids order all waiting: whoever waits for row k *)
(* has only smaller rows, so following the waits the ids grow and can      *)
(* never lead back.                                                        *)
THEOREM OneStoreNeverDeadlocks ==
    ASSUME ClosedInventory, SingleStore PROVE Spec => []NoDeadlock
<1>1. IInv /\ Discipline => NoDeadlock
  <2> SUFFICES ASSUME IInv, Discipline, NEW r \in Requests, OnCycle(r)
               PROVE  FALSE
    BY DEF NoDeadlock
  <2>1. PICK q \in BlockedBy(r) : TRUE
    <3> SUFFICES ASSUME BlockedBy(r) = {} PROVE FALSE
      OBVIOUS
    <3>1. {} \in SUBSET Requests
      OBVIOUS
    <3>2. r \in {}
      BY <3>1 DEF OnCycle
    <3>3. QED
      BY <3>2
  <2>2. PICK k \in Rows : IsNext(r, k) /\ rowLock[k] # r
    BY <2>1, WaitsForRow
  <2> DEFINE Beyond == {x \in Requests :
                        \A j \in Rows : IsNext(x, j) /\ rowLock[j] # x => k < j}
  <2>3. ASSUME NEW x \in Requests, NEW y \in BlockedBy(x), NEW i \in Rows, IsNext(x, i),
               rowLock[i] # x, k <= i
        PROVE  y \in Beyond
    <3>1. y \in Requests
      BY DEF BlockedBy
    <3>2. rowLock[i] = y
      <4>1. PICK n \in Rows : IsNext(x, n) /\ rowLock[n] = y
        BY <2>3, WaitsForRow
      <4>2. n \in Nat /\ i \in Nat
        BY TablesAssumption
      <4>3. n = i
        BY <2>3, <4>1, <4>2 DEF IsNext
      <4>4. QED
        BY <4>1, <4>3
    <3>3. i \in Held(y)
      BY <3>1, <3>2 DEF Discipline, Disciplined
    <3>4. ASSUME NEW j \in Rows, IsNext(y, j), rowLock[j] # y
          PROVE  k < j
      <4>1. i <= j /\ i # j
        BY <3>1, <3>2, <3>3, <3>4 DEF Discipline, Disciplined, IsNext
      <4>2. i \in Nat /\ j \in Nat /\ k \in Nat
        BY TablesAssumption
      <4>3. QED
        BY <2>3, <4>1, <4>2
    <3>5. QED
      BY <3>1, <3>4
  <2>4. BlockedBy(r) \subseteq Beyond
    <3>1. k <= k
      BY TablesAssumption
    <3>2. QED
      BY <2>2, <2>3, <3>1
  <2>5. \A x \in Beyond : BlockedBy(x) \subseteq Beyond
    <3> SUFFICES ASSUME NEW x \in Beyond, NEW y \in BlockedBy(x)
                 PROVE  y \in Beyond
      OBVIOUS
    <3>1. PICK i \in Rows : IsNext(x, i) /\ rowLock[i] # x
      BY WaitsForRow
    <3>2. k <= i
      BY <3>1, TablesAssumption
    <3>3. QED
      BY <2>3, <3>1, <3>2
  <2>6. r \notin Beyond
    BY <2>2, TablesAssumption
  <2>7. QED
    BY <2>4, <2>5, <2>6 DEF OnCycle
<1>2. QED
  BY <1>1, InductiveInvariant, DisciplineInvariant, PTL

-----------------------------------------------------------------------------
(* Deadlock across stores, rows added or not.                              *)

(* The stores list their products in the same order of ids.                *)
Aligned ==
    \E place \in [Products -> Nat] : \A j, k \in Rows :
        RowStore[j] = RowStore[k] /\ j < k /\ RowProduct[j] # RowProduct[k] =>
            place[RowProduct[j]] < place[RowProduct[k]]

(* Request r takes the rows of its snapshot one by one, each with its      *)
(* product, and a confirmed order has no foreign key left to check.        *)
InOrder(r) ==
    /\ \A k \in Held(r) \cup targets[r] : RowStore[k] = payload[r].store
    /\ \A j, k \in Held(r) \cup targets[r] : SameKey(j, k) => j = k
    /\ \A j \in Held(r), k \in targets[r] : j <= k
    /\ \A k \in Held(r) \ targets[r] : productLock[RowProduct[k]] = r
    /\ \A p \in Products :
            productLock[p] = r => \E k \in Held(r) \ targets[r] : RowProduct[k] = p
    /\ \A k \in Rows : rowLock[k] = r => k \in Held(r)
    /\ checked[r] # {} => pc[r] \in {"confirming", "rejecting"}
    /\ pc[r] # "locking" => targets[r] = {}
    /\ pc[r] = "confirming" => asked[r] = NoProduct

AllInOrder == \A r \in Requests : InOrder(r)

LEMMA SameInOrder ==
    ASSUME NEW q \in Requests, InOrder(q),
           UNCHANGED <<payload[q], pc[q], targets[q], inventoryMap[q], asked[q], checked[q]>>,
           \A k \in Rows : rowLock'[k] = q => rowLock[k] = q,
           \A p \in Products : productLock'[p] = q <=> productLock[p] = q,
           Held(q) \subseteq Rows
    PROVE  InOrder(q)'
<1>1. Held(q)' = Held(q)
  BY DEF Held
<1>2. \A k \in Held(q) : RowProduct[k] \in Products
  BY TablesAssumption
<1>3. QED
  BY <1>1, <1>2 DEF InOrder, SameKey

(* A step of one request neither takes nor gives the product locks of      *)
(* another.                                                                *)
LEMMA OthersLocks ==
    ASSUME TypeOK, NEW r \in Requests,
           Arrive(r) \/ Work(r) \/ Abort(r) \/ Mishap(r),
           NEW q \in Requests \ {r}, NEW p \in Products
    PROVE  productLock'[p] = q <=> productLock[p] = q
<1>1. CASE Release(r)
  BY <1>1, ServiceAssumption DEF Release, TypeOK
<1>2. ASSUME NEW k \in Rows, LockProduct(r, k) PROVE productLock'[p] = q <=> productLock[p] = q
  BY <1>2, ServiceAssumption DEF LockProduct, TypeOK
<1>3. CASE UNCHANGED productLock
  BY <1>3
<1>4. QED
  BY <1>1, <1>2, <1>3
     DEF Arrive, RefuseInvalid, RefuseStore, Receive, Work, SelectForUpdate, SkipRow, LockRow,
         ConfirmOrder, RejectOrder, OverflowItems, CheckForeignKey, ForeignKeyFails, Commit,
         Dispatch, Answer, Abort, Mishap, CommitUnacknowledged, DispatchFails, AnswerFails,
         Crash, Fail, txVars

LEMMA HeldRows == ASSUME TypeOK, NEW r \in Requests PROVE Held(r) \subseteq Rows
<1>1. inventoryMap[r] \in InventoryMap
  BY DEF TypeOK
<1>2. QED
  BY <1>1 DEF InventoryMap, Held

LEMMA ReleaseInOrder ==
    ASSUME IInv, NEW r \in Requests, Release(r), pc'[r] # "confirming"
    PROVE  InOrder(r)'
<1>1. /\ Held(r)' = {} /\ targets'[r] = {} /\ checked'[r] = {}
      /\ \A k \in Rows : rowLock'[k] # r
      /\ \A p \in Products : productLock'[p] # r
  BY ServiceAssumption DEF Release, Held, EmptyMap, IInv, TypeOK
<1>2. QED
  BY <1>1 DEF InOrder

(* The snapshot has one row for each product of the order.                 *)
LEMMA SelectInOrder ==
    ASSUME IInv, NEW r \in Requests, InOrder(r), SelectForUpdate(r)
    PROVE  InOrder(r)'
<1>1. /\ pc[r] = "accepted" /\ pc'[r] = "locking"
      /\ targets'[r] = RowsFor(present, payload[r])
      /\ UNCHANGED <<present, payload, inventoryMap, asked, checked, rowLock, productLock>>
  BY DEF SelectForUpdate, Goto, otherVars, tableVars, IInv, TypeOK
<1>2. Held(r) = {}
  BY <1>1 DEF IInv, MapsGuarded, InTransaction
<1>3. Held(r)' = {}
  BY <1>1, <1>2 DEF Held
<1>4. \A p \in Products : productLock[p] # r
  BY <1>2 DEF InOrder
<1>5. /\ \A k \in targets'[r] : RowStore[k] = payload[r].store
      /\ \A j, k \in targets'[r] : SameKey(j, k) => j = k
  BY <1>1 DEF RowsFor, IInv, UniqueRows
<1>6. QED
  BY <1>1, <1>2, <1>3, <1>4, <1>5 DEF InOrder, SameKey

LEMMA LockingInOrder ==
    ASSUME IInv, NEW r \in Requests, InOrder(r), NEW k \in Rows,
           SkipRow(r, k) \/ LockRow(r, k) \/ LockProduct(r, k)
    PROVE  InOrder(r)'
<1>1. /\ pc[r] = "locking" /\ pc' = pc /\ payload' = payload /\ checked' = checked
      /\ asked' = asked /\ k \in targets[r] /\ \A j \in targets[r] : k <= j
  BY DEF SkipRow, LockRow, LockProduct, IsNext, otherVars
<1>2. CASE SkipRow(r, k)
  <2>1. /\ k \notin present /\ targets'[r] = targets[r] \ {k}
        /\ UNCHANGED <<inventoryMap, rowLock, productLock>>
    BY <1>2 DEF SkipRow, IInv, TypeOK
  <2>2. Held(r)' = Held(r) /\ k \notin Held(r)
    BY <2>1 DEF Held, IInv, MapsGuarded
  <2>3. QED
    BY <1>1, <2>1, <2>2 DEF InOrder, SameKey
<1>3. CASE LockRow(r, k)
  <2>1. /\ targets' = targets /\ productLock' = productLock
        /\ rowLock' = [rowLock EXCEPT ![k] = r]
    BY <1>3 DEF LockRow
  <2>2. Held(r)' = Held(r) \cup {k}
    BY <1>3 DEF LockRow, IInv, TypeOK, Held
  <2>3. \A j \in Rows : rowLock'[j] = r => j \in Held(r)'
    BY <2>1, <2>2 DEF InOrder, IInv, TypeOK
  <2>4. Held(r)' \ targets[r] = Held(r) \ targets[r]
        /\ Held(r)' \cup targets[r] = Held(r) \cup targets[r]
    BY <1>1, <2>2
  <2>5. \A j \in Held(r)', i \in targets[r] : j <= i
    BY <1>1, <2>2 DEF InOrder
  <2>6. QED
    BY <1>1, <2>1, <2>3, <2>4, <2>5 DEF InOrder, SameKey
<1>4. CASE LockProduct(r, k)
  <2>1. /\ UNCHANGED <<inventoryMap, rowLock>> /\ rowLock[k] = r
        /\ productLock' = [productLock EXCEPT ![RowProduct[k]] = r]
        /\ targets'[r] = targets[r] \ {k}
    BY <1>4 DEF LockProduct, IInv, TypeOK
  <2>2. Held(r)' = Held(r) /\ k \in Held(r) /\ Held(r) \subseteq Rows
    BY <2>1, HeldRows DEF Held, InOrder, IInv
  <2>3. \A p \in Products : productLock'[p] = IF p = RowProduct[k] THEN r ELSE productLock[p]
    BY <2>1 DEF IInv, TypeOK
  <2>4. \A j \in Held(r) \ targets'[r] : productLock'[RowProduct[j]] = r
    BY <2>1, <2>2, <2>3, TablesAssumption DEF InOrder
  <2>5. \A p \in Products :
            productLock'[p] = r => \E j \in Held(r) \ targets'[r] : RowProduct[j] = p
    BY <2>1, <2>2, <2>3 DEF InOrder
  <2>6. QED
    BY <1>1, <2>1, <2>2, <2>4, <2>5 DEF InOrder, SameKey
<1>5. QED
  BY <1>2, <1>3, <1>4

(* A confirmed order has locked every product it orders.                   *)
LEMMA DecideInOrder ==
    ASSUME IInv, NEW r \in Requests, InOrder(r), ConfirmOrder(r) \/ RejectOrder(r)
    PROVE  InOrder(r)'
<1>1. /\ pc[r] = "locking" /\ targets[r] = {} /\ targets' = targets
      /\ UNCHANGED <<payload, inventoryMap, checked, rowLock, productLock>>
  BY DEF ConfirmOrder, RejectOrder, otherVars
<1>2. Held(r)' = Held(r) /\ Held(r) \subseteq Rows
  BY <1>1, HeldRows DEF Held, IInv
<1>3. pc'[r] = "confirming" => asked'[r] = NoProduct
  <2>1. CASE ConfirmOrder(r)
    <3>1. Covered(Held(r), inventoryMap[r], payload[r])
      BY <2>1 DEF ConfirmOrder
    <3>2. \A p \in Products : payload[r].want[p] > 0 => productLock[p] = r
      BY <1>1, <3>1 DEF Covered, InOrder
    <3>3. NextCheck(r, {}) = {NoProduct}
      BY <3>2 DEF NextCheck
    <3>4. QED
      BY <2>1, <3>3 DEF ConfirmOrder, IInv, TypeOK
  <2>2. CASE RejectOrder(r)
    BY <2>2 DEF RejectOrder, Goto, IInv, TypeOK
  <2>3. QED
    BY <2>1, <2>2
<1>4. pc'[r] \in {"confirming", "rejecting"}
  BY DEF ConfirmOrder, RejectOrder, Goto, IInv, TypeOK
<1>5. QED
  BY <1>1, <1>2, <1>3, <1>4 DEF InOrder, SameKey

LEMMA OwnStepInOrder ==
    ASSUME IInv, NEW r \in Requests, InOrder(r),
           Arrive(r) \/ Work(r) \/ Abort(r) \/ Mishap(r)
    PROVE  InOrder(r)'
<1>1. ASSUME UNCHANGED <<payload, txVars>>,
             NEW label \in PC \ InTransaction, Goto(r, label), pc[r] \notin InTransaction
      PROVE  InOrder(r)'
  <2>1. pc'[r] = label
    BY <1>1 DEF Goto, IInv, TypeOK
  <2>2. Held(r)' = Held(r)
    BY <1>1 DEF Held, txVars
  <2>3. UNCHANGED <<payload, targets, asked, checked, rowLock, productLock>>
    BY <1>1 DEF txVars
  <2>4. QED
    BY <1>1, <2>1, <2>2, <2>3 DEF InOrder, SameKey, InTransaction
<1>2. CASE Arrive(r) \/ Dispatch(r) \/ Answer(r) \/ DispatchFails(r) \/ AnswerFails(r)
  BY <1>1, <1>2 DEF Arrive, RefuseInvalid, RefuseStore, Receive, Dispatch, Answer, DispatchFails,
                    AnswerFails, Return, PC, InTransaction, otherVars
<1>3. CASE CheckForeignKey(r)
  <2>1. /\ asked[r] \in catalogue /\ pc[r] \in {"confirming", "rejecting"}
        /\ UNCHANGED <<payload, pc, targets, inventoryMap, rowLock, productLock>>
    BY <1>3 DEF CheckForeignKey, otherVars
  <2>2. pc[r] # "confirming"
    BY <2>1, ServiceAssumption DEF InOrder, IInv, TypeOK
  <2>3. Held(r)' = Held(r)
    BY <2>1 DEF Held
  <2>4. QED
    BY <2>1, <2>2, <2>3 DEF InOrder, SameKey
<1>4. CASE OverflowItems(r) \/ ForeignKeyFails(r) \/ Commit(r) \/ CommitUnacknowledged(r)
             \/ Abort(r) \/ Crash(r)
  BY <1>4, ReleaseInOrder DEF OverflowItems, ForeignKeyFails, Fail, Commit, CommitUnacknowledged,
                              Abort, Crash, Return, Goto, IInv, TypeOK
<1>5. QED
  BY <1>2, <1>3, <1>4, SelectInOrder, LockingInOrder, DecideInOrder DEF Work, Mishap

THEOREM InOrderInvariant == Spec => []AllInOrder
<1>1. Init => AllInOrder
  BY ServiceAssumption DEF Init, AllInOrder, InOrder, Held, EmptyMap
<1>2. IInv /\ AllInOrder /\ [Next]_vars => AllInOrder'
  <2> SUFFICES ASSUME IInv, AllInOrder, [Next]_vars PROVE AllInOrder'
    OBVIOUS
  <2>1. \A q \in Requests : Held(q) \subseteq Rows
    BY HeldRows DEF IInv
  <2>2. ASSUME NEW r \in Requests, Arrive(r) \/ Work(r) \/ Abort(r) \/ Mishap(r)
        PROVE  AllInOrder'
    <3>1. InOrder(r)'
      BY <2>2, OwnStepInOrder DEF AllInOrder
    <3>2. ASSUME NEW q \in Requests \ {r} PROVE InOrder(q)'
      <4>1. Unmoved(q)
        BY <2>2, OthersUnmoved DEF IInv
      <4>2. \A p \in Products : productLock'[p] = q <=> productLock[p] = q
        BY <2>2, OthersLocks DEF IInv
      <4>3. QED
        BY <2>1, <4>1, <4>2, SameInOrder DEF AllInOrder, Unmoved
    <3>3. QED
      BY <3>1, <3>2 DEF AllInOrder
  <2>3. CASE UNCHANGED <<payload, pc, txVars>>
    BY <2>1, <2>3, SameInOrder DEF AllInOrder, txVars
  <2>4. QED
    BY <2>2, <2>3 DEF Next, Administer, RemoveRow, RemoveProduct, SaveRow, vars, otherVars
<1>3. QED
  BY <1>1, <1>2, InductiveInvariant, PTL DEF Spec

(* Following "waits for" from x leads to y.                                *)
Leads(x, y) ==
    \A D \in SUBSET Requests :
        (BlockedBy(x) \subseteq D /\ \A q \in D : BlockedBy(q) \subseteq D) => y \in D

(* A rejected order waits for a product its commit has to check.           *)
ChecksRejected(q) == pc[q] = "rejecting" /\ asked[q] \in Products

DeadlocksExplained ==
    \A r \in Requests : OnCycle(r) =>
        \E q \in Requests : Leads(r, q) /\ Leads(q, r) /\ ChecksRejected(q)

(* How far the locks of x have come when it waits for row i or its         *)
(* product.                                                                *)
Height(place, x, i) == 2 * place[RowProduct[i]] + IF rowLock[i] = x THEN 1 ELSE 0

(* Whoever waits, and not in the commit of a rejected order, waits for one *)
(* of its rows.                                                            *)
LEMMA Waiting ==
    ASSUME IInv, AllInOrder, NEW x \in Requests, NEW y \in BlockedBy(x), ~ChecksRejected(x)
    PROVE  /\ pc[x] = "locking"
           /\ \E i \in Rows : /\ IsNext(x, i)
                              /\ \/ rowLock[i] = y
                                 \/ /\ rowLock[i] = x
                                    /\ \/ productLock[RowProduct[i]] = y
                                       \/ RowProduct[i] \in checked[y]
<1>1. ~(pc[x] = "confirming" /\ asked[x] \in Products)
  BY ServiceAssumption DEF AllInOrder, InOrder
<1>2. QED
  BY <1>1 DEF BlockedBy, ChecksRejected

LEMMA OneNext ==
    ASSUME NEW x, NEW i \in Rows, NEW j \in Rows, IsNext(x, i), IsNext(x, j)
    PROVE  i = j
<1>1. i \in Nat /\ j \in Nat /\ i <= j /\ j <= i
  BY TablesAssumption DEF IsNext
<1>2. QED
  BY <1>1

(* Whoever is waited for waits, if at all, further up.                     *)
LEMMA Climb ==
    ASSUME IInv, AllInOrder, NEW place \in [Products -> Nat],
           \A j, k \in Rows :
                RowStore[j] = RowStore[k] /\ j < k /\ RowProduct[j] # RowProduct[k] =>
                    place[RowProduct[j]] < place[RowProduct[k]],
           NEW x \in Requests, NEW y \in BlockedBy(x), NEW z \in BlockedBy(y),
           ~ChecksRejected(x), ~ChecksRejected(y),
           NEW i \in Rows, NEW j \in Rows, IsNext(x, i), IsNext(y, j)
    PROVE  Height(place, x, i) < Height(place, y, j)
<1>1. y \in Requests /\ y # x
  BY DEF BlockedBy
<1>2. pc[y] = "locking"
  BY <1>1, Waiting
<1>3. \/ rowLock[i] = y
      \/ rowLock[i] = x /\ (productLock[RowProduct[i]] = y \/ RowProduct[i] \in checked[y])
  BY Waiting, OneNext
<1>4. checked[y] = {}
  BY <1>1, <1>2 DEF AllInOrder, InOrder
<1>5. /\ RowProduct[i] \in Products /\ RowProduct[j] \in Products
      /\ place[RowProduct[i]] \in Nat /\ place[RowProduct[j]] \in Nat
  BY TablesAssumption
<1>6. ASSUME NEW h \in Held(y), h # j
      PROVE  place[RowProduct[h]] < place[RowProduct[j]]
  <2>1. j \in targets[y] /\ h \in Rows
    BY <1>1, HeldRows DEF IsNext, IInv
  <2>2. h <= j /\ RowStore[h] = RowStore[j] /\ ~SameKey(h, j)
    BY <1>1, <1>6, <2>1 DEF AllInOrder, InOrder
  <2>3. h < j
    <3>1. h \in Nat /\ j \in Nat
      BY <2>1, TablesAssumption
    <3>2. QED
      BY <1>6, <2>2, <3>1
  <2>4. QED
    BY <2>1, <2>2, <2>3 DEF SameKey
<1>7. CASE rowLock[i] = y
  <2>1. i \in Held(y)
    BY <1>1, <1>7 DEF AllInOrder, InOrder
  <2>2. CASE i = j
    BY <1>1, <1>5, <1>7, <2>2 DEF Height
  <2>3. CASE i # j
    BY <1>1, <1>5, <1>6, <1>7, <2>1, <2>3 DEF Height
  <2>4. QED
    BY <2>2, <2>3
<1>8. CASE productLock[RowProduct[i]] = y /\ rowLock[i] = x
  <2>1. PICK h \in Held(y) \ targets[y] : RowProduct[h] = RowProduct[i]
    BY <1>1, <1>5, <1>8 DEF AllInOrder, InOrder
  <2>2. h # j
    BY <2>1 DEF IsNext
  <2>3. place[RowProduct[i]] < place[RowProduct[j]]
    BY <1>6, <2>1, <2>2
  <2>4. QED
    BY <1>5, <2>3 DEF Height
<1>9. QED
  BY <1>3, <1>4, <1>7, <1>8

LEMMA LeadsOn ==
    ASSUME NEW x \in Requests, NEW y \in BlockedBy(x), NEW z
    PROVE  /\ Leads(x, y)
           /\ Leads(z, x) => Leads(z, y)
           /\ Leads(y, z) => Leads(x, z)
BY DEF Leads

(* With ids aligned the promise of the ORDER BY holds but for one cause:   *)
(* every deadlock runs through the commit of a rejected order, whose       *)
(* foreign key checks take the products in the order of the client's       *)
(* lines, whatever rows are added, saved or deleted meanwhile.             *)
THEOREM DeadlocksNeedARejection == ASSUME Aligned PROVE Spec => []DeadlocksExplained
<1>1. IInv /\ AllInOrder => DeadlocksExplained
  <2> SUFFICES ASSUME IInv, AllInOrder, NEW r \in Requests, OnCycle(r),
                      \A q \in Requests : Leads(r, q) /\ Leads(q, r) => ~ChecksRejected(q)
               PROVE  FALSE
    BY DEF DeadlocksExplained
  <2>1. PICK place \in [Products -> Nat] : \A j, k \in Rows :
            RowStore[j] = RowStore[k] /\ j < k /\ RowProduct[j] # RowProduct[k] =>
                place[RowProduct[j]] < place[RowProduct[k]]
    BY DEF Aligned
  <2>2. Leads(r, r)
    BY DEF OnCycle, Leads
  <2>3. ASSUME NEW x \in Requests, Leads(x, r)
        PROVE  \E y \in BlockedBy(x) : TRUE
    <3> SUFFICES ASSUME BlockedBy(x) = {} PROVE FALSE
      OBVIOUS
    <3>1. {} \in SUBSET Requests /\ BlockedBy(x) \subseteq {}
      OBVIOUS
    <3>2. r \in {}
      BY <2>3, <3>1 DEF Leads
    <3>3. QED
      BY <3>2
  <2>4. ASSUME NEW x \in Requests, Leads(r, x), Leads(x, r)
        PROVE  ~ChecksRejected(x) /\ \E i \in Rows : IsNext(x, i)
    BY <2>3, <2>4, Waiting
  <2>5. PICK k \in Rows : IsNext(r, k)
    BY <2>2, <2>4
  <2> DEFINE Beyond == {x \in Requests : Leads(r, x) /\
                            (Leads(x, r) => \A i \in Rows : IsNext(x, i) =>
                                Height(place, r, k) < Height(place, x, i))}
  <2>6. \A x \in Requests, i \in Rows : Height(place, x, i) \in Nat
    BY TablesAssumption DEF Height
  <2>7. ASSUME NEW x \in Requests, NEW y \in BlockedBy(x), Leads(r, x), Leads(y, r),
               NEW i \in Rows, NEW j \in Rows, IsNext(x, i), IsNext(y, j)
        PROVE  Height(place, x, i) < Height(place, y, j)
    <3>1. y \in Requests /\ Leads(r, y) /\ Leads(x, r)
      BY <2>7, LeadsOn DEF BlockedBy
    <3>2. PICK z \in BlockedBy(y) : TRUE
      BY <2>3, <2>7, <3>1
    <3>3. ~ChecksRejected(x) /\ ~ChecksRejected(y)
      BY <2>4, <2>7, <3>1
    <3>4. QED
      BY <2>1, <2>7, <3>2, <3>3, Climb
  <2>8. BlockedBy(r) \subseteq Beyond
    <3> SUFFICES ASSUME NEW y \in BlockedBy(r) PROVE y \in Beyond
      OBVIOUS
    <3>1. y \in Requests /\ Leads(r, y)
      BY LeadsOn DEF BlockedBy
    <3>2. QED
      BY <2>2, <2>5, <2>7, <3>1
  <2>9. \A x \in Beyond : BlockedBy(x) \subseteq Beyond
    <3> SUFFICES ASSUME NEW x \in Beyond, NEW y \in BlockedBy(x) PROVE y \in Beyond
      OBVIOUS
    <3>1. x \in Requests /\ y \in Requests /\ Leads(r, x) /\ Leads(r, y)
      BY LeadsOn DEF BlockedBy
    <3>2. ASSUME Leads(y, r), NEW j \in Rows, IsNext(y, j)
          PROVE  Height(place, r, k) < Height(place, y, j)
      <4>1. Leads(x, r)
        BY <3>1, <3>2, LeadsOn
      <4>2. PICK i \in Rows : IsNext(x, i)
        BY <2>4, <3>1, <4>1
      <4>3. Height(place, r, k) < Height(place, x, i)
        BY <4>1, <4>2
      <4>4. Height(place, x, i) < Height(place, y, j)
        BY <2>7, <3>1, <3>2, <4>2
      <4> HIDE DEF Beyond
      <4>5. QED
        BY <2>6, <3>1, <4>3, <4>4
    <3>3. QED
      BY <3>1, <3>2
  <2>10. r \notin Beyond
    <3>1. ~(Height(place, r, k) < Height(place, r, k))
      BY <2>6
    <3>2. QED
      BY <2>2, <2>5, <3>1
  <2>11. QED
    <3>1. Beyond \in SUBSET Requests
      OBVIOUS
    <3> HIDE DEF Beyond
    <3>2. QED
      BY <2>8, <2>9, <2>10, <3>1 DEF OnCycle
<1>2. QED
  BY <1>1, InductiveInvariant, InOrderInvariant, PTL
=============================================================================

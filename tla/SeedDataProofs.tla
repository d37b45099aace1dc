---------------------------- MODULE SeedDataProofs ----------------------------
(***************************************************************************)
(* Theorems about SeedData for any constants and bounds: the tables refer  *)
(* to what exists, the command never creates too many products, and a run  *)
(* nobody disturbs has done its whole job when it ends.                    *)
(***************************************************************************)
EXTENDS SeedData, FiniteSetTheorems, TLAPS

(* What exceeds existing_count while the command goes by it came through   *)
(* the API.                                                                *)
CountUsed ==
    at = "create products" =>
        existing < NumProducts /\ Cardinality(products) <= existing + created

(* The command has no categories before it has got them.                   *)
Clearing == {"clear inventory", "clear products", "clear categories", "clear stores"}
NoneChosen == at \in Clearing => chosen = {}

IInv == TypeOK /\ CountUsed /\ NoneChosen /\ ToppedUp

LEMMA Numbers ==
    /\ CategoryNames \subseteq Names
    /\ NumProducts \in Nat /\ NumStores \in Nat
    /\ MaxRuns \in Nat /\ MaxEdits \in Nat /\ MaxProductId \in Nat /\ MaxStoreId \in Nat
BY Zenon, SeedAssumption

LEMMA FiniteProducts ==
    ASSUME TypeOK
    PROVE  IsFiniteSet(products) /\ Cardinality(products) \in Nat
<1>1. IsFiniteSet(1 .. lastProduct)
  BY FS_Interval DEF TypeOK
<1>2. IsFiniteSet(products)
  BY <1>1, FS_Subset DEF TypeOK
<1>3. QED
  BY <1>2, FS_CardinalityType

(* Products are only dropped by DropProducts, together with their rows.    *)
LEMMA DropTypes ==
    ASSUME TypeOK, NEW gone, DropProducts(gone)
    PROVE  /\ products' = products \ gone
           /\ \A p \in products' : filed'[p] = filed[p]
           /\ inventory' = {i \in inventory : i[2] \notin gone}
BY DEF DropProducts, Restrict, products

LEMMA FewerProducts ==
    ASSUME TypeOK, products' \subseteq products
    PROVE  /\ Cardinality(products') \in Nat
           /\ Cardinality(products') <= Cardinality(products)
BY FiniteProducts, FS_Subset, FS_CardinalityType

LEMMA FileTypes ==
    ASSUME TypeOK, NEW n \in Nat, FileNew(n)
    PROVE  /\ products' = products \cup (lastProduct + 1 .. lastProduct + n)
           /\ \A p \in products : filed'[p] = filed[p]
           /\ \A p \in products' \ products : filed'[p] \in chosen
           /\ lastProduct' = lastProduct + n /\ lastProduct' \in 0 .. MaxProductId
           /\ Cardinality(products') = Cardinality(products) + n
<1> DEFINE new == lastProduct + 1 .. lastProduct + n
<1>0. lastProduct \in Nat /\ MaxProductId \in Nat
  BY SeedAssumption DEF TypeOK
<1>1. lastProduct' = lastProduct + n /\ lastProduct' \in 0 .. MaxProductId
  <2>1. lastProduct' = lastProduct + n /\ lastProduct + n <= MaxProductId
    BY DEF FileNew
  <2>2. QED
    BY <1>0, <2>1
<1>2. PICK category \in [new -> chosen] :
            filed' = [p \in products \cup DOMAIN category |->
                        IF p \in products THEN filed[p] ELSE category[p]]
  BY <1>1 DEF FileNew
<1>3. products' = products \cup new
  BY <1>2 DEF products
<1>4. products \cap new = {}
  BY DEF TypeOK
<1>5. IsFiniteSet(new) /\ Cardinality(new) = n
  BY FS_Interval DEF TypeOK
<1>6. Cardinality(products') = Cardinality(products) + n
  <2>1. Cardinality(products \cup new)
            = Cardinality(products) + Cardinality(new) - Cardinality(products \cap new)
    BY <1>5, FiniteProducts, FS_Union
  <2>2. Cardinality(products \cap new) = 0
    BY <1>4, FS_EmptySet
  <2>3. Cardinality(products) \in Nat
    BY FiniteProducts
  <2>4. Cardinality(products') = Cardinality(products \cup new)
    BY <1>3
  <2>5. QED
    BY <1>5, <2>1, <2>2, <2>3, <2>4
<1>7. QED
  BY <1>1, <1>2, <1>3, <1>6 DEF products

(* The type invariant in parts: the tables, the variables of the command   *)
(* and the rows both know, with the truth values apart.                    *)
TablesOK ==
    /\ categories \subseteq Names
    /\ products \subseteq 1 .. lastProduct /\ lastProduct \in 0 .. MaxProductId
    /\ stores \subseteq 1 .. lastStore /\ lastStore \in 0 .. MaxStoreId
    /\ inventory \subseteq stores \X products
    /\ ordered \subseteq products /\ served \subseteq stores
    /\ Range(filed) \subseteq categories

RunOK ==
    /\ at \in Statements \cup Ended
    /\ got \subseteq CategoryNames /\ chosen \subseteq categories
    /\ existing \in Nat
    /\ listed \subseteq ProductIds
    /\ own \subseteq StoreIds /\ stocked \subseteq own
    /\ runs \in 0 .. MaxRuns /\ edits \in 0 .. MaxEdits
    /\ created \in Nat

Flags == clear \in BOOLEAN /\ lost \in BOOLEAN /\ disturbed \in BOOLEAN

LEMMA TypeParts == TypeOK <=> TablesOK /\ RunOK /\ Flags
BY Zenon DEF TypeOK, TablesOK, RunOK, Flags

LEMMA TypePartsNext == TypeOK' <=> TablesOK' /\ RunOK' /\ Flags'
BY Zenon DEF TypeOK, TablesOK, RunOK, Flags

LEMMA TablesStay == TablesOK /\ UNCHANGED <<tables, ids>> => TablesOK'
BY DEF TablesOK, tables, ids, products

LEMMA ProductRange == TablesOK => products \subseteq ProductIds
BY SeedAssumption DEF TablesOK, ProductIds

LEMMA InitIInv == Init => IInv
<1> SUFFICES ASSUME Init PROVE IInv
  OBVIOUS
<1>1. products = {} /\ Range(filed) = {}
  BY DEF Init, products, Range
<1>2. Cardinality(products) = 0
  BY <1>1, FS_EmptySet
<1>3. TablesOK
  BY <1>1, Numbers DEF Init, TablesOK
<1>4. RunOK
  BY Numbers DEF Init, RunOK, Ended
<1>7. Flags
  BY Zenon DEF Init, Flags
<1>5. CountUsed /\ NoneChosen /\ ToppedUp
  BY <1>2, Numbers DEF Init, CountUsed, NoneChosen, Clearing, ToppedUp
<1>6. QED
  BY <1>3, <1>4, <1>5, <1>7, TypeParts DEF IInv

-----------------------------------------------------------------------------
(* The statements of the command.                                          *)

(* A statement that fails ends the run with the tables as they were.       *)
LEMMA AbortTypes ==
    ASSUME TypeOK, Abort, UNCHANGED <<locals, ids, counters, history>>
    PROVE  TypeOK'
<1>1. TablesOK'
  BY TypeParts, TablesStay DEF Abort
<1>2. RunOK' /\ Flags'
  BY TypeParts DEF Abort, RunOK, Flags, Flags, Ended, locals, list, counters, history, tables
<1>3. QED
  BY <1>1, <1>2, TypePartsNext

LEMMA CommandTypes ==
    ASSUME TypeOK, CountUsed, NoneChosen, Command
    PROVE  TypeOK'
<1>0. TablesOK /\ RunOK /\ Flags
  BY TypeParts
<1> USE Numbers DEF tables, locals, list, ids, counters, history
<1>1. CASE Begin
  <2>1. TablesOK'
    BY <1>0, <1>1, TablesStay DEF Begin
  <2>2. RunOK'
    <3>1. runs' \in 0 .. MaxRuns
      <4>1. runs < MaxRuns /\ runs' = runs + 1
        BY <1>1 DEF Begin
      <4>2. runs \in 0 .. MaxRuns
        BY <1>0 DEF RunOK
      <4>3. QED
        BY <4>1, <4>2
    <3>2. at' \in {"clear inventory", "categories"}
      BY <1>1 DEF Begin
    <3>3. QED
      BY <1>0, <1>1, <3>1, <3>2 DEF Begin, RunOK, Statements
  <2>3. Flags'
    BY <1>0, <1>1, SeedAssumption, Zenon DEF Begin, Flags
  <2>4. QED
    BY <2>1, <2>2, <2>3, TypePartsNext
<1>2. CASE ClearInventory
  BY <1>2 DEF ClearInventory, TypeOK, products, Statements
<1>3. CASE ClearProducts
  <2>1. CASE Abort
    BY <1>3, <2>1, AbortTypes DEF ClearProducts
  <2>2. CASE ordered = {} /\ DropProducts(products) /\ at' = "clear categories"
    <3>1. products' = {} /\ inventory' = {}
      BY <2>2, DropTypes DEF TypeOK
    <3>2. Range(filed') = {}
      BY <3>1 DEF Range, products
    <3>3. TablesOK'
      BY <1>0, <1>3, <2>2, <3>1, <3>2 DEF ClearProducts, TablesOK
    <3>4. RunOK' /\ Flags'
      BY <1>0, <1>3, <2>2 DEF ClearProducts, RunOK, Flags, Statements
    <3>5. QED
      BY <3>3, <3>4, TypePartsNext
  <2>3. QED
    BY <1>3, <2>1, <2>2 DEF ClearProducts
<1>4. CASE ClearCategories
  <2>1. CASE Abort
    BY <1>4, <2>1, AbortTypes DEF ClearCategories
  <2>2. CASE products = {} /\ categories' = {} /\ at' = "clear stores"
    <3>1. TablesOK'
      BY <1>0, <1>4, <2>2 DEF ClearCategories, TablesOK, products, Range
    <3>2. RunOK' /\ Flags'
      BY <1>0, <1>4, <2>2 DEF ClearCategories, RunOK, Flags, Statements, NoneChosen, Clearing
    <3>3. QED
      BY <3>1, <3>2, TypePartsNext
  <2>3. QED
    BY <1>4, <2>1, <2>2 DEF ClearCategories
<1>5. CASE ClearStores
  <2>1. CASE Abort
    BY <1>5, <2>1, AbortTypes DEF ClearStores
  <2>2. CASE served = {} /\ stores' = {} /\ inventory' = {} /\ at' = "categories"
    BY <1>5, <2>2 DEF ClearStores, TypeOK, products, Statements
  <2>3. QED
    BY <1>5, <2>1, <2>2 DEF ClearStores
<1>6. CASE SeedCategory
  BY <1>6 DEF SeedCategory, TypeOK, products, Statements
<1>7. CASE CountProducts
  BY <1>7, FiniteProducts DEF CountProducts, TypeOK, products, Statements
<1>8. CASE CreateProducts
  <2> DEFINE missing == NumProducts - existing
  <2>0. missing \in Nat
    <3>1. existing \in Nat /\ existing < NumProducts
      BY <1>0, <1>8 DEF CreateProducts, CountUsed, RunOK
    <3>2. QED
      BY <3>1
  <2> HIDE DEF missing
  <2>1. CASE FileNew(missing)
    <3>1. /\ products' \subseteq 1 .. lastProduct' /\ products \subseteq products'
          /\ lastProduct' \in 0 .. MaxProductId
      <4>1. products' = products \cup (lastProduct + 1 .. lastProduct + missing)
            /\ lastProduct' = lastProduct + missing /\ lastProduct' \in 0 .. MaxProductId
        BY <2>0, <2>1, FileTypes
      <4>2. products \subseteq 1 .. lastProduct /\ lastProduct \in Nat
        BY <1>0 DEF TablesOK
      <4>3. QED
        BY <2>0, <4>1, <4>2
    <3>2. Range(filed') \subseteq categories
      <4>1. /\ \A p \in products : filed'[p] = filed[p]
            /\ \A p \in products' \ products : filed'[p] \in chosen
        BY <2>0, <2>1, FileTypes
      <4>2. \A p \in products : filed[p] \in categories
        BY <1>0 DEF TablesOK, Range, products
      <4>3. \A p \in products' : filed'[p] \in categories
        BY <1>0, <4>1, <4>2 DEF RunOK
      <4>4. QED
        BY <4>3 DEF Range, products
    <3>3. TablesOK'
      BY <1>0, <1>8, <2>1, <3>1, <3>2 DEF CreateProducts, FileNew, TablesOK
    <3>4. RunOK' /\ Flags'
      BY <1>0, <1>8, <2>1 DEF CreateProducts, FileNew, RunOK, Flags, Statements
    <3>5. QED
      BY <3>3, <3>4, TypePartsNext
  <2>2. CASE lastProduct' = lastProduct + missing /\ lastProduct + missing <= MaxProductId /\ Abort
    <3>1. lastProduct' \in 0 .. MaxProductId /\ 1 .. lastProduct \subseteq 1 .. lastProduct'
      BY <1>0, <2>0, <2>2 DEF TablesOK
    <3>3. TablesOK'
      BY <1>0, <1>8, <2>2, <3>1 DEF CreateProducts, Abort, TablesOK, products
    <3>2. RunOK' /\ Flags'
      BY <1>0, <1>8, <2>2 DEF CreateProducts, Abort, RunOK, Flags, Ended
    <3>4. QED
      BY <3>2, <3>3, TypePartsNext
  <2>3. QED
    BY <1>8, <2>1, <2>2 DEF CreateProducts, missing
<1>9. CASE ListProducts
  <2>1. TablesOK'
    BY <1>0, <1>9, TablesStay DEF ListProducts
  <2>2. listed' \subseteq ProductIds
    BY <1>0, <1>9, ProductRange DEF ListProducts, Newest
  <2>3. RunOK' /\ Flags'
    BY <1>0, <1>9, <2>2 DEF ListProducts, RunOK, Flags, Statements
  <2>4. QED
    BY <2>1, <2>3, TypePartsNext
<1>10. CASE SeedStore
  <2>1. CASE /\ lastStore < MaxStoreId /\ lastStore' = lastStore + 1
             /\ stores' = stores \cup {lastStore'} /\ own' = own \cup {lastStore'}
             /\ UNCHANGED at
    <3>1. lastStore \in Nat /\ lastStore + 1 \in 1 .. MaxStoreId
      BY <1>0, <2>1 DEF TablesOK
    <3>2. stores' \subseteq 1 .. lastStore' /\ lastStore' \in 0 .. MaxStoreId
      BY <1>0, <2>1, <3>1 DEF TablesOK
    <3>3. TablesOK'
      BY <1>0, <1>10, <2>1, <3>2 DEF SeedStore, TablesOK, products
    <3>4. RunOK' /\ Flags'
      BY <1>0, <1>10, <2>1, <3>1 DEF SeedStore, RunOK, Flags, StoreIds
    <3>5. QED
      BY <3>3, <3>4, TypePartsNext
  <2>2. CASE at' = "inventory" /\ UNCHANGED <<stores, own, lastStore>>
    <3>1. TablesOK'
      BY <1>0, <1>10, <2>2, TablesStay DEF SeedStore
    <3>2. RunOK' /\ Flags'
      BY <1>0, <1>10, <2>2 DEF SeedStore, RunOK, Flags, Statements
    <3>3. QED
      BY <3>1, <3>2, TypePartsNext
  <2>3. QED
    BY <1>10, <2>1, <2>2 DEF SeedStore
<1>11. ASSUME NEW s \in StoreIds, StockStore(s)
       PROVE  TypeOK'
  <2>1. PICK sample \in Samples :
        \/ /\ sample # {} /\ ~({s} \X sample \subseteq stores \X products)
           /\ Abort
           /\ UNCHANGED stocked
        \/ /\ sample = {} \/ {s} \X sample \subseteq stores \X products
           /\ inventory' = inventory \cup ({s} \X sample)
           /\ stocked' = stocked \cup {s}
           /\ UNCHANGED <<at, categories, filed, stores, ordered, served>>
    BY <1>11 DEF StockStore
  <2>2. s \in own
    BY <1>11 DEF StockStore
  <2>3. CASE Abort /\ UNCHANGED stocked
    BY <1>11, <2>3, AbortTypes DEF StockStore
  <2>4. CASE /\ sample = {} \/ {s} \X sample \subseteq stores \X products
             /\ inventory' = inventory \cup ({s} \X sample)
             /\ stocked' = stocked \cup {s}
             /\ UNCHANGED <<at, categories, filed, stores, ordered, served>>
    <3>1. TablesOK'
      BY <1>0, <1>11, <2>4 DEF StockStore, TablesOK, products
    <3>2. RunOK' /\ Flags'
      BY <1>0, <1>11, <2>2, <2>4 DEF StockStore, RunOK, Flags
    <3>3. QED
      BY <3>1, <3>2, TypePartsNext
  <2>5. QED
    BY <2>1, <2>3, <2>4
<1>12. CASE Finish
  BY <1>12 DEF Finish, TypeOK, products, Ended
<1>13. QED
  BY <1>1, <1>2, <1>3, <1>4, <1>5, <1>6, <1>7, <1>8, <1>9, <1>10, <1>11, <1>12 DEF Command

-----------------------------------------------------------------------------
(* Everybody else.                                                         *)

LEMMA EditTypes ==
    ASSUME RunOK, NEW kind, Edit(kind)
    PROVE  edits' \in 0 .. MaxEdits
<1>1. edits < MaxEdits /\ edits' = edits + 1
  BY DEF Edit
<1>2. edits \in 0 .. MaxEdits
  BY DEF RunOK
<1>3. QED
  BY <1>1, <1>2, Numbers

LEMMA CreateTypes ==
    ASSUME TypeOK, NEW n \in Names, CreateProduct(n)
    PROVE  /\ TypeOK'
           /\ Cardinality(products') = Cardinality(products) + 1
<1> USE DEF locals, list
<1>0. TablesOK /\ RunOK /\ Flags
  BY TypeParts
<1>1. /\ lastProduct < MaxProductId /\ lastProduct' = lastProduct + 1
      /\ filed' = [p \in products \cup {lastProduct'} |-> IF p \in products THEN filed[p] ELSE n]
      /\ n \in categories /\ created' = created + 1
      /\ UNCHANGED <<categories, stores, inventory, ordered, served, locals, lastStore, at, runs,
                     disturbed>>
  BY DEF CreateProduct
<1>2. /\ lastProduct \in 0 .. MaxProductId /\ products \subseteq 1 .. lastProduct
      /\ MaxProductId \in Nat
  BY <1>0, Numbers DEF TablesOK
<1>3. products' = products \cup {lastProduct + 1}
  BY <1>1 DEF products
<1>4. /\ products' \subseteq 1 .. lastProduct' /\ lastProduct' \in 0 .. MaxProductId
      /\ lastProduct + 1 \notin products
  BY <1>1, <1>2, <1>3
<1>5. Range(filed') \subseteq categories'
  BY <1>0, <1>1, <1>3 DEF TablesOK, Range, products
<1>6. TablesOK'
  BY <1>0, <1>1, <1>3, <1>4, <1>5 DEF TablesOK
<1>7. edits' \in 0 .. MaxEdits
  BY <1>0, EditTypes DEF CreateProduct
<1>8. RunOK' /\ Flags'
  BY <1>0, <1>1, <1>7 DEF RunOK, Flags
<1>9. Cardinality(products') = Cardinality(products) + 1
  BY <1>3, <1>4, FiniteProducts, FS_AddElement
<1>10. QED
  BY <1>6, <1>8, <1>9, TypePartsNext

LEMMA ShopTypes ==
    ASSUME TypeOK, Shop
    PROVE  TypeOK'
<1>0. TablesOK /\ RunOK /\ Flags
  BY TypeParts
<1> USE DEF tables, locals, list, ids, counters, history
<1>1. ASSUME NEW s \in StoreIds, NEW p \in ProductIds, PlaceOrder(s, p)
      PROVE  TypeOK'
  BY <1>1 DEF PlaceOrder, TypeOK, products
<1>2. ASSUME NEW s \in StoreIds, NEW p \in ProductIds, AddInventory(s, p)
      PROVE  TypeOK'
  <2>1. TablesOK'
    BY <1>0, <1>2 DEF AddInventory, TablesOK, products
  <2>2. RunOK' /\ Flags'
    BY <1>0, <1>2, EditTypes DEF AddInventory, RunOK, Flags
  <2>3. QED
    BY <2>1, <2>2, TypePartsNext
<1>3. ASSUME NEW n \in Names, CreateProduct(n)
      PROVE  TypeOK'
  BY <1>3, CreateTypes
<1>4. ASSUME NEW n \in Names, AddCategory(n)
      PROVE  TypeOK'
  <2>1. TablesOK'
    BY <1>0, <1>4 DEF AddCategory, TablesOK, products
  <2>2. RunOK' /\ Flags'
    BY <1>0, <1>4, EditTypes DEF AddCategory, RunOK, Flags
  <2>3. QED
    BY <2>1, <2>2, TypePartsNext
<1>5. ASSUME NEW n \in Names, DeleteCategory(n)
      PROVE  TypeOK'
  <2>1. TablesOK'
    BY <1>0, <1>5 DEF DeleteCategory, TablesOK, products
  <2>2. RunOK'
    BY <1>0, <1>5, EditTypes DEF DeleteCategory, RunOK
  <2>3. Flags'
    BY <1>0, <1>5, Zenon DEF DeleteCategory, Flags
  <2>4. QED
    BY <2>1, <2>2, <2>3, TypePartsNext
<1>6. ASSUME NEW n \in Names, NEW m \in Names, RenameCategory(n, m)
      PROVE  TypeOK'
  <2>1. products' = products
    BY <1>6 DEF RenameCategory, products
  <2>2. Range(filed') \subseteq categories'
    BY <1>0, <1>6, <2>1 DEF RenameCategory, TablesOK, Range, products
  <2>3. TablesOK'
    BY <1>0, <1>6, <2>1, <2>2 DEF RenameCategory, TablesOK
  <2>4. RunOK'
    BY <1>0, <1>6, EditTypes DEF RenameCategory, RunOK
  <2>5. Flags'
    BY <1>0, <1>6 DEF RenameCategory, Flags
  <2>6. QED
    BY <2>3, <2>4, <2>5, TypePartsNext
<1>7. ASSUME NEW p \in ProductIds, DeleteProduct(p)
      PROVE  TypeOK'
  <2>1. DropProducts({p})
    BY <1>7 DEF DeleteProduct
  <2>2. /\ products' = products \ {p}
        /\ \A q \in products' : filed'[q] = filed[q]
        /\ inventory' = {i \in inventory : i[2] \notin {p}}
    BY <2>1, DropTypes
  <2>3. Range(filed') \subseteq categories
    BY <1>0, <2>2 DEF TablesOK, Range, products
  <2>4. TablesOK'
    BY <1>0, <1>7, <2>2, <2>3 DEF DeleteProduct, TablesOK
  <2>5. RunOK' /\ Flags'
    BY <1>0, <1>7, EditTypes DEF DeleteProduct, RunOK, Flags
  <2>6. QED
    BY <2>4, <2>5, TypePartsNext
<1>8. ASSUME NEW p \in ProductIds, NEW n \in Names, MoveProduct(p, n)
      PROVE  TypeOK'
  <2>1. products' = products
    BY <1>8 DEF MoveProduct, products
  <2>2. Range(filed') \subseteq categories'
    BY <1>0, <1>8, <2>1 DEF MoveProduct, TablesOK, Range, products
  <2>3. TablesOK'
    BY <1>0, <1>8, <2>1, <2>2 DEF MoveProduct, TablesOK
  <2>4. RunOK' /\ Flags'
    BY <1>0, <1>8, EditTypes DEF MoveProduct, RunOK, Flags
  <2>5. QED
    BY <2>3, <2>4, TypePartsNext
<1>9. CASE AddStore
  <2>1. lastStore < MaxStoreId /\ lastStore' = lastStore + 1 /\ lastStore \in 0 .. MaxStoreId
    BY <1>0, <1>9 DEF AddStore, TablesOK
  <2>2. lastStore' \in 0 .. MaxStoreId /\ 1 .. lastStore' = (1 .. lastStore) \cup {lastStore'}
    BY <2>1, Numbers
  <2>3. TablesOK'
    BY <1>0, <1>9, <2>2 DEF AddStore, TablesOK, products
  <2>4. RunOK' /\ Flags'
    BY <1>0, <1>9, EditTypes DEF AddStore, RunOK, Flags
  <2>5. QED
    BY <2>3, <2>4, TypePartsNext
<1>10. ASSUME NEW s \in StoreIds, DeleteStore(s)
       PROVE  TypeOK'
  <2>1. TablesOK'
    BY <1>0, <1>10 DEF DeleteStore, TablesOK, products
  <2>2. RunOK' /\ Flags'
    BY <1>0, <1>10, EditTypes DEF DeleteStore, RunOK, Flags
  <2>3. QED
    BY <2>1, <2>2, TypePartsNext
<1>11. QED
  BY <1>1, <1>2, <1>3, <1>4, <1>5, <1>6, <1>7, <1>8, <1>9, <1>10 DEF Shop

LEMMA TypeStep == IInv /\ [Next]_vars => TypeOK'
<1> SUFFICES ASSUME IInv, [Next]_vars PROVE TypeOK'
  OBVIOUS
<1>1. CASE Kill
  BY <1>1 DEF IInv, Kill, TypeOK, products, tables, locals, list, ids, counters, history, Ended
<1>2. CASE UNCHANGED vars
  BY <1>2 DEF IInv, vars, TypeOK, products, tables, locals, list, ids, counters, history
<1>3. QED
  BY <1>1, <1>2, CommandTypes, ShopTypes DEF Next, IInv

-----------------------------------------------------------------------------
(* Counting products.                                                      *)

LEMMA EnoughOrNot == \A m, n \in Nat : m >= n \/ m < n
OBVIOUS

(* All other steps than the two that create products leave no more of them *)
(* than there were, and lead to their creation only through the count.     *)
LEMMA NoneCreated ==
    ASSUME TypeOK, [Next]_vars,
           ~(at = "create products" /\ FileNew(NumProducts - existing)),
           \A n \in Names : ~CreateProduct(n)
    PROVE  /\ products' \subseteq products
           /\ created' = created
           /\ at' = "create products" =>
                \/ at = "create products" /\ existing' = existing
                \/ /\ existing' = Cardinality(products) /\ existing' < NumProducts
                   /\ products' = products
<1> USE DEF vars, tables, locals, list, ids, counters, history
<1>1. CASE UNCHANGED vars \/ Kill
  BY <1>1 DEF Kill, products
<1>2. CASE Command
  <2>1. CASE Begin \/ ClearInventory \/ ClearCategories \/ ClearStores \/ SeedCategory
    BY <2>1 DEF Begin, ClearInventory, ClearCategories, ClearStores, SeedCategory, Abort, products
  <2>2. CASE ClearProducts
    BY <2>2, DropTypes DEF ClearProducts, Abort, products
  <2>3. CASE CountProducts
    <3>1. /\ existing' = Cardinality(products) /\ UNCHANGED <<filed, created>>
          /\ at' = IF existing' >= NumProducts THEN "list products" ELSE "create products"
      BY <2>3 DEF CountProducts
    <3>2. existing' \in Nat /\ NumProducts \in Nat
      BY <3>1, FiniteProducts, Numbers
    <3>3. at' = "create products" => existing' < NumProducts
      <4>1. existing' >= NumProducts \/ existing' < NumProducts
        BY <3>2, EnoughOrNot
      <4>2. existing' >= NumProducts => at' = "list products"
        BY <3>1
      <4>3. QED
        BY <4>1, <4>2
    <3>4. QED
      BY <3>1, <3>3 DEF products
  <2>4. CASE CreateProducts
    BY <2>4 DEF CreateProducts, Abort, products
  <2>5. CASE ListProducts \/ SeedStore \/ Finish
    BY <2>5 DEF ListProducts, SeedStore, Finish, products
  <2>6. ASSUME NEW s \in StoreIds, StockStore(s)
        PROVE  UNCHANGED <<filed, created>> /\ at' # "create products"
    BY <2>6 DEF StockStore, Abort
  <2>7. QED
    BY <1>2, <2>1, <2>2, <2>3, <2>4, <2>5, <2>6 DEF Command, products
<1>3. CASE Shop
  <2>1. UNCHANGED <<at, existing, created>>
    BY <1>3 DEF Shop, PlaceOrder, AddInventory, AddCategory, DeleteCategory, RenameCategory,
                DeleteProduct, MoveProduct, AddStore, DeleteStore
  <2>2. ASSUME NEW p \in ProductIds, DeleteProduct(p)
        PROVE  products' \subseteq products
    BY <2>2, DropTypes DEF DeleteProduct
  <2>3. products' \subseteq products
    BY <1>3, <2>2 DEF Shop, PlaceOrder, AddInventory, AddCategory, DeleteCategory,
                      RenameCategory, MoveProduct, AddStore, DeleteStore, products
  <2>4. QED
    BY <2>1, <2>3
<1>4. QED
  BY <1>1, <1>2, <1>3 DEF Next

LEMMA CountStep == IInv /\ [Next]_vars => CountUsed' /\ ToppedUp'
<1> SUFFICES ASSUME IInv, [Next]_vars PROVE CountUsed' /\ ToppedUp'
  OBVIOUS
<1>0. /\ Cardinality(products) \in Nat /\ existing \in Nat /\ created \in Nat
      /\ NumProducts \in Nat /\ Cardinality(products) <= NumProducts + created
  BY FiniteProducts, Numbers, TypeParts DEF IInv, RunOK, ToppedUp
<1>1. CASE at = "create products" /\ FileNew(NumProducts - existing)
  <2>1. existing < NumProducts /\ Cardinality(products) <= existing + created
    BY <1>1 DEF IInv, CountUsed
  <2>2. NumProducts - existing \in Nat
    BY <1>0, <2>1
  <2>3. Cardinality(products') = Cardinality(products) + (NumProducts - existing)
    BY <1>1, <2>2, FileTypes DEF IInv
  <2>4. at' = "list products"
    BY <1>1 DEF FileNew
  <2>5. created' = created
    <3>1. CASE Shop
      BY <1>1, <2>4, <3>1 DEF Shop, PlaceOrder, AddInventory, CreateProduct, AddCategory,
            DeleteCategory, RenameCategory, DeleteProduct, MoveProduct, AddStore, DeleteStore
    <3>2. CASE CreateProducts
      BY <3>2 DEF CreateProducts, history
    <3>3. QED
      BY <1>1, <2>4, <3>1, <3>2 DEF Next, Command, Begin, ClearInventory, ClearProducts,
            ClearCategories, ClearStores, SeedCategory, CountProducts, ListProducts, SeedStore,
            StockStore, Finish, Kill, Ended, vars, history
  <2>6. Cardinality(products') <= NumProducts + created'
    BY <1>0, <2>1, <2>3, <2>5
  <2>7. QED
    BY <2>4, <2>6 DEF CountUsed, ToppedUp
<1>2. ASSUME NEW n \in Names, CreateProduct(n)
      PROVE  CountUsed' /\ ToppedUp'
  <2>1. Cardinality(products') = Cardinality(products) + 1
    BY <1>2, CreateTypes DEF IInv
  <2>2. created' = created + 1 /\ UNCHANGED <<at, existing>>
    BY <1>2 DEF CreateProduct, locals
  <2>3. Cardinality(products') <= NumProducts + created'
    BY <1>0, <2>1, <2>2
  <2>4. ASSUME at = "create products"
        PROVE  existing < NumProducts /\ Cardinality(products') <= existing + created'
    <3>1. existing < NumProducts /\ Cardinality(products) <= existing + created
      BY <2>4 DEF IInv, CountUsed
    <3>2. created' = created + 1
      BY <2>2
    <3>3. QED
      BY <1>0, <2>1, <3>1, <3>2
  <2>5. QED
    BY <2>2, <2>3, <2>4 DEF CountUsed, ToppedUp
<1>3. CASE /\ ~(at = "create products" /\ FileNew(NumProducts - existing))
           /\ \A n \in Names : ~CreateProduct(n)
  <2>1. /\ products' \subseteq products
        /\ created' = created
        /\ at' = "create products" =>
                \/ at = "create products" /\ existing' = existing
                \/ /\ existing' = Cardinality(products) /\ existing' < NumProducts
                   /\ products' = products
    BY <1>3, NoneCreated DEF IInv
  <2>2. Cardinality(products') \in Nat /\ Cardinality(products') <= Cardinality(products)
    BY <2>1, FewerProducts DEF IInv
  <2>3. created' = created
    BY <2>1
  <2>4. Cardinality(products') <= NumProducts + created'
    BY <1>0, <2>2, <2>3
  <2>5. CASE at = "create products" /\ existing' = existing
    <3>1. existing' = existing /\ existing < NumProducts
          /\ Cardinality(products) <= existing + created
      BY <2>5 DEF IInv, CountUsed
    <3>2. existing' < NumProducts /\ Cardinality(products') <= existing' + created'
      BY <1>0, <2>2, <2>3, <3>1
    <3>3. QED
      BY <2>4, <3>2 DEF CountUsed, ToppedUp
  <2>6. CASE /\ existing' = Cardinality(products) /\ existing' < NumProducts
             /\ products' = products
    <3>1. existing' = Cardinality(products)
      BY <2>6
    <3>2. Cardinality(products') <= existing' + created'
      BY <1>0, <2>2, <2>3, <3>1
    <3>3. QED
      BY <2>4, <2>6, <3>2 DEF CountUsed, ToppedUp
  <2>7. QED
    BY <2>1, <2>4, <2>5, <2>6 DEF CountUsed, ToppedUp
<1>4. QED
  BY <1>1, <1>2, <1>3

LEMMA ChosenStep == IInv /\ [Next]_vars => NoneChosen'
<1> SUFFICES ASSUME IInv, [Next]_vars PROVE NoneChosen'
  OBVIOUS
<1>1. CASE Shop
  BY <1>1 DEF Shop, PlaceOrder, AddInventory, CreateProduct, AddCategory, DeleteCategory,
        RenameCategory, DeleteProduct, MoveProduct, AddStore, DeleteStore, locals, list, IInv,
        NoneChosen
<1>2. CASE Command \/ Kill \/ UNCHANGED vars
  BY <1>2 DEF Command, Begin, ClearInventory, ClearProducts, ClearCategories, ClearStores,
        SeedCategory, CountProducts, CreateProducts, FileNew, ListProducts, SeedStore, StockStore,
        Finish, Kill, Abort, Clearing, vars, locals, list, IInv, NoneChosen
<1>3. QED
  BY <1>1, <1>2 DEF Next

-----------------------------------------------------------------------------

THEOREM InductiveInvariant == Spec => []IInv
<1>1. IInv /\ [Next]_vars => IInv'
  BY TypeStep, CountStep, ChosenStep DEF IInv
<1>2. QED
  BY <1>1, InitIInv, PTL DEF Spec

(* Whatever runs, kills and edits came before, every row refers to rows    *)
(* that are there, and so do the categories the command still holds.       *)
THEOREM TablesConsistent == Spec => []TypeOK
<1>1. IInv => TypeOK
  BY DEF IInv
<1>2. QED
  BY <1>1, InductiveInvariant, PTL

(* Any number of runs, ended or killed anywhere, never create more than    *)
(* NUM_PRODUCTS products between them.                                     *)
THEOREM NeverOvershoots == Spec => []ToppedUp
<1>1. IInv => ToppedUp
  BY DEF IInv
<1>2. QED
  BY <1>1, InductiveInvariant, PTL
-----------------------------------------------------------------------------
(* What a run has done stays done.                                         *)

(* The statements after the categories, the products, the selection of the *)
(* products and the stores.                                                *)
Stocking == {"inventory", "done"}
Opening == Stocking \cup {"stores"}
Listing == Opening \cup {"list products"}
Filing == Listing \cup {"count products", "create products"}

Least == Min({MinInventory, NumProducts})

RunningOnce == runs \in Nat /\ (at # "done" => runs > 0)

NothingYet == at \in Clearing => got = {} /\ own = {} /\ stocked = {}

CategoriesKept ==
    runs > 0 /\ ~disturbed =>
        /\ got \subseteq categories
        /\ at \in Filing => got = CategoryNames

ProductsKept ==
    runs > 0 /\ ~disturbed =>
        /\ at = "create products" => existing <= Cardinality(products)
        /\ at \in Listing => Cardinality(products) >= NumProducts
        /\ at \in Opening => Cardinality(listed) >= NumProducts

StoresKept ==
    /\ runs > 0 /\ at \in Stocking => Cardinality(own) = NumStores
    /\ ~disturbed => own \subseteq stores

StockKept ==
    /\ runs > 0 /\ at = "done" => stocked = own
    /\ ~disturbed => \A s \in stocked : Cardinality(StockOf(s)) >= Least

Kept == NothingYet /\ CategoriesKept /\ ProductsKept /\ StoresKept /\ StockKept

LEMMA Transitive ==
    \A l, m, n \in Nat : /\ l <= m /\ m <= n => l <= n
                         /\ l <= m /\ n >= m => n >= l
                         /\ m >= l /\ m <= n => n >= l
OBVIOUS

LEMMA Topped ==
    \A have, counted, wanted \in Nat :
        counted <= have => have + (wanted - counted) >= wanted
OBVIOUS

LEMMA MinOfTwo ==
    ASSUME NEW a \in Nat, NEW b \in Nat
    PROVE  Min({a, b}) = IF a <= b THEN a ELSE b
BY DEF Min

LEMMA FiniteListed ==
    ASSUME TypeOK, NEW S, S \subseteq listed
    PROVE  IsFiniteSet(S) /\ Cardinality(S) \in Nat
<1>1. IsFiniteSet(ProductIds)
  BY Numbers, FS_Interval DEF ProductIds
<1>2. S \in SUBSET ProductIds
  BY DEF TypeOK
<1>3. IsFiniteSet(S)
  BY <1>1, <1>2, FS_Subset
<1>4. QED
  BY <1>3, FS_CardinalityType

LEMMA FiniteInventory ==
    ASSUME TypeOK, NEW S, S \subseteq inventory
    PROVE  IsFiniteSet(S) /\ Cardinality(S) \in Nat
<1>1. IsFiniteSet(1 .. lastStore)
  BY FS_Interval DEF TypeOK
<1>2. IsFiniteSet((1 .. lastStore) \X products)
  BY <1>1, FiniteProducts, FS_Product
<1>3. S \in SUBSET ((1 .. lastStore) \X products)
  BY DEF TypeOK
<1>4. IsFiniteSet(S)
  BY <1>2, <1>3, FS_Subset
<1>5. QED
  BY <1>4, FS_CardinalityType

LEMMA FiniteStockNext ==
    ASSUME TypeOK', NEW s
    PROVE  IsFiniteSet(StockOf(s)') /\ Cardinality(StockOf(s)') \in Nat
<1>1. IsFiniteSet(1 .. lastStore') /\ IsFiniteSet(1 .. lastProduct')
  BY FS_Interval DEF TypeOK
<1>2. IsFiniteSet((1 .. lastStore') \X (1 .. lastProduct'))
  BY <1>1, FS_Product
<1>3. StockOf(s)' \in SUBSET ((1 .. lastStore') \X (1 .. lastProduct'))
  BY DEF TypeOK, StockOf
<1>4. IsFiniteSet(StockOf(s)')
  BY <1>2, <1>3, FS_Subset
<1>5. QED
  BY <1>4, FS_CardinalityType

(* If there are NUM_PRODUCTS products, the newest are NUM_PRODUCTS: of the *)
(* others, the newest one would have fewer than that many above it.        *)
LEMMA EnoughNewest ==
    ASSUME TypeOK, Cardinality(products) >= NumProducts
    PROVE  Newest \subseteq products /\ Cardinality(Newest) >= NumProducts
<1> DEFINE Above(p) == {q \in products : q > p}
           rest == products \ Newest
           Ordering == StrictSubsetOrdering(products)
<1>1. Newest \subseteq products
  BY DEF Newest
<1>2. ASSUME NEW S, S \subseteq products
      PROVE  IsFiniteSet(S) /\ Cardinality(S) \in Nat
  <2>1. IsFiniteSet(S)
    BY <1>2, FiniteProducts, FS_Subset
  <2>2. QED
    BY <2>1, FS_CardinalityType
<1>3. CASE rest = {}
  BY <1>1, <1>3
<1>4. CASE rest # {}
  <2> DEFINE aboves == {Above(p) : p \in rest}
  <2>1. IsWellFoundedOn(Ordering, FiniteSubsetsOf(products))
    BY FS_StrictSubsetOrderingWellFounded
  <2>2. aboves \subseteq FiniteSubsetsOf(products) /\ aboves # {}
    BY <1>2, <1>4 DEF FiniteSubsetsOf
  <2>3. \E A \in aboves : \A B \in aboves : ~(<<B, A>> \in Ordering)
    <3> HIDE DEF aboves, Ordering
    <3>1. QED
      BY <2>1, <2>2, WFMin
  <2>4. PICK p \in rest : \A q \in rest : ~(<<Above(q), Above(p)>> \in Ordering)
    BY <2>3
  <2>5. products \subseteq Nat
    BY DEF TypeOK
  <2>6. Above(p) \subseteq Newest
    <3>1. ASSUME NEW q \in Above(p), q \in rest
          PROVE  FALSE
      <4>0. p \in Nat /\ q \in Nat /\ q > p
        BY <2>5
      <4>1. Above(q) \subseteq Above(p) /\ q \in Above(p) /\ q \notin Above(q)
        <5>1. ASSUME NEW x \in Above(q)
              PROVE  x \in Above(p)
          BY <2>5, <4>0, <5>1
        <5>2. q \notin Above(q)
          BY <4>0
        <5>3. QED
          BY <5>1, <5>2
      <4>2. <<Above(q), Above(p)>> \in Ordering
        BY <4>1 DEF StrictSubsetOrdering
      <4>3. QED
        BY <2>4, <3>1, <4>2
    <3>2. QED
      BY <3>1
  <2>7. Cardinality(Above(p)) <= Cardinality(Newest)
    BY <1>1, <1>2, <2>6, FS_Subset
  <2>8. ~(Cardinality(Above(p)) < NumProducts)
    BY <2>4 DEF Newest
  <2>9. Cardinality(Above(p)) \in Nat /\ Cardinality(Newest) \in Nat
    BY <1>1, <1>2
  <2>10. QED
    BY <1>1, <2>7, <2>8, <2>9, Numbers
<1>5. QED
  BY <1>3, <1>4

(* Nothing disappears from the tables.                                     *)
Grow ==
    /\ categories \subseteq categories' /\ products \subseteq products'
    /\ stores \subseteq stores' /\ inventory \subseteq inventory'

LEMMA FiniteNext ==
    ASSUME TypeOK'
    PROVE  IsFiniteSet(products') /\ Cardinality(products') \in Nat
<1>1. IsFiniteSet(1 .. lastProduct')
  BY FS_Interval DEF TypeOK
<1>2. products' \in SUBSET (1 .. lastProduct')
  BY DEF TypeOK
<1>3. IsFiniteSet(products')
  BY <1>1, <1>2, FS_Subset
<1>4. QED
  BY <1>3, FS_CardinalityType

LEMMA MoreProducts ==
    ASSUME TypeOK', products \subseteq products'
    PROVE  Cardinality(products) <= Cardinality(products')
BY FiniteNext, FS_Subset

LEMMA FiniteStock ==
    ASSUME TypeOK, NEW s
    PROVE  Cardinality(StockOf(s)) \in Nat
BY FiniteInventory DEF StockOf

LEMMA MoreStock ==
    ASSUME TypeOK', inventory \subseteq inventory', NEW s
    PROVE  /\ Cardinality(StockOf(s)') \in Nat
           /\ Cardinality(StockOf(s)) <= Cardinality(StockOf(s)')
<1>1. IsFiniteSet(StockOf(s)')
  BY FiniteStockNext
<1>2. StockOf(s) \in SUBSET (StockOf(s)')
  BY DEF StockOf
<1>3. QED
  BY <1>1, <1>2, FS_Subset, FS_CardinalityType

LEMMA LeastType == Least \in Nat
BY SeedAssumption, MinOfTwo, Zenon DEF Least
LEMMA StillGrow == UNCHANGED tables => Grow
BY DEF tables, Grow, products

(* Steps that neither begin a run nor take it a statement further.         *)
LEMMA Carried ==
    ASSUME TypeOK, TypeOK', Kept, UNCHANGED <<got, existing, listed, own, stocked, runs>>,
           at' = at \/ at' \in {"failed", "killed"},
           disturbed' \/ (~disturbed /\ Grow)
    PROVE  Kept'
<1>1. NothingYet'
  BY DEF Kept, NothingYet, Clearing
<1>2. CategoriesKept'
  BY DEF Kept, CategoriesKept, Grow, Filing, Listing, Opening, Stocking
<1>3. ProductsKept'
  <2>1. SUFFICES ASSUME runs > 0, ~disturbed, Grow
                 PROVE  ProductsKept'
    BY DEF ProductsKept
  <2>2. Cardinality(products) <= Cardinality(products')
    BY <2>1, MoreProducts DEF Grow
  <2>3. Cardinality(products) \in Nat /\ Cardinality(products') \in Nat /\ existing \in Nat
        /\ NumProducts \in Nat
    BY FiniteProducts, FiniteNext, Numbers DEF TypeOK
  <2>4. /\ at = "create products" => existing <= Cardinality(products)
        /\ at \in Listing => Cardinality(products) >= NumProducts
        /\ at \in Opening => Cardinality(listed) >= NumProducts
    BY <2>1 DEF Kept, ProductsKept
  <2>5. /\ at' = "create products" => at = "create products"
        /\ at' \in Listing => at \in Listing
        /\ at' \in Opening => at \in Opening
    BY DEF Listing, Opening, Stocking
  <2>6. /\ at' = "create products" => existing' <= Cardinality(products')
        /\ at' \in Listing => Cardinality(products') >= NumProducts
    <3>1. at = "create products" => existing' <= Cardinality(products')
      BY <2>2, <2>3, <2>4, Transitive
    <3>2. at \in Listing => Cardinality(products') >= NumProducts
      BY <2>2, <2>3, <2>4, Transitive
    <3>3. QED
      BY <2>5, <3>1, <3>2
  <2>7. at' \in Opening => Cardinality(listed') >= NumProducts
    BY <2>4, <2>5
  <2>8. QED
    BY <2>6, <2>7 DEF ProductsKept
<1>4. StoresKept'
  BY DEF Kept, StoresKept, Stocking, Grow
<1>5. StockKept'
  <2>1. \A s \in stocked : ~disturbed' =>
            /\ Cardinality(StockOf(s)) >= Least
            /\ Cardinality(StockOf(s)) <= Cardinality(StockOf(s)')
            /\ Cardinality(StockOf(s)) \in Nat /\ Cardinality(StockOf(s)') \in Nat
    BY FiniteStock, MoreStock DEF Kept, StockKept, Grow
  <2>2. \A s \in stocked : ~disturbed' => Cardinality(StockOf(s)') >= Least
    BY <2>1, LeastType
  <2>3. QED
    BY <2>2 DEF Kept, StockKept, StockOf
<1>6. QED
  BY <1>1, <1>2, <1>3, <1>4, <1>5 DEF Kept
(* An exception: the tables are as they were.                              *)
LEMMA AbortKeeps ==
    ASSUME TypeOK, TypeOK', Kept, Abort, UNCHANGED <<locals, runs, disturbed>>
    PROVE  Kept'
<1>1. UNCHANGED <<got, existing, listed, own, stocked, runs>> /\ at' = "failed"
  BY DEF Abort, locals, list
<1>2. disturbed' \/ (~disturbed /\ Grow)
  BY Zenon, StillGrow DEF Abort
<1>3. QED
  BY <1>1, <1>2, Carried

LEMMA ShopKeeps ==
    ASSUME TypeOK, TypeOK', Kept, Shop
    PROVE  Kept'
<1> USE DEF locals, list, history
<1>1. UNCHANGED <<at, got, existing, listed, own, stocked, runs>>
  BY DEF Shop, PlaceOrder, AddInventory, CreateProduct, AddCategory, DeleteCategory,
         RenameCategory, DeleteProduct, MoveProduct, AddStore, DeleteStore, counters
<1>2. disturbed' = TRUE \/ (disturbed' = disturbed /\ Grow)
  <2>1. ASSUME NEW n \in Names, CreateProduct(n)
        PROVE  disturbed' = disturbed /\ Grow
    BY <2>1 DEF CreateProduct, Grow, products
  <2>2. ASSUME NEW p \in ProductIds, NEW n \in Names, MoveProduct(p, n)
        PROVE  disturbed' = disturbed /\ Grow
    BY <2>2 DEF MoveProduct, Grow, products
  <2>3. ASSUME NEW s \in StoreIds, NEW p \in ProductIds, PlaceOrder(s, p) \/ AddInventory(s, p)
        PROVE  disturbed' = disturbed /\ Grow
    BY <2>3 DEF PlaceOrder, AddInventory, Grow, products
  <2>4. ASSUME NEW n \in Names, AddCategory(n)
        PROVE  disturbed' = disturbed /\ Grow
    BY <2>4 DEF AddCategory, Grow, products
  <2>5. CASE AddStore
    BY <2>5 DEF AddStore, Grow, products
  <2>6. QED
    BY <2>1, <2>2, <2>3, <2>4, <2>5 DEF Shop, DeleteCategory, RenameCategory, DeleteProduct,
                                        DeleteStore
<1>3. disturbed' \/ (~disturbed /\ Grow)
  BY <1>2, Zenon DEF TypeOK
<1>4. QED
  BY <1>1, <1>3, Carried

LEMMA BeginKeeps ==
    ASSUME TypeOK, Begin
    PROVE  Kept'
<1>1. /\ at' \in {"clear inventory", "categories"}
      /\ got' = {} /\ own' = {} /\ stocked' = {}
  BY DEF Begin
<1>2. at' \notin Filing /\ at' \notin Stocking /\ at' # "done" /\ at' # "create products"
      /\ at' \notin Opening /\ at' \notin Listing
  BY <1>1 DEF Filing, Listing, Opening, Stocking
<1>3. QED
  BY <1>1, <1>2 DEF Kept, NothingYet, CategoriesKept, ProductsKept, StoresKept, StockKept

LEMMA ClearKeeps ==
    ASSUME TypeOK, TypeOK', Kept,
           ClearInventory \/ ClearProducts \/ ClearCategories \/ ClearStores
    PROVE  Kept'
<1>1. at \in Clearing /\ UNCHANGED <<locals, runs, disturbed>>
  BY DEF ClearInventory, ClearProducts, ClearCategories, ClearStores, Clearing, counters, history
<1>2. CASE Abort
  BY <1>1, <1>2, AbortKeeps
<1>3. CASE ~Abort
  <2>1. got' = {} /\ own' = {} /\ stocked' = {}
    BY <1>1 DEF Kept, NothingYet, locals, list
  <2>2. at' \in Clearing \cup {"categories"}
    BY <1>3 DEF ClearInventory, ClearProducts, ClearCategories, ClearStores, Clearing
  <2>3. at' \notin Filing /\ at' \notin Stocking /\ at' # "done" /\ at' # "create products"
        /\ at' \notin Opening /\ at' \notin Listing
    BY <2>2 DEF Filing, Listing, Opening, Stocking, Clearing
  <2>4. QED
    BY <2>1, <2>3 DEF Kept, NothingYet, CategoriesKept, ProductsKept, StoresKept, StockKept
<1>4. QED
  BY <1>2, <1>3

(* Statements of a run that only add to the tables: what has been done     *)
(* stays done, and the step itself brings what its successor counts on.    *)
LEMMA StockStays ==
    ASSUME TypeOK, TypeOK', Kept, inventory \subseteq inventory', UNCHANGED disturbed
    PROVE  ~disturbed' => \A s \in stocked : Cardinality(StockOf(s)') >= Least
<1>1. ASSUME NEW s \in stocked, ~disturbed'
      PROVE  Cardinality(StockOf(s)') >= Least
  <2>1. Cardinality(StockOf(s)) >= Least
    BY <1>1, Zenon DEF Kept, StockKept
  <2>2. Cardinality(StockOf(s)) <= Cardinality(StockOf(s)')
    BY MoreStock
  <2>3. Cardinality(StockOf(s)) \in Nat /\ Cardinality(StockOf(s)') \in Nat /\ Least \in Nat
    BY FiniteStock, MoreStock, LeastType
  <2>4. QED
    BY <2>1, <2>2, <2>3, Transitive
<1>2. QED
  BY <1>1

LEMMA SeedCategoryKeeps ==
    ASSUME TypeOK, TypeOK', Kept, SeedCategory
    PROVE  Kept'
<1>1. /\ at = "categories" /\ at' \in {"categories", "count products"}
      /\ at' = "count products" => got' = CategoryNames
      /\ got \subseteq categories => got' \subseteq categories'
      /\ UNCHANGED <<stores, inventory, own, stocked, runs, disturbed>>
  BY DEF SeedCategory, counters, history
<1>2. NothingYet' /\ at' \notin Listing /\ at' \notin Opening /\ at' \notin Stocking
      /\ at' # "create products" /\ at' # "done"
  BY <1>1 DEF NothingYet, Clearing, Listing, Opening, Stocking
<1>3. CategoriesKept'
  BY <1>1 DEF Kept, CategoriesKept, Filing, Listing, Opening, Stocking
<1>4. ProductsKept' /\ StoresKept'
  BY <1>1, <1>2 DEF Kept, ProductsKept, StoresKept
<1>5. StockKept'
  BY <1>1, <1>2, StockStays DEF StockKept, StockOf
<1>6. QED
  BY <1>2, <1>3, <1>4, <1>5 DEF Kept
LEMMA CountProductsKeeps ==
    ASSUME TypeOK, TypeOK', Kept, CountProducts
    PROVE  Kept'
<1>1. /\ at = "count products" /\ at' \in {"list products", "create products"}
      /\ existing' = Cardinality(products)
      /\ at' = "list products" => existing' >= NumProducts
      /\ products' = products
      /\ UNCHANGED <<categories, stores, inventory, got, own, stocked, runs, disturbed>>
  BY DEF CountProducts, tables, list, counters, history, products
<1>2. NothingYet' /\ at' \notin Opening /\ at' \notin Stocking /\ at' # "done"
  BY <1>1 DEF NothingYet, Clearing, Opening, Stocking
<1>3. CategoriesKept'
  BY <1>1 DEF Kept, CategoriesKept, Filing
<1>4. ProductsKept'
  <2>1. existing' <= Cardinality(products')
    <3>1. existing' = Cardinality(products) /\ products' = products
      BY <1>1
    <3>2. Cardinality(products) \in Nat
      BY FiniteProducts
    <3>3. QED
      BY <3>1, <3>2
  <2>2. at' \in Listing => Cardinality(products') >= NumProducts
    BY <1>1 DEF Listing, Opening, Stocking
  <2>3. QED
    BY <1>2, <2>1, <2>2 DEF ProductsKept
<1>5. StoresKept' /\ StockKept'
  BY <1>1, <1>2, StockStays DEF Kept, StoresKept, StockKept, StockOf
<1>6. QED
  BY <1>2, <1>3, <1>4, <1>5 DEF Kept

LEMMA CreateProductsKeeps ==
    ASSUME TypeOK, TypeOK', CountUsed, Kept, CreateProducts
    PROVE  Kept'
<1>1. at = "create products" /\ UNCHANGED <<locals, runs, disturbed>>
  BY DEF CreateProducts, counters, history
<1>2. CASE Abort
  BY <1>1, <1>2, AbortKeeps
<1>3. CASE FileNew(NumProducts - existing)
  <2>1. existing < NumProducts /\ existing \in Nat /\ NumProducts \in Nat
    BY <1>1, Numbers DEF CountUsed, TypeOK
  <2>2. NumProducts - existing \in Nat
    BY <2>1
  <2>3. Cardinality(products') = Cardinality(products) + (NumProducts - existing)
    BY <1>3, <2>2, FileTypes
  <2>4. at' = "list products" /\ UNCHANGED <<categories, stores, inventory>>
    BY <1>3 DEF FileNew
  <2>5. UNCHANGED <<got, existing, own, stocked, runs, disturbed>>
    BY <1>1 DEF locals, list
  <2>6. NothingYet' /\ at' \notin Opening /\ at' \notin Stocking /\ at' # "done"
        /\ at' # "create products"
    BY <2>4 DEF NothingYet, Clearing, Opening, Stocking
  <2>7. CategoriesKept'
    <3>1. SUFFICES ASSUME runs' > 0, ~disturbed'
                   PROVE  got' \subseteq categories' /\ got' = CategoryNames
      BY DEF CategoriesKept
    <3>2. runs > 0 /\ ~disturbed
      BY <2>5, <3>1
    <3>3. got \subseteq categories /\ got = CategoryNames
      BY <1>1, <3>2, Zenon DEF Kept, CategoriesKept, Filing
    <3>4. QED
      BY <2>4, <2>5, <3>3
  <2>8. ProductsKept'
    <3>1. SUFFICES ASSUME runs' > 0, ~disturbed'
                   PROVE  Cardinality(products') >= NumProducts
      BY <2>6 DEF ProductsKept
    <3>2. runs > 0 /\ ~disturbed
      BY <2>5, <3>1
    <3>3. existing <= Cardinality(products)
      BY <1>1, <3>2, Zenon DEF Kept, ProductsKept
    <3>4. QED
      BY <2>1, <2>3, <3>3, FiniteProducts, Topped
  <2>9. StoresKept' /\ StockKept'
    BY <2>4, <2>5, <2>6, StockStays DEF Kept, StoresKept, StockKept, StockOf
  <2>10. QED
    BY <2>6, <2>7, <2>8, <2>9 DEF Kept
<1>4. QED
  BY <1>2, <1>3 DEF CreateProducts

LEMMA ListProductsKeeps ==
    ASSUME TypeOK, TypeOK', Kept, ListProducts
    PROVE  Kept'
<1>1. /\ at = "list products" /\ at' = "stores"
      /\ listed' = IF existing >= NumProducts THEN Newest ELSE products
      /\ products' = products
      /\ UNCHANGED <<categories, stores, inventory, got, own, stocked, runs, disturbed>>
  BY DEF ListProducts, tables, list, counters, history, products
<1>2. NothingYet' /\ at' \notin Stocking /\ at' # "done" /\ at' # "create products"
  BY <1>1 DEF NothingYet, Clearing, Stocking
<1>3. CategoriesKept'
  BY <1>1 DEF Kept, CategoriesKept, Filing, Listing, Opening
<1>4. ProductsKept'
  <2>1. SUFFICES ASSUME runs' > 0, ~disturbed'
                 PROVE  /\ Cardinality(products') >= NumProducts
                        /\ Cardinality(listed') >= NumProducts
    BY <1>2 DEF ProductsKept
  <2>2. Cardinality(products) >= NumProducts
    BY <1>1, <2>1, Zenon DEF Kept, ProductsKept, Listing
  <2>3. Cardinality(Newest) >= NumProducts
    BY <2>2, EnoughNewest
  <2>4. QED
    BY <1>1, <2>2, <2>3
<1>5. StoresKept' /\ StockKept'
  BY <1>1, <1>2, StockStays DEF Kept, StoresKept, StockKept, StockOf
<1>6. QED
  BY <1>2, <1>3, <1>4, <1>5 DEF Kept

LEMMA SeedStoreKeeps ==
    ASSUME TypeOK, TypeOK', Kept, SeedStore
    PROVE  Kept'
<1>1. /\ at = "stores" /\ at' \in {"stores", "inventory"}
      /\ at' = "inventory" => Cardinality(own') = NumStores
      /\ own \subseteq stores => own' \subseteq stores'
      /\ products' = products
      /\ UNCHANGED <<categories, inventory, got, listed, stocked, runs, disturbed>>
  BY DEF SeedStore, list, counters, history, products
<1>2. NothingYet' /\ at' # "done" /\ at' # "create products"
  BY <1>1 DEF NothingYet, Clearing
<1>3. CategoriesKept'
  BY <1>1 DEF Kept, CategoriesKept, Filing, Listing, Opening, Stocking
<1>4. ProductsKept'
  BY <1>1, <1>2 DEF Kept, ProductsKept, Listing, Opening, Stocking
<1>5. StoresKept'
  BY <1>1 DEF Kept, StoresKept, Stocking
<1>6. StockKept'
  BY <1>1, <1>2, StockStays DEF StockKept, StockOf
<1>7. QED
  BY <1>2, <1>3, <1>4, <1>5, <1>6 DEF Kept

(* A sample is as large as the least stock of a store.                     *)
LEMMA SampleLargeEnough ==
    ASSUME TypeOK, NEW sample \in Samples, Cardinality(listed) >= NumProducts
    PROVE  sample \subseteq listed /\ Cardinality(sample) >= Least
<1>1. sample \subseteq listed
  BY DEF Samples
<1>2. PICK n \in MinInventory .. MaxInventory :
            Cardinality(sample) = Min({n, Cardinality(listed)})
  BY DEF Samples
<1>3. /\ MinInventory \in Nat /\ MaxInventory \in Nat /\ NumProducts \in Nat
  BY Zenon, SeedAssumption
<1>4. Cardinality(listed) \in Nat
  BY FiniteListed
<1>5. n \in Nat /\ n >= MinInventory
  BY <1>3
<1>6. Cardinality(sample) = IF n <= Cardinality(listed) THEN n ELSE Cardinality(listed)
  BY <1>2, <1>4, <1>5, MinOfTwo
<1>7. Least = IF MinInventory <= NumProducts THEN MinInventory ELSE NumProducts
  BY <1>3, MinOfTwo DEF Least
<1>8. QED
  BY <1>1, <1>3, <1>4, <1>5, <1>6, <1>7

LEMMA StockStoreKeeps ==
    ASSUME TypeOK, TypeOK', RunningOnce, Kept, NEW s \in StoreIds, StockStore(s)
    PROVE  Kept'
<1>1. at = "inventory" /\ s \in own \ stocked
      /\ UNCHANGED <<got, existing, listed, own, runs, disturbed>>
  BY DEF StockStore, list, counters, history
<1>2. CASE Abort /\ UNCHANGED stocked
  <2>1. disturbed' \/ (~disturbed /\ Grow)
    BY <1>1, <1>2, Zenon, StillGrow DEF Abort
  <2>2. at' = "failed"
    BY <1>2 DEF Abort
  <2>3. QED
    BY <1>1, <1>2, <2>1, <2>2, Carried
<1>3. ASSUME NEW sample \in Samples,
             inventory' = inventory \cup ({s} \X sample), stocked' = stocked \cup {s},
             UNCHANGED <<at, categories, filed, stores, ordered, served>>
      PROVE  Kept'
  <2>1. NothingYet' /\ at' # "done" /\ at' # "create products" /\ products' = products
    BY <1>1, <1>3 DEF NothingYet, Clearing, products
  <2>2. CategoriesKept' /\ ProductsKept' /\ StoresKept'
    BY <1>1, <1>3, <2>1 DEF Kept, CategoriesKept, ProductsKept, StoresKept
  <2>3. ASSUME ~disturbed', NEW t \in stocked'
        PROVE  Cardinality(StockOf(t)') >= Least
    <3>1. CASE t \in stocked
      BY <1>1, <1>3, <2>3, <3>1, StockStays
    <3>2. CASE t = s
      <4>1. runs > 0
        BY <1>1 DEF RunningOnce
      <4>2. Cardinality(listed) >= NumProducts
        BY <1>1, <2>3, <4>1, Zenon DEF Kept, ProductsKept, Opening, Stocking
      <4>3. sample \subseteq listed /\ Cardinality(sample) >= Least
        BY <4>2, SampleLargeEnough
      <4>4. IsFiniteSet(sample) /\ Cardinality(sample) \in Nat
        BY <4>3, FiniteListed
      <4>5. Cardinality({s} \X sample) = Cardinality(sample)
        <5>1. IsFiniteSet({s}) /\ Cardinality({s}) = 1
          BY FS_Singleton
        <5>2. Cardinality({s} \X sample) = Cardinality({s}) * Cardinality(sample)
          BY <4>4, <5>1, FS_Product
        <5>3. QED
          BY <4>4, <5>1, <5>2
      <4>6. {s} \X sample \subseteq StockOf(s)'
        BY <1>3 DEF StockOf
      <4>7. Cardinality({s} \X sample) <= Cardinality(StockOf(s)')
        BY <4>6, FiniteStockNext, FS_Subset
      <4>8. QED
        BY <3>2, <4>3, <4>4, <4>5, <4>7, FiniteStockNext, LeastType, Transitive
    <3>3. QED
      BY <1>3, <3>1, <3>2
  <2>4. StockKept'
    BY <2>1, <2>3 DEF StockKept
  <2>5. QED
    BY <2>1, <2>2, <2>4 DEF Kept
<1>4. QED
  BY <1>2, <1>3 DEF StockStore

LEMMA FinishKeeps ==
    ASSUME TypeOK, TypeOK', Kept, Finish
    PROVE  Kept'
<1>1. /\ at = "inventory" /\ at' = "done" /\ stocked' = own'
      /\ UNCHANGED <<tables, got, listed, own, stocked, runs, disturbed>>
  BY DEF Finish, locals, list, counters, history
<1>2. UNCHANGED <<categories, stores, inventory>> /\ products' = products
  BY <1>1 DEF tables, products
<1>3. NothingYet' /\ CategoriesKept'
  BY <1>1, <1>2 DEF Kept, NothingYet, CategoriesKept, Clearing, Filing, Listing, Opening, Stocking
<1>4. ProductsKept' /\ StoresKept'
  BY <1>1, <1>2 DEF Kept, ProductsKept, StoresKept, Listing, Opening, Stocking
<1>5. StockKept'
  BY <1>1, <1>2, StockStays DEF StockKept, StockOf
<1>6. QED
  BY <1>3, <1>4, <1>5 DEF Kept

LEMMA RunningStep == RunningOnce /\ [Next]_vars => RunningOnce'
<1> SUFFICES ASSUME RunningOnce, [Next]_vars PROVE RunningOnce'
  OBVIOUS
<1>1. CASE Begin
  <2>1. runs' = runs + 1
    BY <1>1 DEF Begin
  <2>2. QED
    BY <2>1 DEF RunningOnce
<1>2. CASE Shop
  <2>1. runs' = runs /\ at' = at
    BY <1>2 DEF Shop, PlaceOrder, AddInventory, CreateProduct, AddCategory,
        DeleteCategory, RenameCategory, DeleteProduct, MoveProduct, AddStore, DeleteStore, counters
  <2>2. QED
    BY <2>1 DEF RunningOnce
<1>3. CASE Kill \/ (Command /\ ~Begin) \/ UNCHANGED vars
  <2>1. runs' = runs /\ (at = "done" => at' = "done")
    BY <1>3 DEF Command, Kill, ClearInventory, ClearProducts, ClearCategories, ClearStores,
          SeedCategory, CountProducts, CreateProducts, ListProducts, SeedStore, StockStore,
          Finish, counters, vars, Clearing, Statements
  <2>2. QED
    BY <2>1 DEF RunningOnce
<1>4. QED
  BY <1>1, <1>2, <1>3 DEF Next

LEMMA KeptStep == IInv /\ IInv' /\ RunningOnce /\ Kept /\ [Next]_vars => Kept'
<1> SUFFICES ASSUME IInv, IInv', RunningOnce, Kept, [Next]_vars PROVE Kept'
  OBVIOUS
<1>0. TypeOK /\ TypeOK' /\ CountUsed
  BY DEF IInv
<1>1. CASE UNCHANGED vars \/ Kill
  <2>1. /\ UNCHANGED <<got, existing, listed, own, stocked, runs, disturbed, tables>>
        /\ at' = at \/ at' = "killed"
    BY <1>1 DEF Kill, vars, locals, list, counters, history
  <2>2. disturbed' \/ (~disturbed /\ Grow)
    BY <2>1, Zenon, StillGrow
  <2>3. QED
    BY <1>0, <2>1, <2>2, Carried
<1>2. CASE Command
  BY <1>0, <1>2, BeginKeeps, ClearKeeps, SeedCategoryKeeps, CountProductsKeeps,
     CreateProductsKeeps, ListProductsKeeps, SeedStoreKeeps, StockStoreKeeps, FinishKeeps
     DEF Command
<1>3. QED
  BY <1>0, <1>1, <1>2, ShopKeeps DEF Next

(* A run that gets to its end undisturbed has done its whole job, for any  *)
(* numbers of products, stores and samples, and whatever earlier runs and  *)
(* the open shop have left.                                                *)
THEOREM DoneRunsAreComplete == Spec => []DoneIsComplete
<1>1. Init => RunningOnce /\ Kept
  BY DEF Init, RunningOnce, Kept, NothingYet, CategoriesKept, ProductsKept, StoresKept, StockKept
<1>2. IInv /\ Kept => DoneIsComplete
  BY Zenon DEF IInv, Kept, CategoriesKept, ProductsKept, StoresKept, StockKept, DoneIsComplete,
         Filing, Listing, Opening, Stocking, Least
<1>3. QED
  BY <1>1, <1>2, RunningStep, KeptStep, InductiveInvariant, PTL DEF Spec
=============================================================================


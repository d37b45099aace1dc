------------------------------- MODULE SeedData -------------------------------
(***************************************************************************)
(* manage.py seed_data [--clear], run again and again on a shop that is    *)
(* open: customers place orders, the API adds products and administrators  *)
(* edit categories, products and stores between any two of its statements. *)
(*                                                                         *)
(* The command has no transaction of its own: every statement commits by   *)
(* itself, so a run that fails or is killed leaves what it has done so     *)
(* far.  Order items protect their product and orders their store, a       *)
(* product protects its category, and inventory rows go with either end.   *)
(*                                                                         *)
(* Categories go by their names, which are unique; what the command holds  *)
(* of them are rows, which keep their identity when they are renamed.      *)
(***************************************************************************)
EXTENDS Integers, FiniteSets, FiniteSetsExt, Functions

CONSTANTS
    CategoryNames,  \* CATEGORY_NAMES
    Names,          \* all names categories are given
    NumProducts,    \* NUM_PRODUCTS
    NumStores,      \* NUM_STORES
    MinInventory,   \* MIN_INVENTORY_PER_STORE
    MaxInventory,   \* MAX_INVENTORY_PER_STORE
    Clear,          \* the values of --clear that occur
    Traffic,        \* what else happens: see Kinds
    MaxRuns,        \* bound: runs of the command
    MaxEdits,       \* bound: what the API and the administrators change
    MaxProductId,   \* bound: product ids handed out
    MaxStoreId      \* bound: store ids handed out

Kinds == {"order", "create", "stock", "edit", "delete", "kill"}

ASSUME SeedAssumption ==
    /\ CategoryNames # {} /\ CategoryNames \subseteq Names
    /\ NumProducts \in Nat /\ NumStores \in Nat
    /\ MinInventory \in Nat /\ MaxInventory \in Nat /\ MinInventory <= MaxInventory
    /\ Clear \subseteq BOOLEAN
    /\ Traffic \subseteq Kinds
    /\ MaxRuns \in Nat /\ MaxEdits \in Nat /\ MaxProductId \in Nat /\ MaxStoreId \in Nat

VARIABLES
    categories,     \* names in the category table
    filed,          \* the category of each product, by id; a higher id is newer
    stores,         \* ids in the store table
    inventory,      \* <<store, product>> of each inventory row
    ordered,        \* products that order items refer to
    served,         \* stores that orders refer to
    lastProduct,    \* the last product id handed out
    lastStore,      \* the last store id handed out
    at,             \* the statement the command has reached
    clear,          \* whether this run has --clear
    got,            \* the names get_or_create has been called for
    chosen,         \* what the rows it returned are called now, if they still are there
    lost,           \* whether one of them is not
    existing,       \* existing_count
    listed,         \* the products _seed_products returns
    own,            \* the stores this run has created
    stocked,        \* those of them that have their inventory
    runs,           \* counts the runs up to MaxRuns
    edits,          \* counts the changes up to MaxEdits
    created,        \* history: products the API has created
    disturbed       \* history: something was deleted or renamed under a run

(* The ids in the product table.                                           *)
products == DOMAIN filed

tables == <<categories, filed, stores, inventory, ordered, served>>
list   == <<got, chosen, lost>>
locals == <<clear, list, existing, listed, own, stocked>>
ids    == <<lastProduct, lastStore>>
history == <<created, disturbed>>
counters == <<runs, edits>>
vars == <<tables, locals, ids, at, counters, history>>

ProductIds == 1 .. MaxProductId
StoreIds == 1 .. MaxStoreId
Ended == {"done", "failed", "killed"}
Statements == {"clear inventory", "clear products", "clear categories", "clear stores",
               "categories", "count products", "create products", "list products",
               "stores", "inventory"}

TypeOK ==
    /\ categories \subseteq Names
    /\ products \subseteq 1 .. lastProduct /\ lastProduct \in 0 .. MaxProductId
    /\ stores \subseteq 1 .. lastStore /\ lastStore \in 0 .. MaxStoreId
    /\ inventory \subseteq stores \X products
    /\ ordered \subseteq products /\ served \subseteq stores
    /\ Range(filed) \subseteq categories
    /\ at \in Statements \cup Ended
    /\ clear \in BOOLEAN
    /\ got \subseteq CategoryNames /\ chosen \subseteq categories /\ lost \in BOOLEAN
    /\ existing \in Nat
    /\ listed \subseteq ProductIds
    /\ own \subseteq StoreIds /\ stocked \subseteq own
    /\ runs \in 0 .. MaxRuns /\ edits \in 0 .. MaxEdits
    /\ created \in Nat /\ disturbed \in BOOLEAN

Init ==
    /\ categories = {} /\ filed = <<>> /\ stores = {} /\ inventory = {}
    /\ ordered = {} /\ served = {}
    /\ lastProduct = 0 /\ lastStore = 0
    /\ at = "done" /\ clear = FALSE
    /\ got = {} /\ chosen = {} /\ lost = FALSE
    /\ existing = 0 /\ listed = {} /\ own = {} /\ stocked = {}
    /\ runs = 0 /\ edits = 0
    /\ created = 0 /\ disturbed = FALSE

-----------------------------------------------------------------------------
(* The command.                                                            *)

(* handle: a run begins, with or without _clear_data.                      *)
Begin ==
    /\ at \in Ended
    /\ runs < MaxRuns
    /\ runs' = runs + 1
    /\ \E c \in Clear :
        /\ clear' = c
        /\ at' = IF c THEN "clear inventory" ELSE "categories"
    /\ got' = {} /\ chosen' = {} /\ lost' = FALSE
    /\ existing' = 0 /\ listed' = {} /\ own' = {} /\ stocked' = {}
    /\ disturbed' = FALSE
    /\ UNCHANGED <<tables, ids, edits, created>>

ClearInventory ==
    /\ at = "clear inventory"
    /\ inventory' = {}
    /\ at' = "clear products"
    /\ UNCHANGED <<categories, filed, stores, ordered, served, locals, ids, counters, history>>

(* ProtectedError, IntegrityError: the exception ends the command.         *)
Abort == at' = "failed" /\ UNCHANGED tables

(* What is left of the products and of the inventory without the products  *)
(* of a set.                                                               *)
DropProducts(gone) ==
    /\ filed' = Restrict(filed, products \ gone)
    /\ inventory' = {i \in inventory : i[2] \notin gone}

(* Mutant of ClearProducts: the inventory rows of the products stay.       *)
ClearOnlyProducts ==
    /\ at = "clear products"
    /\ \/ ordered # {} /\ Abort
       \/ /\ ordered = {}
          /\ filed' = <<>>
          /\ at' = "clear categories"
          /\ UNCHANGED <<categories, stores, inventory, ordered, served>>
    /\ UNCHANGED <<locals, ids, counters, history>>

(* Product.objects.all().delete(): one ordered product protects them all.  *)
ClearProducts ==
    /\ at = "clear products"
    /\ \/ ordered # {} /\ Abort
       \/ /\ ordered = {}
          /\ DropProducts(products)
          /\ at' = "clear categories"
          /\ UNCHANGED <<categories, stores, ordered, served>>
    /\ UNCHANGED <<locals, ids, counters, history>>

ClearCategories ==
    /\ at = "clear categories"
    /\ \/ products # {} /\ Abort
       \/ /\ products = {}
          /\ categories' = {}
          /\ at' = "clear stores"
          /\ UNCHANGED <<filed, stores, inventory, ordered, served>>
    /\ UNCHANGED <<locals, ids, counters, history>>

ClearStores ==
    /\ at = "clear stores"
    /\ \/ served # {} /\ Abort
       \/ /\ served = {}
          /\ stores' = {} /\ inventory' = {}
          /\ at' = "categories"
          /\ UNCHANGED <<categories, filed, ordered, served>>
    /\ UNCHANGED <<locals, ids, counters, history>>

(* get_or_create, one name after the other.                                *)
SeedCategory ==
    /\ at = "categories"
    /\ \/ \E n \in CategoryNames \ got :
            /\ got' = got \cup {n}
            /\ chosen' = chosen \cup {n}
            /\ categories' = categories \cup {n}
            /\ UNCHANGED at
       \/ /\ got = CategoryNames
          /\ at' = "count products"
          /\ UNCHANGED <<got, chosen, categories>>
    /\ UNCHANGED <<filed, stores, inventory, ordered, served, clear, lost, existing, listed,
                   own, stocked, ids, counters, history>>

(* Mutant of CountProducts: only an empty table is filled, an incomplete   *)
(* one counts as complete.                                                 *)
CountAny ==
    /\ at = "count products"
    /\ existing' = IF products = {} THEN 0 ELSE NumProducts
    /\ at' = "list products"
    /\ UNCHANGED <<tables, clear, list, listed, own, stocked, ids, counters, history>>

CountProducts ==
    /\ at = "count products"
    /\ existing' = Cardinality(products)
    /\ at' = IF existing' >= NumProducts THEN "list products" ELSE "create products"
    /\ UNCHANGED <<tables, clear, list, listed, own, stocked, ids, counters, history>>

(* New products with the next n ids, each in one of the chosen categories. *)
FileNew(n) ==
    /\ lastProduct + n <= MaxProductId
    /\ lastProduct' = lastProduct + n
    /\ \E category \in [lastProduct + 1 .. lastProduct' -> chosen] :
            filed' = [p \in products \cup DOMAIN category |->
                        IF p \in products THEN filed[p] ELSE category[p]]
    /\ at' = "list products"
    /\ UNCHANGED <<categories, stores, inventory, ordered, served>>

(* Mutant of CreateProducts: it forgets to take existing_count off.        *)
CreateAll ==
    /\ at = "create products"
    /\ FileNew(NumProducts)
    /\ UNCHANGED <<locals, lastStore, counters, history>>

(* bulk_create, which is atomic, of the products that were missing.  It    *)
(* fails if random.choice gives one a category that has been deleted.      *)
CreateProducts ==
    LET missing == NumProducts - existing IN
    /\ at = "create products"
    /\ \/ FileNew(missing)
       \/ /\ lost
          /\ lastProduct + missing <= MaxProductId
          /\ lastProduct' = lastProduct + missing
          /\ Abort
    /\ UNCHANGED <<locals, lastStore, counters, history>>

(* The products a run without need to create any works with: the newest    *)
(* NUM_PRODUCTS of them.                                                   *)
Newest == {p \in products : Cardinality({q \in products : q > p}) < NumProducts}

ListProducts ==
    /\ at = "list products"
    /\ listed' = IF existing >= NumProducts THEN Newest ELSE products
    /\ at' = "stores"
    /\ UNCHANGED <<tables, clear, list, existing, own, stocked, ids, counters, history>>

(* Store.objects.create, NUM_STORES times, whatever stores there are.      *)
SeedStore ==
    /\ at = "stores"
    /\ \/ /\ Cardinality(own) < NumStores
          /\ lastStore < MaxStoreId
          /\ lastStore' = lastStore + 1
          /\ stores' = stores \cup {lastStore'}
          /\ own' = own \cup {lastStore'}
          /\ UNCHANGED at
       \/ /\ Cardinality(own) = NumStores
          /\ at' = "inventory"
          /\ UNCHANGED <<stores, own, lastStore>>
    /\ UNCHANGED <<categories, filed, inventory, ordered, served, clear, list, existing,
                   listed, stocked, lastProduct, counters, history>>

(* random.sample(products, min(num_items, len(products)))                  *)
Samples ==
    {S \in SUBSET listed : \E n \in MinInventory .. MaxInventory :
                                Cardinality(S) = Min({n, Cardinality(listed)})}

(* bulk_create of a store's inventory: ignore_conflicts leaves rows that   *)
(* are there alone, but a store or a product that is gone violates its     *)
(* foreign key.                                                            *)
StockStore(s) ==
    /\ at = "inventory"
    /\ s \in own \ stocked
    /\ \A t \in own \ stocked : s <= t
    /\ \E sample \in Samples :
        \/ /\ sample # {} /\ ~({s} \X sample \subseteq stores \X products)
           /\ Abort
           /\ UNCHANGED stocked
        \/ /\ sample = {} \/ {s} \X sample \subseteq stores \X products
           /\ inventory' = inventory \cup ({s} \X sample)
           /\ stocked' = stocked \cup {s}
           /\ UNCHANGED <<at, categories, filed, stores, ordered, served>>
    /\ UNCHANGED <<clear, list, existing, listed, own, ids, counters, history>>

Finish ==
    /\ at = "inventory"
    /\ stocked = own
    /\ at' = "done"
    /\ UNCHANGED <<tables, locals, ids, counters, history>>

(* The process is killed between two statements.                           *)
Kill ==
    /\ "kill" \in Traffic
    /\ at \in Statements
    /\ at' = "killed"
    /\ UNCHANGED <<tables, locals, ids, counters, history>>

-----------------------------------------------------------------------------
(* Everybody else.                                                         *)

(* An order, confirmed or rejected, with a product as one of its items.    *)
PlaceOrder(s, p) ==
    /\ "order" \in Traffic
    /\ s \in stores /\ p \in products
    /\ ordered' = ordered \cup {p}
    /\ served' = served \cup {s}
    /\ UNCHANGED <<categories, filed, stores, inventory, locals, ids, at, counters, history>>

(* A change of the tables by the API or an administrator.                  *)
Edit(kind) == kind \in Traffic /\ edits < MaxEdits /\ edits' = edits + 1

(* POST /api/products/ with the id of a category.                          *)
CreateProduct(n) ==
    /\ Edit("create")
    /\ n \in categories
    /\ lastProduct < MaxProductId
    /\ lastProduct' = lastProduct + 1
    /\ filed' = [p \in products \cup {lastProduct'} |->
                    IF p \in products THEN filed[p] ELSE n]
    /\ created' = created + 1
    /\ UNCHANGED <<categories, stores, inventory, ordered, served, locals, lastStore, at, runs,
                   disturbed>>

(* An administrator puts a product on the shelf of a store ...             *)
AddInventory(s, p) ==
    /\ Edit("stock")
    /\ s \in stores /\ p \in products /\ <<s, p>> \notin inventory
    /\ inventory' = inventory \cup {<<s, p>>}
    /\ UNCHANGED <<categories, filed, stores, ordered, served, locals, ids, at, runs, history>>

(* ... opens a store, adds a category, moves a product to another one ...  *)
AddStore ==
    /\ Edit("edit")
    /\ lastStore < MaxStoreId
    /\ lastStore' = lastStore + 1
    /\ stores' = stores \cup {lastStore'}
    /\ UNCHANGED <<categories, filed, inventory, ordered, served, locals, lastProduct, at, runs,
                   history>>

AddCategory(n) ==
    /\ Edit("edit")
    /\ n \notin categories
    /\ categories' = categories \cup {n}
    /\ UNCHANGED <<filed, stores, inventory, ordered, served, locals, ids, at, runs, history>>

MoveProduct(p, n) ==
    /\ Edit("edit")
    /\ p \in products /\ n \in categories \ {filed[p]}
    /\ filed' = [filed EXCEPT ![p] = n]
    /\ UNCHANGED <<categories, stores, inventory, ordered, served, locals, ids, at, runs,
                   history>>

(* ... renames a category ...                                              *)
RenameCategory(n, m) ==
    LET Renamed(S) == IF n \in S THEN (S \ {n}) \cup {m} ELSE S IN
    /\ Edit("edit")
    /\ n \in categories /\ m \notin categories
    /\ categories' = Renamed(categories)
    /\ chosen' = Renamed(chosen)
    /\ filed' = [p \in products |-> IF filed[p] = n THEN m ELSE filed[p]]
    /\ disturbed' = TRUE
    /\ UNCHANGED <<stores, inventory, ordered, served, clear, got, lost, existing, listed, own,
                   stocked, ids, at, runs, created>>

(* ... and deletes a product, a store or a category nothing protects.      *)
DeleteProduct(p) ==
    /\ Edit("delete")
    /\ p \in products \ ordered
    /\ DropProducts({p})
    /\ disturbed' = TRUE
    /\ UNCHANGED <<categories, stores, ordered, served, locals, ids, at, runs, created>>

DeleteStore(s) ==
    /\ Edit("delete")
    /\ s \in stores \ served
    /\ stores' = stores \ {s}
    /\ inventory' = {i \in inventory : i[1] # s}
    /\ disturbed' = TRUE
    /\ UNCHANGED <<categories, filed, ordered, served, locals, ids, at, runs, created>>

DeleteCategory(n) ==
    /\ Edit("delete")
    /\ n \in categories \ Range(filed)
    /\ categories' = categories \ {n}
    /\ chosen' = chosen \ {n}
    /\ lost' = (lost \/ n \in chosen)
    /\ disturbed' = TRUE
    /\ UNCHANGED <<filed, stores, inventory, ordered, served, clear, got, existing, listed, own,
                   stocked, ids, at, runs, created>>

-----------------------------------------------------------------------------

Command ==
    \/ Begin
    \/ ClearInventory \/ ClearProducts \/ ClearCategories \/ ClearStores
    \/ SeedCategory
    \/ CountProducts \/ CreateProducts \/ ListProducts
    \/ SeedStore
    \/ (\E s \in StoreIds : StockStore(s)) \/ Finish

Shop ==
    \/ \E s \in StoreIds, p \in ProductIds : PlaceOrder(s, p) \/ AddInventory(s, p)
    \/ \E n \in Names : CreateProduct(n) \/ AddCategory(n) \/ DeleteCategory(n)
    \/ \E n, m \in Names : RenameCategory(n, m)
    \/ \E p \in ProductIds : DeleteProduct(p) \/ \E n \in Names : MoveProduct(p, n)
    \/ AddStore
    \/ \E s \in StoreIds : DeleteStore(s)

Next == Command \/ Kill \/ Shop

Spec == Init /\ [][Next]_vars

-----------------------------------------------------------------------------
(* Properties.                                                             *)

StockOf(s) == {i \in inventory : i[1] = s}

(* A run that gets to its end has done its work, whatever state earlier    *)
(* runs and the open shop had left: NUM_PRODUCTS products are there, its   *)
(* stores exist and each carries MIN products, or all there were if fewer, *)
(* unless an administrator deleted or renamed something under it.          *)
DoneIsComplete ==
    at = "done" /\ runs > 0 /\ ~disturbed =>
        /\ CategoryNames \subseteq categories
        /\ Cardinality(products) >= NumProducts
        /\ Cardinality(own) = NumStores /\ own \subseteq stores
        /\ \A s \in own :
            Cardinality(StockOf(s)) >= Min({MinInventory, NumProducts})

(* Whatever earlier runs left behind when they were killed or failed, the  *)
(* command tops the products up and never overshoots: what exceeds         *)
(* NUM_PRODUCTS came through the API.                                      *)
ToppedUp == Cardinality(products) <= NumProducts + created

(* "Idempotent if --clear is used": however such a run ends, the tables    *)
(* hold what a first run leaves.                                           *)
IdempotentWithClear ==
    clear /\ at \in Ended =>
        /\ Cardinality(products) = NumProducts
        /\ Cardinality(stores) = NumStores
        /\ \A s \in stores : StockOf(s) # {}
=============================================================================

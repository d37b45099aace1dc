---------------------------- MODULE InventoryCache ----------------------------
(***************************************************************************)
(* GET /api/stores/{id}/inventory/ and its cache in Redis, with everything *)
(* that changes what the listing should show.                              *)
(*                                                                         *)
(* A reader looks the listing up, queries the database when it is missing  *)
(* and stores what it found for TTL.  An administrator's save or delete    *)
(* fires a signal that deletes the key of the row's store; the signal runs *)
(* inside the administrator's transaction, before it commits.  Confirmed   *)
(* orders (bulk_update), product edits and the seed command (bulk_create)  *)
(* change the listing without a signal.                                    *)
(***************************************************************************)
EXTENDS Integers, FiniteSets

CONSTANTS
    Stores,
    Rows,           \* primary keys of inventory rows
    RowProduct,     \* the product of each row
    Products,
    Labels,         \* what a listing shows of a product: title, category, price
    Quantities,
    Readers,        \* server workers that answer listing requests
    Admins,         \* administrators, one transaction each at a time
    TTL,            \* INVENTORY_CACHE_TTL, in ticks of the clock
    Writes,         \* the kinds of write of a behaviour
    Faults,         \* "redis": any call to Redis may fail
    Missing,        \* the key is not in Redis
    Unborn,         \* the store of a row that has not been created yet
    Gone            \* the store of a row that has been deleted

Listings == SUBSET [row : Rows, quantity : Quantities, label : Labels]

ASSUME CacheAssumption ==
    /\ RowProduct \in [Rows -> Products]
    /\ Quantities \subseteq Nat
    /\ TTL \in Nat \ {0}
    /\ Writes \subseteq {"order", "save", "move", "remove", "seed", "product"}
    /\ Faults \subseteq {"redis"}
    /\ Unborn \notin Stores /\ Gone \notin Stores
    /\ \A l \in Listings : l # Missing

VARIABLES
    home,       \* the store of each inventory row, Unborn or Gone without one
    quantity,   \* its quantity
    label,      \* what the listing shows of each product
    cached,     \* the value under inventory_store_{s}: a listing or Missing
    ttlLeft,    \* ticks until Redis expires it
    reader,     \* what each listing request is doing
    admin,      \* what each administrator's transaction is doing
    cause       \* history: why the cached listing of a store may be stale

tableVars == <<home, quantity, label>>
cacheVars == <<cached, ttlLeft>>
vars      == <<tableVars, cacheVars, reader, admin, cause>>

(* InventorySerializer over Inventory.objects.filter(store=s): one entry   *)
(* for each row.  The order by title follows from the labels.              *)
ListingOf(s, h, q, l) ==
    {[row |-> k, quantity |-> q[k], label |-> l[RowProduct[k]]] : k \in {j \in Rows : h[j] = s}}

Listing(s) == ListingOf(s, home, quantity, label)

(* A request: idle, about to query the database for a store, or about to   *)
(* put what it found in the cache.                                         *)
ReaderState ==
    [at : {"idle"}] \cup [at : {"missed"}, store : Stores]
        \cup [at : {"queried"}, store : Stores, found : Listings]

(* A transaction: none, a row write whose signal is yet to run, or one     *)
(* whose signal has run.  A deleted row will be Gone; key is the store_id *)
(* of the instance the signal is given.                                    *)
AdminState ==
    [at : {"idle"}] \cup
    [at : {"written", "signalled"}, row : Rows, store : Stores \cup {Gone},
     quantity : Quantities, key : Stores]

Causes == {"late fill", "early signal", "no signal"}

TypeOK ==
    /\ home \in [Rows -> Stores \cup {Unborn, Gone}]
    /\ quantity \in [Rows -> Quantities]
    /\ label \in [Products -> Labels]
    /\ cached \in [Stores -> Listings \cup {Missing}]
    /\ ttlLeft \in [Stores -> 0 .. TTL]
    /\ reader \in [Readers -> ReaderState]
    /\ admin \in [Admins -> AdminState]
    /\ cause \in [Stores -> SUBSET Causes]

Init ==
    /\ home \in [Rows -> Stores \cup {Unborn}]
    /\ \A j, k \in Rows :
        j # k /\ home[j] = home[k] /\ home[j] # Unborn => RowProduct[j] # RowProduct[k]
    /\ quantity \in [Rows -> Quantities]
    /\ label \in [Products -> Labels]
    /\ cached = [s \in Stores |-> Missing]
    /\ ttlLeft = [s \in Stores |-> 0]
    /\ reader = [g \in Readers |-> [at |-> "idle"]]
    /\ admin = [a \in Admins |-> [at |-> "idle"]]
    /\ cause = [s \in Stores |-> {}]

Idle == [at |-> "idle"]

-----------------------------------------------------------------------------
(* Readers.                                                                *)

(* cache.get finds nothing.  A hit is answered with a page of the listing  *)
(* and, like a get that raises, changes nothing.                           *)
Lookup(g, s) ==
    /\ reader[g] = Idle
    /\ cached[s] = Missing
    /\ reader' = [reader EXCEPT ![g] = [at |-> "missed", store |-> s]]
    /\ UNCHANGED <<tableVars, cacheVars, admin, cause>>

Query(g) ==
    /\ reader[g].at = "missed"
    /\ reader' = [reader EXCEPT ![g] =
            [at |-> "queried", store |-> @.store, found |-> Listing(@.store)]]
    /\ UNCHANGED <<tableVars, cacheVars, admin, cause>>

(* An administrator has deleted the key of s and has yet to commit.        *)
SignalledFor(s) == \E a \in Admins : admin[a].at = "signalled" /\ admin[a].key = s

(* Mutant of StoreListing: cache.set with timeout=None.                    *)
StoreForever(g) ==
    LET s == reader[g].store IN
    /\ cached' = [cached EXCEPT ![s] = reader[g].found]
    /\ UNCHANGED <<ttlLeft, cause>>

(* cache.set: the listing is stored for TTL.                               *)
StoreListing(g) ==
    LET s == reader[g].store IN
    /\ cached' = [cached EXCEPT ![s] = reader[g].found]
    /\ ttlLeft' = [ttlLeft EXCEPT ![s] = TTL]
    /\ cause' = [cause EXCEPT ![s] =
            (IF reader[g].found # Listing(s) THEN {"late fill"} ELSE {})
                \cup (IF SignalledFor(s) THEN {"early signal"} ELSE {})]

Fill(g) ==
    /\ reader[g].at = "queried"
    /\ StoreListing(g)
    /\ reader' = [reader EXCEPT ![g] = Idle]
    /\ UNCHANGED <<tableVars, admin>>

(* cache.set raises and the request ends with a 500; if only the reply is  *)
(* lost the listing has been stored.                                       *)
ReaderFails(g) ==
    /\ "redis" \in Faults
    /\ reader[g].at = "queried"
    /\ reader' = [reader EXCEPT ![g] = Idle]
    /\ \/ StoreListing(g)
       \/ UNCHANGED <<cacheVars, cause>>
    /\ UNCHANGED <<tableVars, admin>>

-----------------------------------------------------------------------------
(* Administrators.                                                         *)

(* Row k may be written: no open transaction has written it.               *)
Writable(k) == \A a \in Admins : admin[a] # Idle => admin[a].row # k

(* unique_together: no other row, committed or about to be, has the store  *)
(* and the product of row k.                                               *)
KeyFree(k, s) ==
    \A j \in Rows \ {k} :
        RowProduct[j] = RowProduct[k] =>
            /\ home[j] # s
            /\ \A a \in Admins : admin[a] # Idle /\ admin[a].row = j => admin[a].store # s

(* The form is saved: a new row, new values, or the row moved to another   *)
(* store.                                                                  *)
Save(a, k, s, q) ==
    /\ home[k] # Gone
    /\ (IF home[k] \in {s, Unborn} THEN "save" ELSE "move") \in Writes
    /\ admin[a] = Idle
    /\ Writable(k) /\ KeyFree(k, s)
    /\ admin' = [admin EXCEPT ![a] =
            [at |-> "written", row |-> k, store |-> s, quantity |-> q, key |-> s]]
    /\ UNCHANGED <<tableVars, cacheVars, reader, cause>>

(* Mutant of Remove: deleting a row that is not in the table.              *)
RemoveAny(a, k) ==
    /\ "remove" \in Writes
    /\ admin[a] = Idle
    /\ Writable(k)
    /\ admin' = [admin EXCEPT ![a] =
            [at |-> "written", row |-> k, store |-> Gone, quantity |-> quantity[k],
             key |-> home[k]]]
    /\ UNCHANGED <<tableVars, cacheVars, reader, cause>>

Remove(a, k) ==
    /\ "remove" \in Writes
    /\ admin[a] = Idle
    /\ home[k] \in Stores
    /\ Writable(k)
    /\ admin' = [admin EXCEPT ![a] =
            [at |-> "written", row |-> k, store |-> Gone, quantity |-> quantity[k],
             key |-> home[k]]]
    /\ UNCHANGED <<tableVars, cacheVars, reader, cause>>

(* cache.delete of the key.                                                *)
Drop(s) ==
    /\ cached' = [cached EXCEPT ![s] = Missing]
    /\ ttlLeft' = [ttlLeft EXCEPT ![s] = 0]
    /\ cause' = [cause EXCEPT ![s] = {}]

(* Mutant of Signal: the receiver of post_delete is not connected.         *)
SignalSaves(a) ==
    /\ admin[a].at = "written"
    /\ IF admin[a].store = Gone
         THEN UNCHANGED <<cacheVars, cause>>
         ELSE Drop(admin[a].key)
    /\ admin' = [admin EXCEPT ![a].at = "signalled"]
    /\ UNCHANGED <<tableVars, reader>>

(* post_save and post_delete.                                              *)
Signal(a) ==
    /\ admin[a].at = "written"
    /\ Drop(admin[a].key)
    /\ admin' = [admin EXCEPT ![a] = [@ EXCEPT !.at = "signalled"]]
    /\ UNCHANGED <<tableVars, reader>>

(* cache.delete raises inside the transaction, which is rolled back; the   *)
(* key may be gone all the same.                                           *)
SignalFails(a) ==
    /\ "redis" \in Faults
    /\ admin[a].at = "written"
    /\ \/ Drop(admin[a].key)
       \/ UNCHANGED <<cacheVars, cause>>
    /\ admin' = [admin EXCEPT ![a] = Idle]
    /\ UNCHANGED <<tableVars, reader>>

(* What a change of the tables does to the history: a store whose listing  *)
(* changes is stale from now on, and no signal accounts for it unless it   *)
(* was for this store's key.                                               *)
Change(h, q, l, signalled) ==
    LET changed == {s \in Stores : ListingOf(s, h, q, l) # Listing(s)} IN
    /\ home' = h
    /\ quantity' = q
    /\ label' = l
    /\ cause' = [s \in Stores |-> IF s \in changed \ signalled /\ cached[s] # Missing
                                    THEN cause[s] \cup {"no signal"} ELSE cause[s]]
    /\ UNCHANGED cacheVars

CommitWrite(a) ==
    /\ admin[a].at = "signalled"
    /\ Change([home EXCEPT ![admin[a].row] = admin[a].store],
              [quantity EXCEPT ![admin[a].row] = admin[a].quantity],
              label, {admin[a].key})
    /\ admin' = [admin EXCEPT ![a] = Idle]
    /\ UNCHANGED reader

(* The transaction is rolled back after its signal.                        *)
RollBack(a) ==
    /\ admin[a].at \in {"written", "signalled"}
    /\ admin' = [admin EXCEPT ![a] = Idle]
    /\ UNCHANGED <<tableVars, cacheVars, reader, cause>>

-----------------------------------------------------------------------------
(* Writes that send no signal.                                             *)

(* A confirmed order: OrderService deducts with bulk_update.               *)
OrderDeducts(k, q) ==
    /\ "order" \in Writes
    /\ home[k] \in Stores
    /\ Writable(k)
    /\ q < quantity[k]
    /\ Change(home, [quantity EXCEPT ![k] = q], label, {})
    /\ UNCHANGED <<reader, admin>>

(* A product or its category is edited.                                    *)
EditProduct(p, l) ==
    /\ "product" \in Writes
    /\ label[p] # l
    /\ Change(home, quantity, [label EXCEPT ![p] = l], {})
    /\ UNCHANGED <<reader, admin>>

(* seed_data: bulk_create of a row the store does not have yet.            *)
SeedRow(k, s, q) ==
    /\ "seed" \in Writes
    /\ home[k] = Unborn
    /\ Writable(k) /\ KeyFree(k, s)
    /\ Change([home EXCEPT ![k] = s], [quantity EXCEPT ![k] = q], label, {})
    /\ UNCHANGED <<reader, admin>>

-----------------------------------------------------------------------------
(* Redis.                                                                  *)

(* allkeys-lru: any key may go.                                            *)
Evict(s) ==
    /\ cached[s] # Missing
    /\ Drop(s)
    /\ UNCHANGED <<tableVars, reader, admin>>

(* A tick of the clock: what has no time left expires.                     *)
Tick ==
    LET expired == {s \in Stores : ttlLeft[s] = 1} IN
    /\ \E s \in Stores : cached[s] # Missing
    /\ cached' = [s \in Stores |-> IF s \in expired THEN Missing ELSE cached[s]]
    /\ cause' = [s \in Stores |-> IF s \in expired THEN {} ELSE cause[s]]
    /\ ttlLeft' = [s \in Stores |-> IF ttlLeft[s] = 0 THEN 0 ELSE ttlLeft[s] - 1]
    /\ UNCHANGED <<tableVars, reader, admin>>

-----------------------------------------------------------------------------

Serve(g) == Query(g) \/ Fill(g)
Read(g) == Serve(g) \/ ReaderFails(g) \/ \E s \in Stores : Lookup(g, s)

Administer(a) ==
    \/ \E k \in Rows : Remove(a, k) \/ \E s \in Stores, q \in Quantities : Save(a, k, s, q)
    \/ Signal(a) \/ SignalFails(a) \/ CommitWrite(a) \/ RollBack(a)

WriteSilently ==
    \/ \E k \in Rows, q \in Quantities :
            OrderDeducts(k, q) \/ \E s \in Stores : SeedRow(k, s, q)
    \/ \E p \in Products, l \in Labels : EditProduct(p, l)

Next ==
    \/ \E g \in Readers : Read(g)
    \/ \E a \in Admins : Administer(a)
    \/ WriteSilently
    \/ \E s \in Stores : Evict(s)
    \/ Tick

Spec == Init /\ [][Next]_vars

(* The clock runs, and a request that has started to serve a miss goes on. *)
FairSpec == Spec /\ WF_vars(Tick) /\ \A g \in Readers : WF_vars(Serve(g))

-----------------------------------------------------------------------------
(* Properties.                                                             *)

Fresh(s) == cached[s] \in {Missing, Listing(s)}

(* The listing in the cache is the current one unless, since it was put    *)
(* there, a write without a signal happened, or it was put there late (the *)
(* table changed between query and set) or too early (between the signal   *)
(* of a save and its commit).  Saves and deletes that meet no reader       *)
(* always take the old listing with them.                                  *)
StalenessExplained == \A s \in Stores : Fresh(s) \/ cause[s] # {}

(* When changes stop, every cached listing is eventually current for good. *)
Quiet == UNCHANGED tableVars
EventuallyFresh ==
    <>[][Quiet]_vars => <>[](\A s \in Stores : Fresh(s))

(* A listing is never stale while no administrator is in the middle of a   *)
(* save: invalidation keeps the cache current.                             *)
NeverStale == (\A a \in Admins : admin[a] = Idle) => \A s \in Stores : Fresh(s)

(* Every change of a cached listing comes with a signal for its key.       *)
EveryChangeSignalled == \A s \in Stores : "no signal" \notin cause[s]
=============================================================================

------------------------- MODULE InventoryCacheProofs -------------------------
(***************************************************************************)
(* StalenessExplained for any number of stores, rows, readers and          *)
(* administrators, every kind of write and a Redis that fails.             *)
(***************************************************************************)
EXTENDS InventoryCache, TLAPS

(* Between a signal and its commit the key is missing, or whoever put it   *)
(* back knows that it was early.                                           *)
SignalsRemembered ==
    \A a \in Admins :
        admin[a].at = "signalled" =>
            \/ cached[admin[a].key] = Missing
            \/ "early signal" \in cause[admin[a].key]

IInv == TypeOK /\ SignalsRemembered /\ StalenessExplained

-----------------------------------------------------------------------------
(* Types.                                                                  *)

LEMMA ListingType == ASSUME TypeOK, NEW s \in Stores PROVE Listing(s) \in Listings
BY CacheAssumption DEF TypeOK, Listing, ListingOf, Listings

LEMMA IdleType == Idle \in ReaderState /\ Idle \in AdminState
BY DEF Idle, ReaderState, AdminState

(* A pending write, before and after its signal.                           *)
LEMMA PendingType ==
    ASSUME TypeOK, NEW a \in Admins, admin[a].at \in {"written", "signalled"}
    PROVE  /\ admin[a].row \in Rows
           /\ admin[a].store \in Stores \cup {Gone}
           /\ admin[a].quantity \in Quantities
           /\ admin[a].key \in Stores
           /\ [admin[a] EXCEPT !.at = "signalled"] \in AdminState
<1>1. admin[a] \in [at : {"written", "signalled"}, row : Rows, store : Stores \cup {Gone},
                    quantity : Quantities, key : Stores]
  BY DEF TypeOK, AdminState
<1>2. [admin[a] EXCEPT !.at = "signalled"]
            \in [at : {"written", "signalled"}, row : Rows, store : Stores \cup {Gone},
                 quantity : Quantities, key : Stores]
  BY <1>1
<1>3. QED
  BY <1>1, <1>2 DEF AdminState

LEMMA ReadingType ==
    ASSUME TypeOK, NEW g \in Readers
    PROVE  /\ reader[g].at \in {"missed", "queried"} => reader[g].store \in Stores
           /\ reader[g].at = "queried" => reader[g].found \in Listings
BY DEF TypeOK, ReaderState

-----------------------------------------------------------------------------
(* What the steps do to a cached listing.                                  *)

(* Filling the key of s: the history says whether the listing was late and *)
(* whether a commit for s is outstanding.                                  *)
LEMMA StoreStep ==
    ASSUME IInv, NEW g \in Readers, reader[g].at = "queried", StoreListing(g),
           UNCHANGED <<tableVars, admin>>
    PROVE  /\ cached' \in [Stores -> Listings \cup {Missing}]
           /\ ttlLeft' \in [Stores -> 0 .. TTL]
           /\ cause' \in [Stores -> SUBSET Causes]
           /\ SignalsRemembered' /\ StalenessExplained'
<1> DEFINE s == reader[g].store
<1>1. s \in Stores /\ reader[g].found \in Listings
  BY ReadingType DEF IInv
<1>2. /\ cached' = [cached EXCEPT ![s] = reader[g].found]
      /\ ttlLeft' = [ttlLeft EXCEPT ![s] = TTL]
      /\ cause' = [cause EXCEPT ![s] =
            (IF reader[g].found # Listing(s) THEN {"late fill"} ELSE {})
                \cup (IF SignalledFor(s) THEN {"early signal"} ELSE {})]
  BY DEF StoreListing
<1>3. \A t \in Stores : Listing(t)' = Listing(t)
  BY DEF tableVars, Listing, ListingOf
<1>4. /\ cached' \in [Stores -> Listings \cup {Missing}]
      /\ ttlLeft' \in [Stores -> 0 .. TTL]
      /\ cause' \in [Stores -> SUBSET Causes]
  <2>1. cached' \in [Stores -> Listings \cup {Missing}]
    BY <1>1, <1>2 DEF IInv, TypeOK
  <2>2. TTL \in 0 .. TTL
    BY CacheAssumption
  <2>3. ttlLeft' \in [Stores -> 0 .. TTL]
    BY <1>2, <2>2 DEF IInv, TypeOK
  <2>4. cause' \in [Stores -> SUBSET Causes]
    BY <1>2 DEF IInv, TypeOK, Causes
  <2>5. QED
    BY <2>1, <2>3, <2>4
<1>5. SignalsRemembered'
  <2> SUFFICES ASSUME NEW a \in Admins, admin[a].at = "signalled"
               PROVE  \/ cached'[admin[a].key] = Missing
                      \/ "early signal" \in cause'[admin[a].key]
    BY DEF SignalsRemembered
  <2>1. admin[a].key \in Stores
    BY PendingType DEF IInv
  <2>2. CASE admin[a].key = s
    BY <1>1, <1>2, <2>2 DEF SignalledFor, IInv, TypeOK
  <2>3. CASE admin[a].key # s
    BY <1>1, <1>2, <2>1, <2>3 DEF IInv, TypeOK, SignalsRemembered
  <2>4. QED
    BY <2>2, <2>3
<1>6. StalenessExplained'
  BY <1>1, <1>2, <1>3 DEF IInv, TypeOK, StalenessExplained, Fresh
<1>7. QED
  BY <1>4, <1>5, <1>6

(* Deleting the key of s leaves nothing stale behind, whichever pending    *)
(* writes are signalled by it or dropped with it.                          *)
LEMMA DropStep ==
    ASSUME IInv, NEW s \in Stores, Drop(s), UNCHANGED tableVars,
           \A a \in Admins : admin'[a].at = "signalled" =>
                (admin[a].at = "signalled" \/ admin[a].key = s)
                /\ admin'[a].key = admin[a].key /\ admin[a].key \in Stores
    PROVE  /\ cached' \in [Stores -> Listings \cup {Missing}]
           /\ ttlLeft' \in [Stores -> 0 .. TTL]
           /\ cause' \in [Stores -> SUBSET Causes]
           /\ SignalsRemembered' /\ StalenessExplained'
<1>1. \A t \in Stores : Listing(t)' = Listing(t)
  BY DEF tableVars, Listing, ListingOf
<1>2. /\ cached' \in [Stores -> Listings \cup {Missing}]
      /\ ttlLeft' \in [Stores -> 0 .. TTL]
      /\ cause' \in [Stores -> SUBSET Causes]
  BY CacheAssumption DEF Drop, IInv, TypeOK
<1>3. SignalsRemembered'
  BY DEF Drop, IInv, TypeOK, SignalsRemembered
<1>4. StalenessExplained'
  BY <1>1 DEF Drop, IInv, TypeOK, StalenessExplained, Fresh
<1>5. QED
  BY <1>2, <1>3, <1>4

(* A change of the tables explains every listing it makes stale: by the    *)
(* missing signal, or because the signal it had came early.                *)
LEMMA ChangeStep ==
    ASSUME IInv, NEW h, NEW q, NEW l, NEW signalled \in SUBSET Stores,
           Change(h, q, l, signalled),
           \A s \in signalled : cached[s] = Missing \/ "early signal" \in cause[s],
           \A a \in Admins : admin'[a].at = "signalled" =>
                admin[a].at = "signalled" /\ admin'[a].key = admin[a].key
    PROVE  /\ cause' \in [Stores -> SUBSET Causes]
           /\ SignalsRemembered' /\ StalenessExplained'
<1> DEFINE changed == {s \in Stores : ListingOf(s, h, q, l) # Listing(s)}
<1>1. /\ cached' = cached
      /\ cause' = [s \in Stores |-> IF s \in changed \ signalled /\ cached[s] # Missing
                                      THEN cause[s] \cup {"no signal"} ELSE cause[s]]
  BY DEF Change, cacheVars
<1>2. \A s \in Stores : Listing(s)' = ListingOf(s, h, q, l)
  BY DEF Change, Listing
<1>3. cause' \in [Stores -> SUBSET Causes]
  BY <1>1 DEF IInv, TypeOK, Causes
<1>4. SignalsRemembered'
  BY <1>1, PendingType DEF IInv, SignalsRemembered
<1>5. StalenessExplained'
  <2> SUFFICES ASSUME NEW s \in Stores, cached[s] # Missing,
                      cached[s] # ListingOf(s, h, q, l)
               PROVE  cause'[s] # {}
    BY <1>1, <1>2 DEF StalenessExplained, Fresh
  <2>1. CASE s \in changed \ signalled
    BY <1>1, <2>1
  <2>2. CASE s \in signalled
    BY <1>1, <2>2
  <2>3. CASE s \notin changed
    BY <1>1, <2>3 DEF IInv, StalenessExplained, Fresh
  <2>4. QED
    BY <2>1, <2>2, <2>3
<1>6. QED
  BY <1>3, <1>4, <1>5

-----------------------------------------------------------------------------
(* The steps.                                                              *)

LEMMA ReaderStep ==
    ASSUME IInv, NEW g \in Readers, Read(g)
    PROVE  IInv'
<1>1. ASSUME NEW next \in ReaderState, reader' = [reader EXCEPT ![g] = next],
             UNCHANGED <<tableVars, cacheVars, admin, cause>>
      PROVE  IInv'
  <2>1. \A t \in Stores : Listing(t)' = Listing(t)
    BY <1>1 DEF tableVars, Listing, ListingOf
  <2>2. TypeOK'
    BY <1>1 DEF IInv, TypeOK, tableVars, cacheVars
  <2>3. SignalsRemembered' /\ StalenessExplained'
    BY <1>1, <2>1 DEF IInv, SignalsRemembered, StalenessExplained, Fresh, cacheVars
  <2>4. QED
    BY <2>2, <2>3 DEF IInv
<1>2. ASSUME NEW s \in Stores, Lookup(g, s)
      PROVE  IInv'
  <2>1. [at |-> "missed", store |-> s] \in ReaderState
    BY DEF ReaderState
  <2>2. QED
    BY <1>1, <1>2, <2>1 DEF Lookup
<1>3. CASE Query(g)
  <2>1. reader[g].store \in Stores
    BY <1>3, ReadingType DEF Query, IInv
  <2>2. [at |-> "queried", store |-> reader[g].store, found |-> Listing(reader[g].store)]
            \in ReaderState
    BY <2>1, ListingType DEF ReaderState, IInv
  <2>3. reader' = [reader EXCEPT ![g] = [at |-> "queried", store |-> reader[g].store,
                                         found |-> Listing(reader[g].store)]]
    BY <1>3 DEF Query
  <2>4. QED
    BY <1>1, <1>3, <2>2, <2>3 DEF Query
<1>4. ASSUME reader[g].at = "queried", StoreListing(g), reader' = [reader EXCEPT ![g] = Idle],
             UNCHANGED <<tableVars, admin>>
      PROVE  IInv'
  <2>1. /\ cached' \in [Stores -> Listings \cup {Missing}]
        /\ ttlLeft' \in [Stores -> 0 .. TTL]
        /\ cause' \in [Stores -> SUBSET Causes]
        /\ SignalsRemembered' /\ StalenessExplained'
    BY <1>4, StoreStep
  <2>2. reader' \in [Readers -> ReaderState]
    BY <1>4, IdleType DEF IInv, TypeOK
  <2>3. QED
    BY <1>4, <2>1, <2>2 DEF IInv, TypeOK, tableVars
<1>5. CASE Fill(g) \/ ReaderFails(g)
  BY <1>1, <1>4, <1>5, IdleType DEF Fill, ReaderFails
<1>6. QED
  BY <1>2, <1>3, <1>5 DEF Read, Serve

(* Steps of an administrator that leave the tables and the cache alone.    *)
LEMMA AdminOnlyStep ==
    ASSUME IInv, NEW a \in Admins, NEW next \in AdminState, next.at # "signalled",
           admin' = [admin EXCEPT ![a] = next],
           UNCHANGED <<tableVars, cacheVars, reader, cause>>
    PROVE  IInv'
<1>1. \A t \in Stores : Listing(t)' = Listing(t)
  BY DEF tableVars, Listing, ListingOf
<1>2. TypeOK'
  BY DEF IInv, TypeOK, tableVars, cacheVars
<1>3. SignalsRemembered'
  BY DEF IInv, TypeOK, SignalsRemembered, cacheVars
<1>4. StalenessExplained'
  BY <1>1 DEF IInv, StalenessExplained, Fresh, cacheVars
<1>5. QED
  BY <1>2, <1>3, <1>4 DEF IInv

LEMMA AdminStep ==
    ASSUME IInv, NEW a \in Admins, Administer(a)
    PROVE  IInv'
<1>1. ASSUME NEW k \in Rows, NEW s \in Stores, NEW q \in Quantities, Save(a, k, s, q)
      PROVE  IInv'
  <2> DEFINE next == [at |-> "written", row |-> k, store |-> s, quantity |-> q, key |-> s]
  <2>1. next \in AdminState /\ next.at # "signalled"
    BY DEF AdminState
  <2>2. QED
    BY <1>1, <2>1, AdminOnlyStep DEF Save
<1>2. ASSUME NEW k \in Rows, Remove(a, k)
      PROVE  IInv'
  <2> DEFINE next == [at |-> "written", row |-> k, store |-> Gone, quantity |-> quantity[k],
                      key |-> home[k]]
  <2>1. next \in AdminState /\ next.at # "signalled"
    BY <1>2 DEF AdminState, Remove, IInv, TypeOK
  <2>2. QED
    BY <1>2, <2>1, AdminOnlyStep DEF Remove
<1>3. CASE RollBack(a)
  <2>1. Idle \in AdminState /\ Idle.at # "signalled"
    BY IdleType DEF Idle
  <2>2. QED
    BY <1>3, <2>1, AdminOnlyStep DEF RollBack
<1>4. ASSUME admin[a].at = "written", Drop(admin[a].key),
             NEW next \in AdminState, next.at = "signalled" => next.key = admin[a].key,
             admin' = [admin EXCEPT ![a] = next], UNCHANGED <<tableVars, reader>>
      PROVE  IInv'
  <2>1. admin[a].key \in Stores
    BY <1>4, PendingType DEF IInv
  <2>2. \A b \in Admins : admin'[b].at = "signalled" =>
            (admin[b].at = "signalled" \/ admin[b].key = admin[a].key)
            /\ admin'[b].key = admin[b].key /\ admin[b].key \in Stores
    BY <1>4, <2>1, PendingType DEF IInv, TypeOK
  <2>3. /\ cached' \in [Stores -> Listings \cup {Missing}]
        /\ ttlLeft' \in [Stores -> 0 .. TTL]
        /\ cause' \in [Stores -> SUBSET Causes]
        /\ SignalsRemembered' /\ StalenessExplained'
    BY <1>4, <2>1, <2>2, DropStep
  <2>4. admin' \in [Admins -> AdminState]
    BY <1>4 DEF IInv, TypeOK
  <2>5. QED
    BY <1>4, <2>3, <2>4 DEF IInv, TypeOK, tableVars
<1>5. CASE Signal(a)
  <2> DEFINE next == [admin[a] EXCEPT !.at = "signalled"]
  <2>1. next \in AdminState /\ next.key = admin[a].key
    BY <1>5, PendingType DEF Signal, IInv, AdminState, TypeOK
  <2>2. admin' = [admin EXCEPT ![a] = next]
    BY <1>5 DEF Signal
  <2>3. QED
    BY <1>4, <1>5, <2>1, <2>2 DEF Signal
<1>6. CASE SignalFails(a)
  <2>1. Idle \in AdminState /\ Idle.at # "signalled"
    BY IdleType DEF Idle
  <2>2. CASE Drop(admin[a].key)
    BY <1>4, <1>6, <2>1, <2>2 DEF SignalFails
  <2>3. CASE UNCHANGED <<cacheVars, cause>>
    BY <1>6, <2>1, <2>3, AdminOnlyStep DEF SignalFails
  <2>4. QED
    BY <1>6, <2>2, <2>3 DEF SignalFails
<1>7. CASE CommitWrite(a)
  <2> DEFINE h == [home EXCEPT ![admin[a].row] = admin[a].store]
             q == [quantity EXCEPT ![admin[a].row] = admin[a].quantity]
  <2>1. /\ admin[a].row \in Rows /\ admin[a].store \in Stores \cup {Gone}
        /\ admin[a].quantity \in Quantities /\ admin[a].key \in Stores
    BY <1>7, PendingType DEF CommitWrite, IInv
  <2>2. /\ Change(h, q, label, {admin[a].key})
        /\ admin' = [admin EXCEPT ![a] = Idle] /\ reader' = reader
        /\ admin[a].at = "signalled"
    BY <1>7 DEF CommitWrite
  <2>3. \A b \in Admins : admin'[b].at = "signalled" =>
            admin[b].at = "signalled" /\ admin'[b].key = admin[b].key
    BY <2>2 DEF Idle, IInv, TypeOK
  <2>4. \A s \in {admin[a].key} : cached[s] = Missing \/ "early signal" \in cause[s]
    BY <2>2 DEF IInv, SignalsRemembered
  <2>5. {admin[a].key} \in SUBSET Stores
    BY <2>1
  <2>6. cause' \in [Stores -> SUBSET Causes] /\ SignalsRemembered' /\ StalenessExplained'
    BY <2>2, <2>3, <2>4, <2>5, ChangeStep
  <2>7. /\ home' \in [Rows -> Stores \cup {Unborn, Gone}]
        /\ quantity' \in [Rows -> Quantities]
        /\ label' = label /\ cached' = cached /\ ttlLeft' = ttlLeft
        /\ admin' \in [Admins -> AdminState]
    BY <2>1, <2>2, IdleType DEF Change, cacheVars, IInv, TypeOK
  <2>8. QED
    BY <2>2, <2>6, <2>7 DEF IInv, TypeOK
<1>8. QED
  BY <1>1, <1>2, <1>3, <1>5, <1>6, <1>7 DEF Administer

LEMMA SilentStep == ASSUME IInv, WriteSilently PROVE IInv'
<1>1. ASSUME NEW h \in [Rows -> Stores \cup {Unborn, Gone}],
             NEW q \in [Rows -> Quantities], NEW l \in [Products -> Labels],
             Change(h, q, l, {}), UNCHANGED <<reader, admin>>
      PROVE  IInv'
  <2>1. {} \in SUBSET Stores /\ Change(h, q, l, {})
    BY <1>1
  <2>2. \A s \in {} : cached[s] = Missing \/ "early signal" \in cause[s]
    OBVIOUS
  <2>3. \A a \in Admins : admin'[a].at = "signalled" =>
            admin[a].at = "signalled" /\ admin'[a].key = admin[a].key
    BY <1>1
  <2>4. cause' \in [Stores -> SUBSET Causes] /\ SignalsRemembered' /\ StalenessExplained'
    BY <2>1, <2>2, <2>3, ChangeStep
  <2>5. QED
    BY <1>1, <2>4 DEF Change, cacheVars, IInv, TypeOK
<1>2. ASSUME NEW k \in Rows, NEW q \in Quantities, OrderDeducts(k, q)
      PROVE  IInv'
  BY <1>1, <1>2 DEF OrderDeducts, IInv, TypeOK
<1>3. ASSUME NEW k \in Rows, NEW q \in Quantities, NEW s \in Stores, SeedRow(k, s, q)
      PROVE  IInv'
  BY <1>1, <1>3 DEF SeedRow, IInv, TypeOK
<1>4. ASSUME NEW p \in Products, NEW l \in Labels, EditProduct(p, l)
      PROVE  IInv'
  BY <1>1, <1>4 DEF EditProduct, IInv, TypeOK
<1>5. QED
  BY <1>2, <1>3, <1>4 DEF WriteSilently

LEMMA RedisStep == ASSUME IInv, Tick \/ \E s \in Stores : Evict(s) PROVE IInv'
<1>1. ASSUME NEW s \in Stores, Evict(s)
      PROVE  IInv'
  <2>1. \A a \in Admins : admin'[a].at = "signalled" =>
            admin[a].at = "signalled" /\ admin'[a].key = admin[a].key
            /\ admin[a].key \in Stores
    BY <1>1, PendingType DEF Evict, IInv
  <2>2. /\ cached' \in [Stores -> Listings \cup {Missing}]
        /\ ttlLeft' \in [Stores -> 0 .. TTL]
        /\ cause' \in [Stores -> SUBSET Causes]
        /\ SignalsRemembered' /\ StalenessExplained'
    BY <1>1, <2>1, DropStep DEF Evict
  <2>3. QED
    BY <1>1, <2>2 DEF Evict, IInv, TypeOK, tableVars
<1>2. CASE Tick
  <2>1. /\ cached' \in [Stores -> Listings \cup {Missing}]
        /\ cause' \in [Stores -> SUBSET Causes]
        /\ UNCHANGED <<tableVars, reader, admin>>
        /\ \A s \in Stores : \/ cached'[s] = Missing
                             \/ cached'[s] = cached[s] /\ cause'[s] = cause[s]
    BY <1>2 DEF Tick, IInv, TypeOK
  <2>2. ttlLeft' \in [Stores -> 0 .. TTL]
    BY <1>2, CacheAssumption DEF Tick, IInv, TypeOK
  <2>3. \A s \in Stores : Listing(s)' = Listing(s)
    BY <2>1 DEF tableVars, Listing, ListingOf
  <2>4. StalenessExplained'
    BY <2>1, <2>3 DEF IInv, StalenessExplained, Fresh
  <2>5. SignalsRemembered'
    BY <2>1, PendingType DEF IInv, SignalsRemembered
  <2>6. QED
    BY <2>1, <2>2, <2>4, <2>5 DEF IInv, TypeOK, tableVars
<1>3. QED
  BY <1>1, <1>2

THEOREM CacheInvariant == Spec => []IInv
<1>1. Init => IInv
  <2> SUFFICES ASSUME Init PROVE IInv
    OBVIOUS
  <2>1. TypeOK
    BY IdleType, CacheAssumption DEF Init, TypeOK, Idle
  <2>2. SignalsRemembered /\ StalenessExplained
    BY DEF Init, SignalsRemembered, StalenessExplained, Fresh
  <2>3. QED
    BY <2>1, <2>2 DEF IInv
<1>2. IInv /\ [Next]_vars => IInv'
  <2> SUFFICES ASSUME IInv, [Next]_vars PROVE IInv'
    OBVIOUS
  <2>1. CASE UNCHANGED vars
    <3>1. UNCHANGED <<home, quantity, label, cached, ttlLeft, reader, admin, cause>>
      BY <2>1 DEF vars, tableVars, cacheVars
    <3>2. \A s \in Stores : Listing(s)' = Listing(s)
      BY <3>1 DEF Listing, ListingOf
    <3>3. QED
      BY <3>1, <3>2 DEF IInv, TypeOK, SignalsRemembered, StalenessExplained, Fresh
  <2>2. QED
    BY <2>1, ReaderStep, AdminStep, SilentStep, RedisStep DEF Next
<1>3. QED
  BY <1>1, <1>2, PTL DEF Spec

(* A listing in the cache is current unless a write bypassed the signals,  *)
(* the listing was stored late, or it was stored between the signal of a   *)
(* save and its commit: there is no fourth way.                            *)
THEOREM StalenessHasACause == Spec => []StalenessExplained
<1>1. IInv => StalenessExplained
  BY DEF IInv
<1>2. QED
  BY <1>1, CacheInvariant, PTL

(* What a request stores in the cache is always the listing of a store,    *)
(* and the rows and products it is made of stay well formed under every    *)
(* writer, whatever fails in between.                                      *)
THEOREM TypesCorrect == Spec => []TypeOK
<1>1. IInv => TypeOK
  BY DEF IInv
<1>2. QED
  BY <1>1, CacheInvariant, PTL
=============================================================================

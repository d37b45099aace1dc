-------------------------- MODULE ProductSearchProofs --------------------------
(***************************************************************************)
(* For any catalogue, page size, number of suggestions and any changes of  *)
(* the tables between two statements: autocomplete is complete, everything *)
(* a crawl reads is well-typed, and a crawl misses and repeats nothing but *)
(* for the reasons named.                                                  *)
(***************************************************************************)
EXTENDS ProductSearch, FiniteSetTheorems, SequenceTheorems, TLAPS

(* The first query has run: whatever matched then and ever since is still  *)
(* there for the second one.                                               *)
StillMatching == suggest.at = "prefixes" => matching \subseteq TitleContains

IInv ==
    /\ Products \subseteq ProductIds
    /\ suggest \in SuggestState
    /\ StillMatching
    /\ SuggestionsComplete

-----------------------------------------------------------------------------

(* If the rows a limit leaves over do not use it up, nothing was cut off.  *)
LEMMA LimitLeavesRoom ==
    ASSUME NEW S, IsFiniteSet(S), NEW n \in Int, NEW T \in Limit(S, n), Cardinality(T) < n
    PROVE  T = S
<1>1. Cardinality(S) \in Nat
  BY FS_CardinalityType
<1>2. T \subseteq S /\ Cardinality(T) = Min({n, Cardinality(S)})
  BY DEF Limit
<1>3. Min({n, Cardinality(S)}) \in {n, Cardinality(S)}
  <2>1. \E x \in {n, Cardinality(S)} : \A y \in {n, Cardinality(S)} : x <= y
    BY <1>1
  <2>2. QED
    BY <2>1 DEF Min
<1>4. Cardinality(T) = Cardinality(S)
  BY <1>1, <1>2, <1>3
<1>5. QED
  BY <1>2, <1>4, FS_Subset

LEMMA InitIInv == Init => IInv
BY SearchAssumption
   DEF Init, IInv, Related, Products, SuggestState, NoRequest, StillMatching, SuggestionsComplete

(* The second query: with room to spare it has returned all that matched.  *)
LEMMA FillUpStep == ASSUME IInv, FillUp PROVE IInv'
<1> DEFINE prefix == suggest.prefix
           rest == TitleContains \ prefix
           room == MaxResults - Cardinality(prefix)
<1>1. PICK T \in Limit(rest, room) :
        suggest' = [at |-> "answered", prefix |-> prefix, contains |-> T]
  BY DEF FillUp
<1>2. suggest.at = "prefixes" /\ prefix \subseteq ProductIds
  BY DEF FillUp, IInv, SuggestState
<1>3. rest \subseteq ProductIds /\ T \subseteq rest
  BY DEF IInv, TitleContains, Limit
<1>4. IsFiniteSet(prefix) /\ IsFiniteSet(rest) /\ IsFiniteSet(T)
  BY <1>2, <1>3, SearchAssumption, FS_Subset
<1>5. Products' \subseteq ProductIds
  BY DEF FillUp, tableVars, IInv, Products
<1>6. suggest' \in SuggestState
  BY <1>1, <1>2, <1>3 DEF SuggestState
<1>7. ASSUME Cardinality(prefix \cup T) < MaxResults
      PROVE  matching \subseteq prefix \cup T
  <2>1. prefix \cap T = {}
    BY <1>3
  <2>2. /\ Cardinality(prefix \cup T) = Cardinality(prefix) + Cardinality(T)
        /\ Cardinality(prefix) \in Nat /\ Cardinality(T) \in Nat
    <3>1. Cardinality(prefix) \in Nat /\ Cardinality(T) \in Nat
      BY <1>4, FS_CardinalityType
    <3>2. Cardinality(prefix \cap T) = 0
      BY <2>1, FS_EmptySet
    <3>3. Cardinality(prefix \cup T)
            = Cardinality(prefix) + Cardinality(T) - Cardinality(prefix \cap T)
      BY <1>4, FS_Union
    <3>4. QED
      BY <3>1, <3>2, <3>3
  <2>3. room \in Int /\ Cardinality(T) < room
    BY <1>7, <2>2, SearchAssumption
  <2>4. T = rest
    BY <1>4, <2>3, LimitLeavesRoom
  <2>5. matching \subseteq TitleContains
    BY <1>2 DEF IInv, StillMatching
  <2>6. QED
    BY <2>4, <2>5
<1>8. SuggestionsComplete'
  BY <1>1, <1>7 DEF FillUp, SuggestionsComplete
<1>9. StillMatching'
  BY <1>1 DEF StillMatching
<1>10. QED
  BY <1>5, <1>6, <1>8, <1>9 DEF IInv

(* The first query starts to watch what matches.                           *)
LEMMA FindPrefixesStep == ASSUME IInv, FindPrefixes PROVE IInv'
<1>1. PICK S \in Limit(StartsWith, MaxResults) :
        suggest' = [at |-> "prefixes", prefix |-> S]
  BY DEF FindPrefixes
<1>2. UNCHANGED catalogue /\ matching' = TitleContains
  BY DEF FindPrefixes, tableVars
<1>3. S \subseteq ProductIds
  BY DEF Limit, StartsWith, IInv
<1>4. suggest' \in SuggestState
  BY <1>1, <1>3 DEF SuggestState
<1>5. TitleContains' = TitleContains /\ Products' = Products
  BY <1>2 DEF TitleContains, Products
<1>6. QED
  BY <1>1, <1>2, <1>4, <1>5 DEF IInv, StillMatching, SuggestionsComplete

(* A change of the tables: what no longer matches is dropped from the      *)
(* history.                                                                *)
LEMMA ChangeStep ==
    ASSUME IInv, Change, Products' \subseteq ProductIds
    PROVE  IInv'
<1>1. UNCHANGED suggest /\ matching' = matching \cap TitleContains'
  BY DEF Change
<1>2. StillMatching' /\ SuggestionsComplete'
  BY <1>1 DEF IInv, StillMatching, SuggestionsComplete
<1>3. QED
  BY <1>1, <1>2 DEF IInv

(* Every change keeps to the ids products may be given.                    *)
LEMMA TablesStep == ASSUME IInv, ChangeProducts \/ ChangeInventory PROVE IInv'
<1>1. CASE ChangeProducts
  <2>1. PICK p \in ProductIds :
            \/ DeleteProduct(p)
            \/ \E product \in Product : CreateProduct(p, product) \/ EditProduct(p, product)
    BY <1>1 DEF ChangeProducts
  <2>2. CASE DeleteProduct(p)
    BY <2>2, ChangeStep DEF DeleteProduct, Products, IInv
  <2>3. ASSUME NEW product \in Product, CreateProduct(p, product) PROVE IInv'
    BY <2>3, ChangeStep DEF CreateProduct, Products, IInv
  <2>4. ASSUME NEW product \in Product, EditProduct(p, product) PROVE IInv'
    BY <2>4, ChangeStep DEF EditProduct, Products, IInv
  <2>5. QED
    BY <2>1, <2>2, <2>3, <2>4
<1>2. CASE ChangeInventory
  <2>1. PICK s \in Stores, p \in ProductIds :
            RemoveStock(s, p) \/ \E quantity \in Quantities : SetStock(s, p, quantity)
    BY <1>2 DEF ChangeInventory
  <2>2. UNCHANGED catalogue /\ Change
    BY <2>1 DEF RemoveStock, SetStock
  <2>3. QED
    BY <2>2, ChangeStep DEF Products, IInv
<1>3. QED
  BY <1>1, <1>2

(* What autocomplete suggests is complete in every reachable state.        *)
THEOREM SuggestionsInvariant == Spec => []IInv
<1>1. IInv /\ [Next]_vars => IInv'
  <2> SUFFICES ASSUME IInv, [Next]_vars PROVE IInv'
    OBVIOUS
  <2>1. CASE \E q \in Queries : StartCrawl(q)
    BY <2>1 DEF StartCrawl, tableVars, suggestVars, IInv, StillMatching, SuggestionsComplete,
                TitleContains, Products
  <2>2. CASE CountResults
    BY <2>2 DEF CountResults, tableVars, suggestVars, IInv, StillMatching, SuggestionsComplete,
                TitleContains, Products
  <2>3. CASE SelectPage
    BY <2>3 DEF SelectPage, tableVars, suggestVars, IInv, StillMatching, SuggestionsComplete,
                TitleContains, Products
  <2>4. CASE UNCHANGED vars
    BY <2>4 DEF vars, tableVars, suggestVars, IInv, StillMatching, SuggestionsComplete,
                TitleContains, Products
  <2>5. QED
    BY <2>1, <2>2, <2>3, <2>4, FindPrefixesStep, FillUpStep, TablesStep DEF Next
<1>2. QED
  BY <1>1, InitIInv, PTL DEF Spec

(* Autocomplete misses no product whose title matched all the while,       *)
(* whatever was renamed, created or deleted between its two queries.       *)
THEOREM SuggestionsAreComplete == Spec => []SuggestionsComplete
<1>1. IInv => SuggestionsComplete
  BY DEF IInv
<1>2. QED
  BY <1>1, SuggestionsInvariant, PTL

-----------------------------------------------------------------------------
(* Types: TypeOK is inductive, the pages included.                         *)

LEMMA LeastOfThree ==
    ASSUME NEW a \in Nat, NEW b \in Nat, NEW c \in Nat
    PROVE  /\ Min({a, b, c}) \in {a, b, c}
           /\ Min({a, b, c}) <= a /\ Min({a, b, c}) <= b /\ Min({a, b, c}) <= c
<1> DEFINE ends == {a, b, c}
<1>1. \E x \in ends : \A y \in ends : x <= y
  OBVIOUS
<1>2. Min(ends) \in ends /\ \A y \in ends : Min(ends) <= y
  BY <1>1 DEF Min
<1>3. QED
  BY <1>2

(* A slice of rows, without the first of them, up to two ends.             *)
Shows(slice, rows, skipped, end, count) ==
    /\ \A k \in DOMAIN slice :
            /\ k \in Nat /\ k >= 1
            /\ skipped + k \in DOMAIN rows /\ slice[k] = rows[skipped + k]
            /\ skipped + k <= end
    /\ \A i \in DOMAIN rows :
            skipped < i /\ i <= end /\ i <= count =>
                i - skipped \in DOMAIN slice /\ slice[i - skipped] = rows[i]

LEMMA Window ==
    ASSUME NEW S, NEW rows \in Seq(S), NEW skipped \in Nat, NEW end \in Nat, NEW count \in Nat
    PROVE  LET slice == SubSeq(rows, skipped + 1, Min({end, count, Len(rows)}))
           IN  slice \in Seq(S) /\ Shows(slice, rows, skipped, end, count)
<1> DEFINE last == Min({end, count, Len(rows)})
           slice == SubSeq(rows, skipped + 1, last)
<1>1. Len(rows) \in Nat /\ DOMAIN rows = 1 .. Len(rows)
  OBVIOUS
<1>2. /\ last \in {end, count, Len(rows)}
      /\ last <= end /\ last <= count /\ last <= Len(rows)
  BY <1>1, LeastOfThree
<1> HIDE DEF last
<1>3. last \in Nat /\ last <= end /\ last <= count /\ last <= Len(rows)
  BY <1>1, <1>2
<1>4. \A i \in skipped + 1 .. last : rows[i] \in S
  <2>1. \A i \in skipped + 1 .. last : i \in 1 .. Len(rows)
    BY <1>1, <1>3
  <2>2. \A i \in 1 .. Len(rows) : rows[i] \in S
    OBVIOUS
  <2>3. QED
    BY Zenon, <2>1, <2>2
<1>5. /\ slice \in Seq(S)
      /\ Len(slice) = IF skipped + 1 <= last THEN last - (skipped + 1) + 1 ELSE 0
      /\ \A k \in 1 .. last - (skipped + 1) + 1 : slice[k] = rows[skipped + 1 + k - 1]
  BY <1>3, <1>4, SubSeqProperties
<1> HIDE DEF slice
<1>6. DOMAIN slice = 1 .. Len(slice) /\ Len(slice) \in Nat
  BY <1>5
<1>7. ASSUME NEW k \in DOMAIN slice
      PROVE  /\ k \in Nat /\ k >= 1
             /\ skipped + k \in DOMAIN rows /\ slice[k] = rows[skipped + k]
             /\ skipped + k <= end
  <2>1. k \in Nat /\ k >= 1 /\ k <= last - skipped
    BY <1>3, <1>5, <1>6
  <2>2. slice[k] = rows[skipped + 1 + k - 1] /\ skipped + 1 + k - 1 = skipped + k
    BY <1>3, <1>5, <2>1
  <2>3. skipped + k <= end /\ skipped + k \in 1 .. Len(rows)
    BY <1>1, <1>3, <2>1
  <2>4. QED
    BY <1>1, <2>1, <2>2, <2>3
<1>8. ASSUME NEW i \in DOMAIN rows, skipped < i, i <= end, i <= count
      PROVE  i - skipped \in DOMAIN slice /\ slice[i - skipped] = rows[i]
  <2>1. i \in Nat /\ i <= Len(rows)
    BY <1>1
  <2>2. i <= last
    BY <1>2, <1>8, <2>1
  <2>3. i - skipped \in 1 .. Len(slice)
    BY <1>3, <1>5, <1>8, <2>1, <2>2
  <2>4. slice[i - skipped] = rows[skipped + 1 + (i - skipped) - 1]
    <3>1. i - skipped \in 1 .. last - (skipped + 1) + 1
      BY <1>3, <1>8, <2>1, <2>2
    <3>2. QED
      BY <1>5, <3>1, Zenon
  <2>5. skipped + 1 + (i - skipped) - 1 = i
    BY <2>1
  <2>6. QED
    BY <1>6, <2>3, <2>4, <2>5
<1>9. QED
  BY <1>5, <1>7, <1>8 DEF Shows, slice, last

(* Pages follow each other without a gap.                                  *)
LEMMA Offsets ==
    ASSUME NEW page \in Nat \ {0}
    PROVE  /\ (page - 1) * PageSize \in Nat /\ page * PageSize \in Nat
           /\ page * PageSize = (page - 1) * PageSize + PageSize
BY SearchAssumption

(* A page never reaches beyond the rows it is cut from.                    *)
LEMMA SliceType ==
    ASSUME NEW S, NEW rows \in Seq(S), NEW page \in Nat \ {0}, NEW count \in Nat
    PROVE  Slice(rows, page, count) \in Seq(S)
<1> DEFINE skipped == (page - 1) * PageSize
           end == page * PageSize
<1>1. skipped \in Nat /\ end \in Nat
  BY Offsets
<1> HIDE DEF skipped, end
<1>2. SubSeq(rows, skipped + 1, Min({end, count, Len(rows)})) \in Seq(S)
  BY <1>1, Window
<1>3. QED
  BY <1>2 DEF Slice, skipped, end

(* What the database returns are pairs of a product and no store.          *)
LEMMA ResultsType ==
    ASSUME TypeOK, NEW q
    PROVE  /\ Results(q) \subseteq ProductIds \X {NoStore}
           /\ Cardinality(Results(q)) \in Nat
<1>1. Results(q) \subseteq ProductIds \X {NoStore}
  BY DEF TypeOK, Related, Results, Distinct, Joined, Products
<1>2. IsFiniteSet(ProductIds \X {NoStore})
  BY SearchAssumption, FS_Singleton, FS_Product
<1>3. QED
  BY <1>1, <1>2, FS_Subset, FS_CardinalityType

(* The products of a page.                                                 *)
LEMMA PageType ==
    ASSUME TypeOK, crawl.at = "counted", NEW q, NEW rows \in Orders(q)
    PROVE  LET page == Slice(rows, crawl.page, crawl.count)
           IN  Ids(page) \in Seq(ProductIds)
<1> DEFINE page == Slice(rows, crawl.page, crawl.count)
<1>1. rows \in Seq(ProductIds \X {NoStore})
  BY ResultsType DEF Orders, SetToSeqs
<1>2. crawl.page \in Nat \ {0} /\ crawl.count \in Nat
  BY DEF TypeOK, CrawlState
<1>3. page \in Seq(ProductIds \X {NoStore})
  BY <1>1, <1>2, SliceType
<1>4. QED
  <2> HIDE DEF page
  <2>1. DOMAIN page = 1 .. Len(page) /\ Len(page) \in Nat
    BY <1>3
  <2>2. \A i \in 1 .. Len(page) : page[i][1] \in ProductIds
    BY <1>3
  <2>3. [i \in DOMAIN page |-> page[i][1]] \in [1 .. Len(page) -> ProductIds]
    BY <2>1, <2>2
  <2>4. QED
    BY <2>1, <2>3 DEF page, Ids

(* The steps of the crawl.                                                 *)
LEMMA CrawlTypes ==
    ASSUME TypeOK, (\E q \in Queries : StartCrawl(q)) \/ CountResults \/ SelectPage
    PROVE  TypeOK'
<1>1. UNCHANGED <<tableVars, suggestVars>>
  BY DEF StartCrawl, CountResults, SelectPage
<1>2. /\ (Tables(catalogue, inventory) /\ Related(catalogue, inventory))'
      /\ (Products \subseteq issued /\ issued \subseteq ProductIds)'
      /\ (changes \in 0 .. MaxChanges)'
      /\ (suggest \in SuggestState /\ matching \subseteq ProductIds)'
  BY <1>1 DEF TypeOK, tableVars, suggestVars, Products
<1>3. ASSUME NEW q \in Queries, StartCrawl(q) PROVE TypeOK'
  <2>1. Found(q) \subseteq ProductIds
    BY ResultsType DEF Found
  <2>2. QED
    BY <1>2, <1>3, <2>1 DEF StartCrawl, TypeOK, CrawlState
<1>4. CASE CountResults
  <2>1. crawl.query \in Queries /\ crawl.page \in Nat \ {0}
    BY <1>4 DEF TypeOK, CrawlState, CountResults
  <2>2. crawl' \in CrawlState
    BY <1>4, <2>1, ResultsType DEF CountResults, CrawlState
  <2>3. QED
    BY <1>2, <1>4, <2>2 DEF CountResults, TypeOK
<1>5. CASE SelectPage
  <2>1. crawl.query \in Queries /\ crawl.page \in Nat \ {0}
    BY <1>5 DEF TypeOK, CrawlState, SelectPage
  <2>2. received' \in Seq(ProductIds)
    <3>1. PICK rows \in Orders(crawl.query) :
                received' = received \o Ids(Slice(rows, crawl.page, crawl.count))
      BY <1>5 DEF SelectPage
    <3>2. Ids(Slice(rows, crawl.page, crawl.count)) \in Seq(ProductIds)
      BY <1>5, PageType DEF SelectPage
    <3>3. QED
      BY <3>1, <3>2, ConcatProperties DEF TypeOK
  <2>3. crawl' \in CrawlState
    BY <1>5, <2>1 DEF SelectPage, CrawlState
  <2>4. disturbed' \subseteq Disturbances /\ expected' \subseteq ProductIds
    BY <1>5 DEF SelectPage, TypeOK, Disturbances
  <2>5. QED
    BY <1>2, <2>2, <2>3, <2>4 DEF TypeOK
<1>6. QED
  BY <1>3, <1>4, <1>5

(* The two queries of autocomplete.                                        *)
LEMMA SuggestTypes == ASSUME TypeOK, FindPrefixes \/ FillUp PROVE TypeOK'
<1>1. TitleContains \subseteq ProductIds /\ StartsWith \subseteq ProductIds
  BY DEF TypeOK, TitleContains, StartsWith, Related, Products
<1>2. suggest' \in SuggestState
  <2>1. CASE FindPrefixes
    BY <1>1, <2>1 DEF FindPrefixes, Limit, SuggestState
  <2>2. CASE FillUp
    <3>1. suggest.prefix \subseteq ProductIds
      BY <2>2 DEF FillUp, TypeOK, SuggestState
    <3>2. QED
      BY <1>1, <2>2, <3>1 DEF FillUp, Limit, SuggestState
  <2>3. QED
    BY <2>1, <2>2
<1>3. matching' \subseteq ProductIds
  BY <1>1 DEF FindPrefixes, FillUp, TypeOK
<1>4. QED
  BY <1>2, <1>3 DEF FindPrefixes, FillUp, TypeOK, tableVars, crawlVars, Products

(* Whatever changes the tables leaves the requests as they are.            *)
LEMMA ChangeTypes ==
    ASSUME TypeOK, Change,
           Tables(catalogue, inventory)', Related(catalogue, inventory)',
           (Products \subseteq issued)', issued' \subseteq ProductIds
    PROVE  TypeOK'
<1>1. changes' \in 0 .. MaxChanges
  BY SearchAssumption DEF Change, TypeOK
<1>2. disturbed' \subseteq Disturbances
  BY DEF Change, TypeOK, Disturbance, Disturbances
<1>3. QED
  BY <1>1, <1>2 DEF Change, TypeOK, crawlVars

LEMMA ProductTypes == ASSUME TypeOK, ChangeProducts PROVE TypeOK'
<1>1. PICK p \in ProductIds :
        \/ DeleteProduct(p)
        \/ \E product \in Product : CreateProduct(p, product) \/ EditProduct(p, product)
  BY DEF ChangeProducts
<1>2. CASE DeleteProduct(p)
  <2>1. Tables(catalogue, inventory)' /\ Related(catalogue, inventory)'
    BY <1>2 DEF DeleteProduct, TypeOK, Tables, Related, Products
  <2>2. QED
    BY <1>2, <2>1, ChangeTypes DEF DeleteProduct, TypeOK, Products
<1>3. ASSUME NEW product \in Product, CreateProduct(p, product) PROVE TypeOK'
  <2>1. Tables(catalogue, inventory)' /\ Related(catalogue, inventory)'
    BY <1>3 DEF CreateProduct, TypeOK, Tables, Related, Products
  <2>2. QED
    BY <1>3, <2>1, ChangeTypes DEF CreateProduct, TypeOK, Products
<1>4. ASSUME NEW product \in Product, EditProduct(p, product) PROVE TypeOK'
  <2>1. Tables(catalogue, inventory)' /\ Related(catalogue, inventory)'
    BY <1>4 DEF EditProduct, TypeOK, Tables, Related, Products
  <2>2. QED
    BY <1>4, <2>1, ChangeTypes DEF EditProduct, TypeOK, Products
<1>5. QED
  BY <1>1, <1>2, <1>3, <1>4

LEMMA InventoryTypes == ASSUME TypeOK, ChangeInventory PROVE TypeOK'
<1>1. PICK s \in Stores, p \in ProductIds :
        RemoveStock(s, p) \/ \E quantity \in Quantities : SetStock(s, p, quantity)
  BY DEF ChangeInventory
<1>2. CASE RemoveStock(s, p)
  <2>1. Tables(catalogue, inventory)' /\ Related(catalogue, inventory)'
    BY <1>2 DEF RemoveStock, TypeOK, Tables, Related, Products
  <2>2. QED
    BY <1>2, <2>1, ChangeTypes DEF RemoveStock, TypeOK, Products
<1>3. ASSUME NEW n \in Quantities, SetStock(s, p, n) PROVE TypeOK'
  <2>1. Tables(catalogue, inventory)' /\ Related(catalogue, inventory)'
    BY <1>3 DEF SetStock, TypeOK, Tables, Related, Products, Quantities
  <2>2. QED
    BY <1>3, <2>1, ChangeTypes DEF SetStock, TypeOK, Products
<1>4. QED
  BY <1>1, <1>2, <1>3

(* The inventory never refers to a product that is not there, and a page   *)
(* never holds anything but products, whatever is deleted between the      *)
(* count and the slice it is cut by.                                       *)
THEOREM TypesCorrect == Spec => []TypeOK
<1>1. Init => TypeOK
  BY SearchAssumption
     DEF Init, TypeOK, Tables, Related, Products, NoRequest, CrawlState, SuggestState
<1>2. TypeOK /\ [Next]_vars => TypeOK'
  <2> SUFFICES ASSUME TypeOK, [Next]_vars PROVE TypeOK'
    OBVIOUS
  <2>1. CASE UNCHANGED vars
    BY <2>1 DEF vars, tableVars, crawlVars, suggestVars, TypeOK, Products
  <2>2. QED
    BY <2>1, CrawlTypes, SuggestTypes, ProductTypes, InventoryTypes DEF Next
<1>3. QED
  BY <1>1, <1>2, PTL DEF Spec

-----------------------------------------------------------------------------
(* The crawl.  A product's place in the list is the number of products     *)
(* before it; what a page shows and what it leaves over is told by places. *)

Before(q, p) == {r \in Found(q) : Precedes(q, r, p)}

Decided(q, p, r) == p = r \/ Precedes(q, p, r) \/ Precedes(q, r, p)

LEMMA FoundResults ==
    ASSUME NEW q
    PROVE  /\ Results(q) = {<<p, NoStore>> : p \in Found(q)}
           /\ Found(q) \subseteq Products
BY DEF Found, Results, Distinct, Joined

LEMMA FoundFinite ==
    ASSUME TypeOK, NEW q
    PROVE  /\ IsFiniteSet(Found(q)) /\ IsFiniteSet(Results(q))
           /\ Cardinality(Found(q)) \in Nat
           /\ Cardinality(Results(q)) = Cardinality(Found(q))
           /\ \A p : IsFiniteSet(Before(q, p)) /\ Cardinality(Before(q, p)) \in Nat
<1>1. Found(q) \in SUBSET ProductIds
  BY FoundResults DEF TypeOK, Related, Products
<1>2. IsFiniteSet(Found(q))
  BY <1>1, SearchAssumption, FS_Subset
<1>3. Results(q) = Found(q) \X {NoStore}
  BY FoundResults
<1>4. IsFiniteSet({NoStore}) /\ Cardinality({NoStore}) = 1
  BY FS_Singleton
<1>5. IsFiniteSet(Results(q)) /\ Cardinality(Results(q)) = Cardinality(Found(q)) * 1
  BY <1>2, <1>3, <1>4, FS_Product
<1>6. \A p : Before(q, p) \in SUBSET Found(q)
  BY DEF Before
<1>7. \A p : IsFiniteSet(Before(q, p))
  BY <1>2, <1>6, FS_Subset
<1>8. Cardinality(Found(q)) \in Nat /\ \A p : Cardinality(Before(q, p)) \in Nat
  BY <1>2, <1>7, FS_CardinalityType
<1>9. QED
  BY <1>2, <1>5, <1>7, <1>8

(* cls_sort is a strict order of the products.                             *)
LEMMA StrictOrder ==
    ASSUME TypeOK, NEW q, NEW p \in Products, NEW r \in Products, Precedes(q, p, r)
    PROVE  ~Precedes(q, r, p)
<1>1. catalogue[p] \in Product /\ catalogue[r] \in Product
  BY DEF TypeOK, Tables, Products
<1>2. /\ catalogue[p].price \in Nat /\ catalogue[r].price \in Nat
      /\ catalogue[p].rank \in Nat /\ catalogue[r].rank \in Nat
  <2>1. Prices \subseteq Nat
    BY Zenon, SearchAssumption
  <2>2. /\ catalogue[p].price \in Prices /\ catalogue[p].rank \in 1 .. 5
        /\ catalogue[r].price \in Prices /\ catalogue[r].rank \in 1 .. 5
    BY <1>1 DEF Product, Rank
  <2>3. catalogue[p].price \in Nat /\ catalogue[r].price \in Nat
    BY Zenon, <2>1, <2>2
  <2>4. catalogue[p].rank \in Nat /\ catalogue[r].rank \in Nat
    <3>1. \A n \in 1 .. 5 : n \in Nat
      OBVIOUS
    <3>2. QED
      BY Zenon, <2>2, <3>1
  <2>5. QED
    BY <2>3, <2>4
<1>3. CreatedAt[p] \in Nat /\ CreatedAt[r] \in Nat
  BY SearchAssumption DEF TypeOK, Related, Products
<1>4. QED
  BY <1>2, <1>3 DEF Precedes, Newer

(* The rows the database returns: every result once.                       *)
LEMMA RowsType ==
    ASSUME TypeOK, NEW q, NEW rows \in Orders(q)
    PROVE  /\ rows \in Seq(ProductIds \X {NoStore})
           /\ Len(rows) = Cardinality(Found(q)) /\ DOMAIN rows = 1 .. Len(rows)
           /\ \A i \in DOMAIN rows : rows[i][1] \in Found(q)
           /\ \A i, j \in DOMAIN rows : rows[i][1] = rows[j][1] => i = j
           /\ \A p \in Found(q) : \E i \in DOMAIN rows : rows[i][1] = p
           /\ \A i, j \in DOMAIN rows : i < j => ~Precedes(q, rows[j][1], rows[i][1])
<1> DEFINE n == Cardinality(Results(q))
<1>1. /\ rows \in [1 .. n -> Results(q)]
      /\ \A i, j \in 1 .. n : i # j => rows[i] # rows[j]
      /\ \A i, j \in DOMAIN rows : i < j => ~Precedes(q, rows[j][1], rows[i][1])
  BY DEF Orders, SetToSeqs
<1>2. n \in Nat /\ n = Cardinality(Found(q)) /\ IsFiniteSet(Results(q))
  BY FoundFinite
<1>3. IsFiniteSet(1 .. n) /\ Cardinality(1 .. n) = n
  BY <1>2, FS_Interval
<1>4. rows \in Injection(1 .. n, Results(q))
  BY <1>1 DEF Injection, IsInjective
<1>5. rows \in Surjection(1 .. n, Results(q))
  BY <1>2, <1>3, <1>4, FS_Injection
<1>6. \A row \in Results(q) : \E i \in 1 .. n : rows[i] = row
  BY <1>5 DEF Surjection
<1>7. Results(q) \subseteq ProductIds \X {NoStore}
  BY ResultsType
<1> HIDE DEF n
<1>8. rows \in Seq(ProductIds \X {NoStore}) /\ Len(rows) = n /\ DOMAIN rows = 1 .. n
  BY <1>1, <1>2, <1>7
<1>9. \A i \in 1 .. n : rows[i][1] \in Found(q) /\ rows[i] = <<rows[i][1], NoStore>>
  BY <1>1, FoundResults
<1>10. \A p \in Found(q) : \E i \in 1 .. n : rows[i][1] = p
  <2> SUFFICES ASSUME NEW p \in Found(q) PROVE \E i \in 1 .. n : rows[i][1] = p
    OBVIOUS
  <2>1. <<p, NoStore>> \in Results(q)
    BY FoundResults
  <2>2. PICK i \in 1 .. n : rows[i] = <<p, NoStore>>
    BY <1>6, <2>1, Zenon
  <2>3. rows[i][1] = p
    BY <2>2
  <2>4. QED
    BY <2>3
<1>11. \A i, j \in 1 .. n : rows[i][1] = rows[j][1] => i = j
  BY <1>1, <1>9
<1>12. QED
  BY <1>1, <1>2, <1>8, <1>9, <1>10, <1>11

(* Where no tie leaves the order open, row i has i - 1 products before it. *)
LEMMA Places ==
    ASSUME TypeOK, NEW q, ~Tied(q), NEW rows \in Orders(q), NEW i \in DOMAIN rows
    PROVE  Cardinality(Before(q, rows[i][1])) = i - 1
<1> DEFINE p == rows[i][1]
           earlier == [j \in 1 .. i - 1 |-> rows[j][1]]
<1>1. i \in Nat /\ i >= 1 /\ i <= Len(rows) /\ 1 .. i - 1 \subseteq DOMAIN rows
      /\ Len(rows) \in Nat /\ DOMAIN rows = 1 .. Len(rows)
  BY RowsType
<1>2. \A j \in DOMAIN rows : rows[j][1] \in Found(q) /\ rows[j][1] \in Products
  BY RowsType, FoundResults
<1>3. ASSUME NEW j \in 1 .. i - 1
      PROVE  rows[j][1] \in Before(q, p)
  <2>1. j \in DOMAIN rows /\ j < i
    BY <1>1
  <2>2. rows[j][1] # p /\ ~Precedes(q, p, rows[j][1])
    BY <2>1, RowsType
  <2>3. Precedes(q, rows[j][1], p)
    BY <1>2, <2>1, <2>2 DEF Tied
  <2>4. QED
    BY <1>2, <2>1, <2>3 DEF Before
<1>4. ASSUME NEW r \in Before(q, p)
      PROVE  \E j \in 1 .. i - 1 : rows[j][1] = r
  <2>1. PICK j \in DOMAIN rows : rows[j][1] = r
    BY RowsType DEF Before
  <2>2. Precedes(q, rows[j][1], p)
    BY <2>1 DEF Before
  <2>3. ~(i < j)
    BY <2>1, <2>2, RowsType
  <2>4. j # i
    BY <1>2, <2>2, StrictOrder
  <2>5. QED
    BY <1>1, <2>1, <2>3, <2>4
<1>5. \A j, k \in 1 .. i - 1 : rows[j][1] = rows[k][1] => j = k
  BY <1>1, RowsType
<1>6. earlier \in Bijection(1 .. i - 1, Before(q, p))
  <2> HIDE DEF p
  <2>1. earlier \in Injection(1 .. i - 1, Before(q, p))
    BY <1>3, <1>5 DEF Injection, IsInjective
  <2>2. earlier \in Surjection(1 .. i - 1, Before(q, p))
    BY <1>3, <1>4 DEF Surjection
  <2>3. QED
    BY <2>1, <2>2 DEF Bijection
<1>7. IsFiniteSet(1 .. i - 1) /\ Cardinality(1 .. i - 1) = i - 1
  <2>1. 1 \in Int /\ i - 1 \in Int
    BY <1>1
  <2>2. /\ IsFiniteSet(1 .. i - 1)
        /\ Cardinality(1 .. i - 1) = IF 1 > i - 1 THEN 0 ELSE (i - 1) - 1 + 1
    BY <2>1, FS_Interval
  <2>3. QED
    BY <1>1, <2>2
<1>8. Cardinality(Before(q, p)) = Cardinality(1 .. i - 1)
  BY <1>6, <1>7, FS_Bijection DEF ExistsBijection
<1>9. QED
  BY <1>7, <1>8

(* What a page takes of the rows.                                          *)
LEMMA SliceRows ==
    ASSUME NEW S, NEW rows \in Seq(S), NEW page \in Nat \ {0}, NEW count \in Nat
    PROVE  Shows(Slice(rows, page, count), rows, (page - 1) * PageSize, page * PageSize, count)
<1> DEFINE skipped == (page - 1) * PageSize
           end == page * PageSize
<1>1. skipped \in Nat /\ end \in Nat
  BY Offsets
<1> HIDE DEF skipped, end
<1>2. Shows(SubSeq(rows, skipped + 1, Min({end, count, Len(rows)})), rows, skipped, end, count)
  BY <1>1, Window
<1>3. QED
  BY <1>2 DEF Slice, skipped, end

(* What a page adds to what the client has received.                       *)
LEMMA Appended ==
    ASSUME NEW s \in Seq(ProductIds), NEW t \in Seq(ProductIds)
    PROVE  /\ ToSet(s \o t) = ToSet(s) \cup ToSet(t)
           /\ IsInjective(s) /\ IsInjective(t) /\ ToSet(s) \cap ToSet(t) = {} => IsInjective(s \o t)
<1>1. /\ DOMAIN s = 1 .. Len(s) /\ Len(s) \in Nat /\ DOMAIN t = 1 .. Len(t) /\ Len(t) \in Nat
      /\ s \o t \in Seq(ProductIds) /\ Len(s \o t) = Len(s) + Len(t)
      /\ \A i \in 1 .. Len(s) + Len(t) : (s \o t)[i] =
                IF i <= Len(s) THEN s[i] ELSE t[i - Len(s)]
  BY ConcatProperties
<1>2. DOMAIN (s \o t) = 1 .. Len(s) + Len(t)
  BY <1>1
<1>3. \A i \in DOMAIN s : i \in DOMAIN (s \o t) /\ (s \o t)[i] = s[i]
  BY <1>1, <1>2
<1>4. \A i \in DOMAIN t : Len(s) + i \in DOMAIN (s \o t) /\ (s \o t)[Len(s) + i] = t[i]
  <2> SUFFICES ASSUME NEW i \in 1 .. Len(t)
               PROVE  Len(s) + i \in 1 .. Len(s) + Len(t) /\ (s \o t)[Len(s) + i] = t[i]
    BY <1>1, <1>2
  <2>1. /\ Len(s) + i \in 1 .. Len(s) + Len(t) /\ ~(Len(s) + i <= Len(s))
        /\ Len(s) + i - Len(s) = i
    BY <1>1
  <2>2. QED
    BY <1>1, <2>1
<1>5. \A i \in DOMAIN (s \o t) :
        \/ i \in DOMAIN s /\ (s \o t)[i] = s[i]
        \/ i \notin DOMAIN s /\ i - Len(s) \in DOMAIN t /\ (s \o t)[i] = t[i - Len(s)]
  BY <1>1, <1>2
<1>6. ToSet(s \o t) = ToSet(s) \cup ToSet(t)
  <2>1. \A x \in ToSet(s \o t) : x \in ToSet(s) \cup ToSet(t)
    BY <1>5 DEF ToSet
  <2>2. \A x \in ToSet(s) : x \in ToSet(s \o t)
    BY <1>3 DEF ToSet
  <2>3. \A x \in ToSet(t) : x \in ToSet(s \o t)
    BY <1>4 DEF ToSet
  <2>4. QED
    BY <2>1, <2>2, <2>3
<1>7. ASSUME IsInjective(s), IsInjective(t), ToSet(s) \cap ToSet(t) = {},
             NEW i \in DOMAIN (s \o t), NEW j \in DOMAIN (s \o t), (s \o t)[i] = (s \o t)[j]
      PROVE  i = j
  <2>1. CASE i \in DOMAIN s /\ j \in DOMAIN s
    BY <1>3, <1>7, <2>1 DEF IsInjective
  <2>2. CASE i \notin DOMAIN s /\ j \notin DOMAIN s
    <3>1. i - Len(s) = j - Len(s)
      BY <1>5, <1>7, <2>2 DEF IsInjective
    <3>2. i \in Int /\ j \in Int
      BY <1>1, <1>2
    <3>3. QED
      BY <1>1, <3>1, <3>2
  <2>3. CASE (i \in DOMAIN s) # (j \in DOMAIN s)
    <3>1. (s \o t)[i] \in ToSet(s) /\ (s \o t)[i] \in ToSet(t)
      BY <1>5, <1>7, <2>3 DEF ToSet
    <3>2. QED
      BY <1>7, <3>1
  <2>4. QED
    BY <2>1, <2>2, <2>3
<1>8. QED
  BY <1>6, <1>7 DEF IsInjective

(* The last page a count leaves room for reaches the end of the list.      *)
LEMMA LastPage ==
    ASSUME NEW count \in Nat, NEW page \in Nat, NumPages(count) <= page
    PROVE  count <= page * PageSize
<1> DEFINE full == NumPages(count)
<1>1. PageSize \in Nat /\ PageSize >= 1
  BY SearchAssumption
<1>2. full \in Nat /\ count <= full * PageSize
  BY <1>1 DEF NumPages
<1>3. full * PageSize <= page * PageSize
  BY <1>1, <1>2
<1>4. QED
  BY <1>1, <1>2, <1>3

(* The products of a page, told by their places.                           *)
LEMMA PageByPlaces ==
    ASSUME TypeOK, crawl.at = "counted", NEW q, ~Tied(q), NEW rows \in Orders(q)
    PROVE  LET ids == Ids(Slice(rows, crawl.page, crawl.count))
               place(p) == Cardinality(Before(q, p))
               skipped == (crawl.page - 1) * PageSize
               end == crawl.page * PageSize
           IN  /\ IsInjective(ids)
               /\ \A p \in ToSet(ids) : p \in Found(q) /\ skipped <= place(p) /\ place(p) < end
               /\ \A p \in Found(q) :
                    skipped <= place(p) /\ place(p) < end /\ place(p) < crawl.count =>
                        p \in ToSet(ids)
<1> DEFINE slice == Slice(rows, crawl.page, crawl.count)
           ids == Ids(slice)
           place(p) == Cardinality(Before(q, p))
           skipped == (crawl.page - 1) * PageSize
           end == crawl.page * PageSize
           count == crawl.count
<1>1. crawl.page \in Nat \ {0} /\ count \in Nat
  BY DEF TypeOK, CrawlState
<1>2. skipped \in Nat /\ end \in Nat
  BY <1>1, Offsets
<1>3. Shows(slice, rows, skipped, end, count)
  BY <1>1, RowsType, SliceRows
<1>4. DOMAIN ids = DOMAIN slice /\ \A k \in DOMAIN slice : ids[k] = slice[k][1]
  BY DEF Ids
<1>5. \A i \in DOMAIN rows : place(rows[i][1]) = i - 1 /\ rows[i][1] \in Found(q)
  BY Places, RowsType
<1>6. \A i \in DOMAIN rows : i \in Nat /\ i >= 1
  BY RowsType
<1> HIDE DEF slice, ids, place, skipped, end, count
<1>7. \A k \in DOMAIN ids :
        k \in Nat /\ k >= 1 /\ skipped + k \in DOMAIN rows /\ ids[k] = rows[skipped + k][1]
           /\ skipped + k <= end
  BY <1>3, <1>4 DEF Shows
<1>8. ASSUME NEW k \in DOMAIN ids, NEW l \in DOMAIN ids, ids[k] = ids[l]
      PROVE  k = l
  <2>1. skipped + k = skipped + l
    BY <1>7, <1>8, RowsType
  <2>2. QED
    BY <1>2, <1>7, <2>1
<1>9. ASSUME NEW k \in DOMAIN ids
      PROVE  ids[k] \in Found(q) /\ skipped <= place(ids[k]) /\ place(ids[k]) < end
  <2>1. ids[k] \in Found(q) /\ place(ids[k]) = (skipped + k) - 1
    BY <1>5, <1>7
  <2>2. QED
    BY <1>2, <1>7, <2>1
<1>10. ASSUME NEW p \in Found(q), skipped <= place(p), place(p) < end, place(p) < count
       PROVE  \E k \in DOMAIN ids : ids[k] = p
  <2>1. PICK i \in DOMAIN rows : rows[i][1] = p
    BY RowsType
  <2>2. place(p) = i - 1 /\ i \in Nat /\ i >= 1
    BY <1>5, <1>6, <2>1
  <2>3. skipped < i /\ i <= end /\ i <= count
    BY <1>1, <1>2, <1>10, <2>2
  <2>4. i - skipped \in DOMAIN slice /\ slice[i - skipped] = rows[i]
    BY <1>3, <2>3 DEF Shows
  <2>5. QED
    BY <1>4, <2>1, <2>4
<1>11. /\ IsInjective(ids)
       /\ \A p \in ToSet(ids) : p \in Found(q) /\ skipped <= place(p) /\ place(p) < end
       /\ \A p \in Found(q) :
            skipped <= place(p) /\ place(p) < end /\ place(p) < count => p \in ToSet(ids)
  BY <1>8, <1>9, <1>10 DEF IsInjective, ToSet
<1>12. QED
  BY <1>11 DEF slice, ids, place, skipped, end, count

(* What a step of Change means, told by what it has recorded.              *)
LEMMA Recorded ==
    ASSUME Change, Crawling, NEW q, q = crawl.query
    PROVE  /\ disturbed \subseteq disturbed'
           /\ "left" \notin disturbed' => Found(q) \subseteq Found(q)'
           /\ "entered" \notin disturbed' => Found(q)' \subseteq Found(q)
           /\ "entered late" \notin disturbed' /\ crawl.at = "counted" =>
                Found(q)' \subseteq Found(q)
           /\ "moved" \notin disturbed' =>
                \A p, r \in Found(q) \cap Found(q)' : Precedes(q, p, r) => Precedes(q, p, r)'
<1>1. crawl' = crawl /\ disturbed' = disturbed \cup Disturbance
  BY DEF Change, crawlVars
<1>2. q = crawl'.query
  BY <1>1
<1>3. ASSUME NEW x \in Found(q), x \notin Found(q)' PROVE "left" \in disturbed'
  BY <1>1, <1>2, <1>3 DEF Disturbance
<1>4. ASSUME NEW x \in Found(q)', x \notin Found(q)
      PROVE  /\ "entered" \in disturbed'
             /\ crawl.at = "counted" => "entered late" \in disturbed'
  BY <1>1, <1>2, <1>4 DEF Disturbance
<1>5. ASSUME NEW p \in Found(q) \cap Found(q)', NEW r \in Found(q) \cap Found(q)',
             Precedes(q, p, r), ~Precedes(q, p, r)'
      PROVE  "moved" \in disturbed'
  <2>1. \E s, t \in Found(crawl.query) \cap Found(crawl.query)' :
            Precedes(crawl.query, s, t) /\ ~Precedes(crawl.query, s, t)'
    BY <1>2, <1>5
  <2>2. "moved" \in Disturbance
    BY <2>1, Zenon DEF Disturbance
  <2>3. QED
    BY <1>1, <2>2
<1>6. QED
  BY <1>1, <1>3, <1>4, <1>5

-----------------------------------------------------------------------------
(* MissesExplained.                                                        *)

(* What any list of results is: finite, its rows as many as its products,  *)
(* each with fewer before it than there are, in a strict order.            *)
Lists ==
    \A q \in Queries :
        /\ Cardinality(Results(q)) = Cardinality(Found(q))
        /\ Cardinality(Found(q)) \in Nat /\ IsFiniteSet(Found(q))
        /\ \A p \in Found(q) : /\ IsFiniteSet(Before(q, p))
                               /\ Cardinality(Before(q, p)) \in Nat
                               /\ Cardinality(Before(q, p)) < Cardinality(Found(q))
        /\ \A p, r \in Found(q) : Precedes(q, p, r) => ~Precedes(q, r, p)

(* Every result there was when the crawl began is still one, and is on a   *)
(* page the client has or has its place behind these pages.                *)
MissesKept ==
    disturbed \subseteq {"entered"} =>
        /\ Crawling =>
            LET q == crawl.query IN
            /\ expected \subseteq Found(q)
            /\ \A p \in expected :
                p \in Listed \/ (crawl.page - 1) * PageSize <= Cardinality(Before(q, p))
        /\ crawl.at = "counted" => crawl.count = Cardinality(Found(crawl.query))

LEMMA ListsFinite == ASSUME TypeOK PROVE Lists
<1> SUFFICES ASSUME NEW q \in Queries, NEW p \in Found(q)
             PROVE  Cardinality(Before(q, p)) < Cardinality(Found(q))
  BY FoundFinite, FoundResults, StrictOrder DEF Lists
<1>1. p \notin Before(q, p) /\ Before(q, p) \subseteq Found(q) /\ p \in Products
  BY FoundResults, StrictOrder DEF Before
<1>2. IsFiniteSet(Found(q)) /\ Cardinality(Found(q)) \in Nat /\ Cardinality(Before(q, p)) \in Nat
  BY FoundFinite
<1>3. /\ Cardinality(Before(q, p)) <= Cardinality(Found(q))
      /\ Cardinality(Before(q, p)) = Cardinality(Found(q)) => Before(q, p) = Found(q)
  BY <1>1, <1>2, FS_Subset
<1>4. QED
  BY <1>1, <1>2, <1>3

LEMMA CrawlTypeFacts ==
    ASSUME TypeOK, Crawling
    PROVE  /\ crawl.query \in Queries /\ crawl.page \in Nat /\ crawl.page \in Nat \ {0}
           /\ crawl.at = "counted" => crawl.count \in Nat
BY DEF TypeOK, CrawlState, Crawling

(* A step of the crawl leaves the lists as they are.                       *)
LEMMA SameLists ==
    ASSUME UNCHANGED <<catalogue, inventory>>, NEW q
    PROVE  /\ Found(q)' = Found(q)
           /\ \A p : Before(q, p)' = Before(q, p)
           /\ \A p, r : Decided(q, p, r)' = Decided(q, p, r)
<1>1. Found(q)' = Found(q) /\ \A p, r : Precedes(q, p, r)' = Precedes(q, p, r)
  BY DEF Found, Results, Distinct, Joined, Stocks, Precedes, Newer, Products
<1>2. QED
  BY <1>1 DEF Before, Decided

(* The count: a page that is not there any more ends the crawl.            *)
LEMMA MissesCount ==
    ASSUME TypeOK, MissesKept, CountResults
    PROVE  MissesKept' /\ MissesExplained'
<1> DEFINE q == crawl.query
           count == Cardinality(Results(q))
<1>1. Crawling /\ crawl.at = "asking"
  BY DEF CountResults, Crawling
<1>2. UNCHANGED <<catalogue, inventory, received, expected, disturbed>>
  BY DEF CountResults, tableVars
<1>3. q \in Queries /\ crawl.page \in Nat
  BY <1>1, CrawlTypeFacts
<1>4. count = Cardinality(Found(q)) /\ count \in Nat
  BY <1>3, ListsFinite DEF Lists
<1>5. CASE crawl.page <= NumPages(count)
  <2>1. crawl' = [at |-> "counted", query |-> q, page |-> crawl.page, count |-> count]
    BY <1>5 DEF CountResults
  <2>2. Found(crawl.query)' = Found(q) /\ \A p : Before(crawl.query, p)' = Before(q, p)
    BY <1>2, <2>1, SameLists
  <2>3. Listed' = Listed /\ crawl'.page = crawl.page /\ crawl'.count = count
    BY <1>2, <2>1 DEF Listed
  <2> HIDE DEF q, count
  <2>4. MissesKept'
    BY <1>1, <1>2, <1>4, <2>1, <2>2, <2>3 DEF MissesKept, Crawling, q
  <2>5. QED
    BY <2>1, <2>4 DEF MissesExplained
<1>6. CASE ~(crawl.page <= NumPages(count))
  <2>1. crawl' = [at |-> "ended", query |-> q]
    BY <1>6 DEF CountResults
  <2>2. count <= (crawl.page - 1) * PageSize
    <3>1. crawl.page - 1 \in Nat /\ NumPages(count) <= crawl.page - 1
      BY <1>3, <1>4, <1>6, CrawlTypeFacts, <1>1, SearchAssumption DEF NumPages
    <3>2. QED
      BY <1>4, <3>1, LastPage
  <2>3. ASSUME disturbed \subseteq {"entered"}, NEW p \in expected PROVE p \in Listed
    <3>1. p \in Found(q)
      BY <1>1, <2>3 DEF MissesKept
    <3>2. Cardinality(Before(q, p)) < count /\ Cardinality(Before(q, p)) \in Nat
      BY <1>3, <1>4, <3>1, ListsFinite DEF Lists
    <3>3. p \in Listed \/ (crawl.page - 1) * PageSize <= Cardinality(Before(q, p))
      BY <1>1, <2>3 DEF MissesKept
    <3>4. (crawl.page - 1) * PageSize \in Nat
      BY <1>1, CrawlTypeFacts, Offsets
    <3> HIDE DEF count, q
    <3>5. QED
      BY <1>4, <2>2, <3>2, <3>3, <3>4
  <2>4. MissesExplained'
    BY <1>2, <2>3 DEF MissesExplained, Listed
  <2>5. QED
    BY <2>1, <2>4 DEF MissesKept, Crawling
<1>7. QED
  BY <1>5, <1>6

LEMMA MissesSelect ==
    ASSUME TypeOK, MissesKept, SelectPage
    PROVE  MissesKept' /\ MissesExplained'
<1> DEFINE q == crawl.query
           place(p) == Cardinality(Before(q, p))
           skipped == (crawl.page - 1) * PageSize
           end == crawl.page * PageSize
<1>1. Crawling /\ crawl.at = "counted"
  BY DEF SelectPage, Crawling
<1>2. UNCHANGED <<catalogue, inventory, expected>>
  BY DEF SelectPage, tableVars
<1>3. q \in Queries /\ crawl.page \in Nat /\ crawl.page \in Nat \ {0} /\ crawl.count \in Nat
  BY <1>1, CrawlTypeFacts
<1>4. skipped \in Nat /\ end \in Nat /\ end = skipped + PageSize
  BY <1>3, Offsets
<1>5. SUFFICES ASSUME disturbed' \subseteq {"entered"} PROVE MissesKept' /\ MissesExplained'
  BY DEF MissesKept, MissesExplained
<1>6. disturbed \subseteq {"entered"} /\ ~Tied(q)
  BY <1>5 DEF SelectPage
<1>7. PICK rows \in Orders(q) :
        received' = received \o Ids(Slice(rows, crawl.page, crawl.count))
  BY DEF SelectPage
<1> DEFINE ids == Ids(Slice(rows, crawl.page, crawl.count))
<1>8. ids \in Seq(ProductIds) /\ received \in Seq(ProductIds)
  BY <1>1, PageType DEF TypeOK
<1>9. Listed' = Listed \cup ToSet(ids)
  BY <1>7, <1>8, Appended DEF Listed
<1>10. crawl.count = Cardinality(Found(q)) /\ expected \subseteq Found(q)
  BY <1>1, <1>6 DEF MissesKept
<1>11. \A p \in Found(q) :
        skipped <= place(p) /\ place(p) < end /\ place(p) < crawl.count => p \in ToSet(ids)
  BY <1>1, <1>6, PageByPlaces
<1>12. \A p \in Found(q) : place(p) \in Nat /\ place(p) < crawl.count
  BY <1>3, <1>10, ListsFinite DEF Lists
<1>13. \A p \in expected : p \in Listed \/ skipped <= place(p)
  BY <1>1, <1>6 DEF MissesKept
<1>14. ASSUME NEW p \in expected
       PROVE  p \in Listed' \/ end <= place(p)
  <2> HIDE DEF skipped, end, place, ids
  <2>1. QED
    BY <1>4, <1>9, <1>10, <1>11, <1>12, <1>13
<1>15. CASE crawl.page < NumPages(crawl.count)
  <2>1. crawl' = [at |-> "asking", query |-> q, page |-> crawl.page + 1]
    BY <1>15 DEF SelectPage
  <2>2. (crawl'.page - 1) * PageSize = end
    <3>1. crawl'.page - 1 = crawl.page
      BY <1>3, <2>1
    <3>2. QED
      BY <3>1
  <2>3. Found(crawl.query)' = Found(q) /\ \A p : Before(crawl.query, p)' = Before(q, p)
    BY <1>2, <2>1, SameLists
  <2> HIDE DEF end
  <2>4. MissesKept'
    BY <1>2, <1>10, <1>14, <2>1, <2>2, <2>3 DEF MissesKept, Crawling
  <2>5. QED
    BY <2>1, <2>4 DEF MissesExplained
<1>16. CASE ~(crawl.page < NumPages(crawl.count))
  <2>1. crawl' = [at |-> "ended", query |-> q]
    BY <1>16 DEF SelectPage
  <2>2. crawl.count <= end
    <3>1. NumPages(crawl.count) <= crawl.page
      BY <1>3, <1>16, SearchAssumption DEF NumPages
    <3>2. QED
      BY <1>3, <3>1, LastPage
  <2>3. \A p \in expected : p \in Listed'
    <3> HIDE DEF end, place
    <3>1. QED
      BY <1>3, <1>4, <1>10, <1>12, <1>14, <2>2
  <2>4. QED
    BY <1>2, <2>1, <2>3 DEF MissesKept, MissesExplained, Crawling
<1>17. QED
  BY <1>15, <1>16

(* A change under the crawl that only let results enter, and none between  *)
(* a count and its slice, moves no result forward in the list.             *)
LEMMA MissesChange ==
    ASSUME TypeOK, Lists', MissesKept, Change
    PROVE  MissesKept'
<1>1. UNCHANGED <<crawl, received, expected>>
  BY DEF Change, crawlVars
<1>2. CASE ~Crawling
  BY <1>1, <1>2 DEF MissesKept, Crawling
<1>3. CASE Crawling
  <2>1. SUFFICES ASSUME disturbed' \subseteq {"entered"} PROVE MissesKept'
    BY DEF MissesKept
  <2>2. PICK q \in Queries : q = crawl.query
    BY <1>3, CrawlTypeFacts
  <2>3. /\ disturbed \subseteq {"entered"}
        /\ Found(q) \subseteq Found(q)'
        /\ crawl.at = "counted" => Found(q)' = Found(q)
        /\ \A p, r \in Found(q) : Precedes(q, p, r) => Precedes(q, p, r)'
    <3>1. "left" \notin disturbed' /\ "entered late" \notin disturbed' /\ "moved" \notin disturbed'
      BY <2>1
    <3>2. /\ disturbed \subseteq disturbed'
          /\ Found(q) \subseteq Found(q)'
          /\ crawl.at = "counted" => Found(q)' \subseteq Found(q)
          /\ \A p, r \in Found(q) \cap Found(q)' : Precedes(q, p, r) => Precedes(q, p, r)'
      BY <1>3, <2>2, <3>1, Recorded
    <3>3. QED
      BY <2>1, <3>2
  <2>4. expected \subseteq Found(q)
    BY <1>3, <2>2, <2>3 DEF MissesKept
  <2>5. ASSUME NEW p \in expected
        PROVE  p \in Listed' \/ (crawl.page - 1) * PageSize <= Cardinality(Before(q, p)')
    <3>1. Before(q, p) \subseteq Before(q, p)'
      BY <2>3, <2>4 DEF Before
    <3>2. IsFiniteSet(Before(q, p)') /\ Cardinality(Before(q, p)') \in Nat
      BY <2>2, <2>3, <2>4 DEF Lists
    <3>3. Cardinality(Before(q, p)) <= Cardinality(Before(q, p)') /\ Cardinality(Before(q, p)) \in Nat
      BY <3>1, <3>2, FS_Subset, FS_CardinalityType
    <3>4. p \in Listed \/ (crawl.page - 1) * PageSize <= Cardinality(Before(q, p))
      BY <1>3, <2>2, <2>3 DEF MissesKept
    <3>5. (crawl.page - 1) * PageSize \in Nat /\ Listed' = Listed
      BY <1>1, <1>3, CrawlTypeFacts, Offsets DEF Listed
    <3> HIDE DEF Before
    <3>6. QED
      BY <3>2, <3>3, <3>4, <3>5
  <2>6. crawl.at = "counted" => crawl.count = Cardinality(Found(q)')
    BY <2>2, <2>3 DEF MissesKept
  <2>7. QED
    BY <1>1, <2>2, <2>3, <2>4, <2>5, <2>6 DEF MissesKept
<1>4. QED
  BY <1>2, <1>3

LEMMA MissesStep ==
    ASSUME TypeOK, Lists', MissesKept, MissesExplained, [Next]_vars
    PROVE  MissesKept' /\ MissesExplained'
<1>1. ASSUME NEW q \in Queries, StartCrawl(q) PROVE MissesKept' /\ MissesExplained'
  <2>1. /\ crawl' = [at |-> "asking", query |-> q, page |-> 1] /\ expected' = Found(q)
        /\ UNCHANGED <<catalogue, inventory>>
    BY <1>1 DEF StartCrawl, tableVars
  <2>2. Found(crawl.query)' = Found(q) /\ \A p : Before(crawl.query, p)' = Before(q, p)
    BY <2>1, SameLists
  <2>3. (crawl'.page - 1) * PageSize = 0
    BY <2>1, SearchAssumption
  <2>4. \A p \in expected' : Cardinality(Before(q, p)) \in Nat
    BY <2>1, FoundFinite
  <2>5. QED
    BY <2>1, <2>2, <2>3, <2>4 DEF MissesKept, MissesExplained, Crawling
<1>2. CASE UNCHANGED <<tableVars, crawlVars, disturbed>>
  <2>1. UNCHANGED <<catalogue, inventory, crawl, received, expected, disturbed>>
    BY <1>2 DEF tableVars, crawlVars
  <2>2. \A q : Found(q)' = Found(q) /\ \A p : Before(q, p)' = Before(q, p)
    BY <2>1, SameLists
  <2>3. Found(crawl.query)' = Found(crawl.query)
        /\ \A p : Before(crawl.query, p)' = Before(crawl.query, p)
    BY <2>1, <2>2
  <2>4. Listed' = Listed
    BY <2>1 DEF Listed
  <2>5. QED
    BY <2>1, <2>3, <2>4 DEF MissesKept, MissesExplained, Crawling
<1>3. CASE Change
  <2>1. UNCHANGED <<crawl, received, expected>>
        /\ (crawl.at = "ended" => disturbed' = disturbed)
    BY <1>3 DEF Change, crawlVars, Crawling
  <2>2. MissesExplained'
    BY <2>1 DEF MissesExplained, Listed
  <2>3. QED
    BY <1>3, <2>2, MissesChange
<1>4. QED
  BY <1>1, <1>2, <1>3, MissesCount, MissesSelect
     DEF Next, FindPrefixes, FillUp, ChangeProducts, ChangeInventory, CreateProduct, DeleteProduct,
         EditProduct, SetStock, RemoveStock, vars

LEMMA ListsInvariant == Spec => []Lists
<1>1. TypeOK => Lists
  BY ListsFinite
<1>2. QED
  BY <1>1, TypesCorrect, PTL

(* Whoever follows the "next" links to the end has seen every result there *)
(* was at the beginning, for any page size, any sort and any number of     *)
(* concurrent changes, unless one left the list or changed places, one     *)
(* entered between a count and its slice, or the sort key left the order   *)
(* open.                                                                   *)
THEOREM MissesAreExplained == Spec => []MissesExplained
<1>1. Init => MissesKept /\ MissesExplained
  BY DEF Init, NoRequest, MissesKept, MissesExplained, Crawling
<1>2. TypeOK /\ Lists' /\ (MissesKept /\ MissesExplained) /\ [Next]_vars
        => (MissesKept /\ MissesExplained)'
  BY MissesStep
<1>3. QED
  BY <1>1, <1>2, TypesCorrect, ListsInvariant, PTL DEF Spec

-----------------------------------------------------------------------------
(* RepeatsExplained.                                                       *)

(* What the client has is off the pages to come, and told apart from all   *)
(* that is on them.                                                        *)
RepeatsKept ==
    /\ crawl.at = "idle" => received = <<>>
    /\ disturbed \subseteq {"left"} /\ Crawling =>
        LET q == crawl.query IN
        \A p \in Listed \cap Found(q) :
            /\ Cardinality(Before(q, p)) < (crawl.page - 1) * PageSize
            /\ \A r \in Found(q) : Decided(q, p, r)

(* The slice: what it returns lies behind the pages before it.             *)
LEMMA RepeatsSelect ==
    ASSUME TypeOK, RepeatsKept, RepeatsExplained, SelectPage
    PROVE  RepeatsKept' /\ RepeatsExplained'
<1> DEFINE q == crawl.query
           place(p) == Cardinality(Before(q, p))
           skipped == (crawl.page - 1) * PageSize
           end == crawl.page * PageSize
<1>1. Crawling /\ crawl.at = "counted"
  BY DEF SelectPage, Crawling
<1>2. UNCHANGED <<catalogue, inventory>>
  BY DEF SelectPage, tableVars
<1>3. q \in Queries /\ crawl.page \in Nat /\ crawl.page \in Nat \ {0}
  BY <1>1, CrawlTypeFacts
<1>4. skipped \in Nat /\ end \in Nat /\ end = skipped + PageSize /\ PageSize \in Nat
  BY <1>3, Offsets, SearchAssumption
<1>5. /\ crawl'.at # "idle"
      /\ crawl'.at \in {"asking", "counted"} =>
            crawl' = [at |-> "asking", query |-> q, page |-> crawl.page + 1]
  BY DEF SelectPage
<1>6. SUFFICES ASSUME disturbed' \subseteq {"left"} PROVE RepeatsKept' /\ RepeatsExplained'
  BY <1>5 DEF RepeatsKept, RepeatsExplained
<1>7. disturbed \subseteq {"left"} /\ ~Tied(q)
  BY <1>6 DEF SelectPage
<1>8. PICK rows \in Orders(q) :
        received' = received \o Ids(Slice(rows, crawl.page, crawl.count))
  BY DEF SelectPage
<1> DEFINE ids == Ids(Slice(rows, crawl.page, crawl.count))
<1>9. ids \in Seq(ProductIds) /\ received \in Seq(ProductIds)
  BY <1>1, PageType DEF TypeOK
<1>10. Listed' = Listed \cup ToSet(ids)
  BY <1>8, <1>9, Appended DEF Listed
<1>11. /\ IsInjective(ids)
       /\ \A p \in ToSet(ids) : p \in Found(q) /\ skipped <= place(p) /\ place(p) < end
  BY <1>1, <1>7, PageByPlaces
<1>12. \A p \in Listed \cap Found(q) : place(p) < skipped
  BY <1>1, <1>7 DEF RepeatsKept
<1>13. \A p : place(p) \in Nat
  BY FoundFinite
<1>14. Listed \cap ToSet(ids) = {}
  <2> HIDE DEF ids, place, skipped, end
  <2>1. QED
    BY <1>4, <1>11, <1>12, <1>13
<1>15. IsInjective(received)
  BY <1>7 DEF RepeatsExplained
<1>16. RepeatsExplained'
  <2>1. IsInjective(received \o ids)
    BY <1>9, <1>11, <1>14, <1>15, Appended DEF Listed
  <2>2. QED
    BY <1>8, <2>1 DEF RepeatsExplained
<1>17. \A p \in Listed' \cap Found(q) : place(p) < end
  <2> HIDE DEF ids, place, skipped, end
  <2>1. QED
    BY <1>4, <1>10, <1>11, <1>12, <1>13
<1>18. \A p, r \in Found(q) : Decided(q, p, r)
  BY <1>7 DEF Tied, Decided
<1>19. RepeatsKept'
  <2>1. CASE Crawling'
    <3>1. crawl' = [at |-> "asking", query |-> q, page |-> crawl.page + 1]
      BY <1>5, <2>1 DEF Crawling
    <3>2. (crawl'.page - 1) * PageSize = end
      <4>1. crawl'.page - 1 = crawl.page
        BY <1>3, <3>1
      <4>2. QED
        BY <4>1
    <3>3. /\ Found(crawl.query)' = Found(q)
          /\ \A p : Before(crawl.query, p)' = Before(q, p)
          /\ \A p, r : Decided(crawl.query, p, r)' = Decided(q, p, r)
      BY <1>2, <3>1, SameLists
    <3> HIDE DEF end
    <3>4. QED
      BY <1>5, <1>17, <1>18, <3>1, <3>2, <3>3 DEF RepeatsKept
  <2>2. CASE ~Crawling'
    BY <1>5, <2>2 DEF RepeatsKept
  <2>3. QED
    BY <2>1, <2>2
<1>20. QED
  BY <1>16, <1>19

(* A change under the crawl that only let results leave moves no result    *)
(* back in the list.                                                       *)
LEMMA RepeatsChange ==
    ASSUME TypeOK, Lists', RepeatsKept, Change
    PROVE  RepeatsKept'
<1>1. UNCHANGED <<crawl, received, expected>>
  BY DEF Change, crawlVars
<1>2. CASE ~Crawling
  BY <1>1, <1>2 DEF RepeatsKept, Crawling
<1>3. CASE Crawling
  <2>1. SUFFICES ASSUME disturbed' \subseteq {"left"} PROVE RepeatsKept'
    BY <1>1, <1>3 DEF RepeatsKept
  <2>2. PICK q \in Queries : q = crawl.query
    BY <1>3, CrawlTypeFacts
  <2>3. /\ disturbed \subseteq {"left"}
        /\ Found(q)' \subseteq Found(q)
        /\ \A p, r \in Found(q)' : Precedes(q, p, r) => Precedes(q, p, r)'
    BY <1>3, <2>1, <2>2, Recorded
  <2>4. Listed' = Listed /\ (crawl.page - 1) * PageSize \in Nat
    BY <1>1, <1>3, CrawlTypeFacts, Offsets DEF Listed
  <2>5. ASSUME NEW p \in Listed, p \in Found(q)'
        PROVE  /\ Cardinality(Before(q, p)') < (crawl.page - 1) * PageSize
               /\ \A r \in Found(q)' : Decided(q, p, r)'
    <3>1. /\ Cardinality(Before(q, p)) < (crawl.page - 1) * PageSize
          /\ \A r \in Found(q) : Decided(q, p, r)
      BY <1>3, <2>2, <2>3, <2>5 DEF RepeatsKept
    <3>2. \A r \in Found(q)' : Decided(q, p, r)'
      BY <2>3, <2>5, <3>1 DEF Decided
    <3>3. \A r \in Found(q)' : Precedes(q, r, p)' => ~Precedes(q, p, r)'
      BY <2>2, <2>5 DEF Lists
    <3>4. Before(q, p)' \subseteq Before(q, p)
      BY <2>3, <2>5, <3>1, <3>3 DEF Before, Decided
    <3>5. IsFiniteSet(Before(q, p)) /\ Cardinality(Before(q, p)) \in Nat
      BY FoundFinite
    <3>6. Cardinality(Before(q, p)') <= Cardinality(Before(q, p)) /\ Cardinality(Before(q, p)') \in Nat
      BY <3>4, <3>5, FS_Subset, FS_CardinalityType
    <3>7. QED
      BY <2>4, <3>1, <3>2, <3>5, <3>6
  <2>6. QED
    BY <1>1, <1>3, <2>2, <2>3, <2>4, <2>5 DEF RepeatsKept
<1>4. QED
  BY <1>2, <1>3

LEMMA RepeatsStep ==
    ASSUME TypeOK, Lists', RepeatsKept, RepeatsExplained, [Next]_vars
    PROVE  RepeatsKept' /\ RepeatsExplained'
<1>1. ASSUME NEW q \in Queries, StartCrawl(q) PROVE RepeatsKept' /\ RepeatsExplained'
  <2>1. /\ crawl' = [at |-> "asking", query |-> q, page |-> 1]
        /\ UNCHANGED <<received, disturbed>> /\ crawl.at = "idle"
    BY <1>1 DEF StartCrawl, NoRequest
  <2>2. Listed' = {}
    BY <2>1 DEF RepeatsKept, Listed, ToSet
  <2>3. QED
    BY <2>1, <2>2 DEF RepeatsKept, RepeatsExplained
<1>2. CASE CountResults
  <2>1. UNCHANGED <<catalogue, inventory, received, disturbed>> /\ Crawling
    BY <1>2 DEF CountResults, tableVars, Crawling
  <2>2. /\ crawl'.at # "idle"
        /\ Crawling' => crawl'.query = crawl.query /\ crawl'.page = crawl.page
    BY <1>2 DEF CountResults, Crawling
  <2>3. Crawling' => /\ Found(crawl.query)' = Found(crawl.query)
                     /\ \A p : Before(crawl.query, p)' = Before(crawl.query, p)
                     /\ \A p, r : Decided(crawl.query, p, r)' = Decided(crawl.query, p, r)
    BY <2>1, <2>2, SameLists
  <2>4. Listed' = Listed
    BY <2>1 DEF Listed
  <2>5. QED
    BY <2>1, <2>2, <2>3, <2>4 DEF RepeatsKept, RepeatsExplained
<1>3. CASE UNCHANGED <<tableVars, crawlVars, disturbed>>
  <2>1. UNCHANGED <<catalogue, inventory, crawl, received, disturbed>>
    BY <1>3 DEF tableVars, crawlVars
  <2>2. /\ Found(crawl.query)' = Found(crawl.query)
        /\ \A p : Before(crawl.query, p)' = Before(crawl.query, p)
        /\ \A p, r : Decided(crawl.query, p, r)' = Decided(crawl.query, p, r)
    BY <2>1, SameLists
  <2>3. Listed' = Listed
    BY <2>1 DEF Listed
  <2>4. QED
    BY <2>1, <2>2, <2>3 DEF RepeatsKept, RepeatsExplained, Crawling
<1>4. CASE Change
  <2>1. received' = received /\ disturbed \subseteq disturbed'
    BY <1>4 DEF Change, crawlVars
  <2>2. RepeatsExplained'
    BY <2>1 DEF RepeatsExplained
  <2>3. QED
    BY <1>4, <2>2, RepeatsChange
<1>5. QED
  BY <1>1, <1>2, <1>3, <1>4, RepeatsSelect
     DEF Next, FindPrefixes, FillUp, ChangeProducts, ChangeInventory, CreateProduct, DeleteProduct,
         EditProduct, SetStock, RemoveStock, vars

(* No product is listed twice, on one page or on two, for any page size,   *)
(* any sort and any number of concurrent changes, unless one entered or    *)
(* changed places or the sort key left the order open.                     *)
THEOREM RepeatsAreExplained == Spec => []RepeatsExplained
<1>1. Init => RepeatsKept /\ RepeatsExplained
  BY DEF Init, NoRequest, RepeatsKept, RepeatsExplained, Crawling, IsInjective
<1>2. TypeOK /\ Lists' /\ (RepeatsKept /\ RepeatsExplained) /\ [Next]_vars
        => (RepeatsKept /\ RepeatsExplained)'
  BY RepeatsStep
<1>3. QED
  BY <1>1, <1>2, TypesCorrect, ListsInvariant, PTL DEF Spec
=============================================================================

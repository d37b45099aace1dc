----------------------------- MODULE ProductSearch -----------------------------
(***************************************************************************)
(* GET /api/search/products/, read page after page by a client that        *)
(* follows the "next" links, and GET /api/search/suggest/, while the       *)
(* catalogue and the inventory change.                                     *)
(*                                                                         *)
(* No snapshot is kept between two pages, and a page is two statements of  *)
(* its own: the paginator counts the results and then selects a slice of   *)
(* them.  Autocomplete is two statements as well.                          *)
(***************************************************************************)
EXTENDS Integers, FiniteSets, Sequences, FiniteSetsExt, SequencesExt

CONSTANTS
    ProductIds,         \* primary keys products have or may be given
    CreatedAt,          \* the created_at of each
    Stores,
    NoStore,            \* no store_id in a query, no store joined to a row
    Prices,
    PageSize,           \* page_size
    MaxResults,         \* AUTOCOMPLETE_MAX_RESULTS
    Queries,            \* the queries a client may send
    InitCatalogue,      \* the products there are initially
    InitInventory,      \* their inventory: quantities by store and product
    MaxChanges          \* bound: changes of the tables in a behaviour

(* Where the search term is first found in a product: 1 at the start of    *)
(* the title, 2 in the title, 3 in the description, 4 in the name of the   *)
(* category, 5 nowhere.  This is relevance_rank.                           *)
Rank == 1 .. 5
Product == [rank : Rank, price : Prices]

(* q given or not; prices; store_id; in_stock; sort.                       *)
Query == [text : BOOLEAN, prices : SUBSET Prices, store : Stores \cup {NoStore},
          inStock : BOOLEAN, sort : {"price_asc", "price_desc", "newest", "relevance"}]

Tables(C, V) == C \in [DOMAIN C -> Product] /\ V \in [DOMAIN V -> Nat]
Related(C, V) == DOMAIN C \subseteq ProductIds /\ DOMAIN V \subseteq Stores \X DOMAIN C

ASSUME SearchAssumption ==
    /\ ProductIds \subseteq Nat /\ IsFiniteSet(ProductIds)
    /\ CreatedAt \in [ProductIds -> Nat]
    /\ \A p, r \in ProductIds : p <= r => CreatedAt[p] <= CreatedAt[r]
    /\ NoStore \notin Stores
    /\ Prices \subseteq Nat
    /\ PageSize \in Nat \ {0}
    /\ MaxResults \in Nat
    /\ Queries \subseteq Query
    /\ Tables(InitCatalogue, InitInventory) /\ Related(InitCatalogue, InitInventory)
    /\ MaxChanges \in Nat

VARIABLES
    catalogue,      \* the product table
    inventory,      \* quantity of each inventory row
    issued,         \* product ids handed out
    changes,        \* counts the changes up to MaxChanges
    crawl,          \* the client that reads page after page
    received,       \* the products on the pages it has got, in order
    suggest,        \* the request for suggestions
    expected,       \* history: the results when the crawl began
    disturbed,      \* history: what happened to them under the crawl
    matching        \* history: titles that matched all through the request

tableVars == <<catalogue, inventory, issued, changes>>
crawlVars == <<crawl, received, expected>>
suggestVars == <<suggest, matching>>
vars == <<tableVars, crawlVars, suggestVars, disturbed>>

Products == DOMAIN catalogue
NoRequest == [at |-> "idle"]
Disturbances == {"entered", "entered late", "left", "moved", "tie"}

CrawlState ==
    [at : {"idle"}] \cup [at : {"asking"}, query : Queries, page : Nat \ {0}]
        \cup [at : {"counted"}, query : Queries, page : Nat \ {0}, count : Nat]
        \cup [at : {"ended"}, query : Queries]

SuggestState ==
    [at : {"idle"}] \cup [at : {"prefixes"}, prefix : SUBSET ProductIds]
        \cup [at : {"answered"}, prefix : SUBSET ProductIds, contains : SUBSET ProductIds]

TypeOK ==
    /\ Tables(catalogue, inventory) /\ Related(catalogue, inventory)
    /\ Products \subseteq issued /\ issued \subseteq ProductIds
    /\ changes \in 0 .. MaxChanges
    /\ crawl \in CrawlState
    /\ received \in Seq(ProductIds)
    /\ suggest \in SuggestState
    /\ expected \subseteq ProductIds
    /\ disturbed \subseteq Disturbances
    /\ matching \subseteq ProductIds

Init ==
    /\ catalogue = InitCatalogue
    /\ inventory = InitInventory
    /\ issued = DOMAIN InitCatalogue
    /\ changes = 0
    /\ crawl = NoRequest /\ received = <<>>
    /\ suggest = NoRequest
    /\ expected = {} /\ disturbed = {} /\ matching = {}

-----------------------------------------------------------------------------
(* The query.                                                              *)

(* Store s has product p, in stock if the query asks for that.             *)
Stocks(q, s, p) ==
    <<s, p>> \in DOMAIN inventory /\ (q.inStock => inventory[<<s, p>>] > 0)

(* The rows of the filtered join: a product and the store of the inventory *)
(* row joined to it, if the query joins inventory at all.                  *)
Joined(q) ==
    {row \in Products \X (Stores \cup {NoStore}) :
        LET p == row[1]
            s == row[2]
        IN  /\ q.text => catalogue[p].rank < 5
            /\ catalogue[p].price \in q.prices
            /\ IF q.store = NoStore /\ ~q.inStock
                 THEN s = NoStore
                 ELSE /\ s \in Stores
                      /\ q.store \in {s, NoStore}
                      /\ Stocks(q, s, p)}

(* Mutant of Distinct: the query without it.                               *)
EveryRow(rows) == rows

(* SELECT DISTINCT: the inventory rows are not among the columns.          *)
Distinct(rows) == {<<row[1], NoStore>> : row \in rows}

Results(q) == Distinct(Joined(q))
Found(q) == {row[1] : row \in Results(q)}

Newer(p, r) == CreatedAt[p] > CreatedAt[r]

(* cls_sort: p has to come before r.                                       *)
Precedes(q, p, r) ==
    LET ranked == q.sort = "relevance" /\ q.text IN
    \/ q.sort = "price_asc" /\ catalogue[p].price < catalogue[r].price
    \/ q.sort = "price_desc" /\ catalogue[p].price > catalogue[r].price
    \/ ranked /\ catalogue[p].rank < catalogue[r].rank
    \/ ranked /\ catalogue[p].rank = catalogue[r].rank /\ Newer(p, r)
    \/ q.sort \in {"newest", "relevance"} /\ ~ranked /\ Newer(p, r)

(* The orders the database may return the results in.                      *)
Orders(q) ==
    {rows \in SetToSeqs(Results(q)) :
        \A i, j \in DOMAIN rows : i < j => ~Precedes(q, rows[j][1], rows[i][1])}

Tied(q) ==
    \E p, r \in Found(q) : p # r /\ ~Precedes(q, p, r) /\ ~Precedes(q, r, p)

-----------------------------------------------------------------------------
(* A client that reads all pages of a search.                              *)

(* Paginator.num_pages: an empty list has one page.                        *)
NumPages(count) == IF count = 0 THEN 1 ELSE (count + PageSize - 1) \div PageSize

StartCrawl(q) ==
    /\ crawl = NoRequest
    /\ crawl' = [at |-> "asking", query |-> q, page |-> 1]
    /\ expected' = Found(q)
    /\ UNCHANGED <<tableVars, received, suggestVars, disturbed>>

(* The paginator counts; a page that no longer exists is a 404.            *)
CountResults ==
    LET count == Cardinality(Results(crawl.query)) IN
    /\ crawl.at = "asking"
    /\ crawl' = IF crawl.page <= NumPages(count)
                  THEN [at |-> "counted", query |-> crawl.query, page |-> crawl.page,
                        count |-> count]
                  ELSE [at |-> "ended", query |-> crawl.query]
    /\ UNCHANGED <<tableVars, received, expected, suggestVars, disturbed>>

(* Paginator.page: the rows of a page, none beyond the count.              *)
Slice(rows, page, count) ==
    SubSeq(rows, (page - 1) * PageSize + 1, Min({page * PageSize, count, Len(rows)}))

Ids(rows) == [i \in DOMAIN rows |-> rows[i][1]]

(* Mutant of SelectPage: the number of pages is rounded down.              *)
SelectPageRoundedDown ==
    LET q == crawl.query IN
    /\ crawl.at = "counted"
    /\ \E rows \in Orders(q) :
        received' = received \o Ids(Slice(rows, crawl.page, crawl.count))
    /\ crawl' = IF crawl.page < crawl.count \div PageSize
                  THEN [at |-> "asking", query |-> q, page |-> crawl.page + 1]
                  ELSE [at |-> "ended", query |-> q]
    /\ disturbed' = disturbed \cup (IF Tied(q) THEN {"tie"} ELSE {})
    /\ UNCHANGED <<tableVars, expected, suggestVars>>

(* The slice is selected and the client goes on to the next page, if the   *)
(* count says that there is one.                                           *)
SelectPage ==
    LET q == crawl.query IN
    /\ crawl.at = "counted"
    /\ \E rows \in Orders(q) :
        received' = received \o Ids(Slice(rows, crawl.page, crawl.count))
    /\ crawl' = IF crawl.page < NumPages(crawl.count)
                  THEN [at |-> "asking", query |-> q, page |-> crawl.page + 1]
                  ELSE [at |-> "ended", query |-> q]
    /\ disturbed' = disturbed \cup (IF Tied(q) THEN {"tie"} ELSE {})
    /\ UNCHANGED <<tableVars, expected, suggestVars>>

-----------------------------------------------------------------------------
(* Autocomplete.                                                           *)

StartsWith == {p \in Products : catalogue[p].rank = 1}
TitleContains == {p \in Products : catalogue[p].rank \in {1, 2}}

(* The first n of S in the order of the titles, which are left open.       *)
Limit(S, n) == {T \in SUBSET S : Cardinality(T) = Min({n, Cardinality(S)})}

FindPrefixes ==
    /\ suggest = NoRequest
    /\ \E S \in Limit(StartsWith, MaxResults) :
            suggest' = [at |-> "prefixes", prefix |-> S]
    /\ matching' = TitleContains
    /\ UNCHANGED <<tableVars, crawlVars, disturbed>>

(* Mutant of FillUp: it excludes titles that start with the query, not the *)
(* products that were found.                                               *)
FillUpByTitle ==
    /\ suggest.at = "prefixes"
    /\ \E T \in Limit(TitleContains \ StartsWith, MaxResults - Cardinality(suggest.prefix)) :
            suggest' = [at |-> "answered", prefix |-> suggest.prefix, contains |-> T]
    /\ UNCHANGED <<tableVars, crawlVars, matching, disturbed>>

(* The remaining slots; with none left the second query is not made.       *)
FillUp ==
    /\ suggest.at = "prefixes"
    /\ \E T \in Limit(TitleContains \ suggest.prefix, MaxResults - Cardinality(suggest.prefix)) :
            suggest' = [at |-> "answered", prefix |-> suggest.prefix, contains |-> T]
    /\ UNCHANGED <<tableVars, crawlVars, matching, disturbed>>

-----------------------------------------------------------------------------
(* Everybody who changes the tables.                                       *)

Crawling == crawl.at \in {"asking", "counted"}

(* What the step to catalogue' and inventory' does to the results the      *)
(* crawl is reading.                                                       *)
Disturbance ==
    LET q == crawl.query
        before == Found(q)
        after == Found(q)'
        entered == IF after \subseteq before THEN {} ELSE {"entered"}
        late == IF entered # {} /\ crawl.at = "counted" THEN {"entered late"} ELSE {}
        left == IF before \subseteq after THEN {} ELSE {"left"}
        moved == IF \E p, r \in before \cap after : Precedes(q, p, r) /\ ~Precedes(q, p, r)'
                   THEN {"moved"} ELSE {}
    IN  entered \cup late \cup left \cup moved

(* Counts a change of the tables and records what it means for the crawl   *)
(* and for the request for suggestions.                                    *)
Change ==
    /\ changes < MaxChanges
    /\ changes' = changes + 1
    /\ UNCHANGED <<crawlVars, suggest>>
    /\ disturbed' = disturbed \cup (IF Crawling THEN Disturbance ELSE {})
    /\ matching' = matching \cap TitleContains'

(* POST /api/products/; ids grow.                                          *)
CreateProduct(p, product) ==
    /\ \A r \in issued : r < p
    /\ catalogue' = [r \in Products \cup {p} |-> IF r = p THEN product ELSE catalogue[r]]
    /\ issued' = issued \cup {p}
    /\ UNCHANGED inventory
    /\ Change

(* Mutant of DeleteProduct: the inventory rows stay.                       *)
DeleteOnlyProduct(p) ==
    /\ p \in Products
    /\ catalogue' = [r \in Products \ {p} |-> catalogue[r]]
    /\ UNCHANGED <<inventory, issued>>
    /\ Change

(* In the admin; inventory rows go with their product.                     *)
DeleteProduct(p) ==
    /\ p \in Products
    /\ catalogue' = [r \in Products \ {p} |-> catalogue[r]]
    /\ inventory' = [row \in {i \in DOMAIN inventory : i[2] # p} |-> inventory[row]]
    /\ UNCHANGED issued
    /\ Change

EditProduct(p, product) ==
    /\ p \in Products
    /\ catalogue' = [catalogue EXCEPT ![p] = product]
    /\ UNCHANGED <<inventory, issued>>
    /\ Change

(* An inventory row is added, saved or deducted from.                      *)
SetStock(s, p, quantity) ==
    /\ p \in Products
    /\ inventory' = [row \in DOMAIN inventory \cup {<<s, p>>} |->
                        IF row = <<s, p>> THEN quantity ELSE inventory[row]]
    /\ UNCHANGED <<catalogue, issued>>
    /\ Change

RemoveStock(s, p) ==
    /\ <<s, p>> \in DOMAIN inventory
    /\ inventory' = [row \in DOMAIN inventory \ {<<s, p>>} |-> inventory[row]]
    /\ UNCHANGED <<catalogue, issued>>
    /\ Change

-----------------------------------------------------------------------------

(* In stock or out of stock: no query tells other quantities apart.        *)
Quantities == {0, 1}

ChangeProducts ==
    \E p \in ProductIds :
        \/ DeleteProduct(p)
        \/ \E product \in Product : CreateProduct(p, product) \/ EditProduct(p, product)

ChangeInventory ==
    \E s \in Stores, p \in ProductIds :
        RemoveStock(s, p) \/ \E quantity \in Quantities : SetStock(s, p, quantity)

Next ==
    \/ (\E q \in Queries : StartCrawl(q)) \/ CountResults \/ SelectPage
    \/ FindPrefixes \/ FillUp
    \/ ChangeProducts \/ ChangeInventory

Spec == Init /\ [][Next]_vars

-----------------------------------------------------------------------------
(* Properties.                                                             *)

Listed == ToSet(received)

(* A client that has followed every "next" link has seen every result,     *)
(* unless one left the list or changed places, one entered between the     *)
(* count and the slice of a page, or the sort key left the order open.     *)
MissesExplained ==
    crawl.at = "ended" /\ disturbed \subseteq {"entered"} => expected \subseteq Listed

(* No product is listed twice, on one page or on two, unless one entered   *)
(* or changed places or the sort key left the order open.                  *)
RepeatsExplained ==
    disturbed \subseteq {"left"} => IsInjective(received)

(* However titles change between its two queries, autocomplete suggests    *)
(* every product whose title matched all the while, if there is room.      *)
SuggestionsComplete ==
    suggest.at = "answered" /\ Cardinality(suggest.prefix \cup suggest.contains) < MaxResults =>
        matching \subseteq suggest.prefix \cup suggest.contains
=============================================================================

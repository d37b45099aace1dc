\* One crawl and one request for suggestions while the tables change twice.
SPECIFICATION Spec
CONSTANTS
    main = main
    annex = annex
    NoStore = NoStore
    ProductIds <- FourIds
    CreatedAt <- Clock
    Stores = {main, annex}
    Prices = {1, 2}
    PageSize = 2
    MaxResults = 3
    Queries <- FourQueries
    InitCatalogue <- ThreeProducts
    InitInventory <- TwoShelves
    MaxChanges = 2
INVARIANTS TypeOK MissesExplained RepeatsExplained SuggestionsComplete
\* Both requests end and the changes are used up.
CHECK_DEADLOCK FALSE

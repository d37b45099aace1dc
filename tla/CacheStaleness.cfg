\* Two stores, every kind of write, and Redis calls that fail.
SPECIFICATION FairSpec
CONSTANTS
    main = main
    annex = annex
    flour = flour
    sugar = sugar
    Stores = {main, annex}
    Rows <- OneRow
    RowProduct <- OneRowProduct
    Products = {flour}
    Labels = {"old", "new"}
    Quantities = {0, 1}
    Readers = {g1}
    Admins = {a1}
    TTL = 2
    Writes <- EveryWrite
    Faults <- EveryFault
    Missing = Missing
    Unborn = Unborn
    Gone = Gone
INVARIANTS TypeOK StalenessExplained
PROPERTY EventuallyFresh

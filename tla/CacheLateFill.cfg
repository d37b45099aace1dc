\* Only saves and deletes, which do send signals, and one reader.
SPECIFICATION Spec
CONSTANTS
    main = main
    annex = annex
    flour = flour
    sugar = sugar
    Stores = {main}
    Rows <- OneRow
    RowProduct <- OneRowProduct
    Products = {flour}
    Labels = {"old"}
    Quantities = {0, 1}
    Readers = {g1}
    Admins = {a1}
    TTL = 2
    Writes <- OnlySaves
    Faults <- NoFault
    Missing = Missing
    Unborn = Unborn
    Gone = Gone
INVARIANT NeverStale

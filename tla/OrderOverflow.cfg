\* An order for more than the quantity column of order_items can hold.
SPECIFICATION Spec
CONSTANTS
    main = main
    annex = annex
    nowhere = nowhere
    flour = flour
    sugar = sugar
    Requests = {r1, r2}
    Stores <- OneStore
    MissingStore = nowhere
    Products <- BothProducts
    Rows <- TwoRows
    RowStore <- OneStoreRowStore
    RowProduct <- TwoRowProduct
    InitRows <- TwoRows
    InitQuantity <- TwoRowQuantity
    Restocks <- NoRestocks
    Payloads <- HugePayloads
    MaxInt = 4
    NoOrder = NoOrder
    Free = Free
    NoProduct = NoProduct
    Deletable <- NoProducts
    Faults <- NoFaults
SYMMETRY RequestSymmetry
INVARIANT RejectionsRecorded
\* When every request has ended and nothing is left to edit, the system is idle.
CHECK_DEADLOCK FALSE

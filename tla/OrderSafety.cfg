\* Two concurrent requests against one store with two rows, an administrator
\* who restocks and deletes them, and every fault.
SPECIFICATION Spec
CONSTANTS
    main = main
    annex = annex
    nowhere = nowhere
    flour = flour
    sugar = sugar
    Requests = {r1, r2}
    Stores <- OneStore
    MissingStore = nowhere
    Products <- BothProducts
    Rows <- TwoRows
    RowStore <- OneStoreRowStore
    RowProduct <- TwoRowProduct
    InitRows <- TwoRows
    InitQuantity <- TwoRowQuantity
    Restocks <- SomeRestocks
    Payloads <- MixedPayloads
    MaxInt = 4
    NoOrder = NoOrder
    Free = Free
    NoProduct = NoProduct
    Deletable <- AnyProduct
    Faults <- AllFaults
SYMMETRY RequestSymmetry
INVARIANTS TypeOK StockConserved AnswersTruthful TasksTruthful ConfirmationsHold RejectionsHold NoDeadlock
PROPERTIES ImplementsBook ImplementsHandover
\* When every request has ended and nothing is left to edit, the system is idle.
CHECK_DEADLOCK FALSE

\* Two stores whose inventory ids order the same two products differently.
SPECIFICATION Spec
CONSTANTS
    main = main
    annex = annex
    nowhere = nowhere
    flour = flour
    sugar = sugar
    Requests = {r1, r2}
    Stores <- TwoStores
    MissingStore = nowhere
    Products <- BothProducts
    Rows <- FourRows
    RowStore <- TwoStoresRowStore
    RowProduct <- FourRowProduct
    InitRows <- FourRows
    InitQuantity <- FourRowQuantity
    Restocks <- NoRestocks
    Payloads <- OneBasketEach
    MaxInt = 3
    NoOrder = NoOrder
    Free = Free
    NoProduct = NoProduct
    Deletable <- NoProducts
    Faults <- NoFaults
SYMMETRY RequestSymmetry
INVARIANT NoDeadlock
\* When every request has ended and nothing is left to edit, the system is idle.
CHECK_DEADLOCK FALSE

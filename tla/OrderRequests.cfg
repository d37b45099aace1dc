\* Bodies of every kind while inventory rows are added and replaced and
\* products are deleted.
SPECIFICATION FairApiSpec
CONSTANTS
    main = main
    annex = annex
    nowhere = nowhere
    flour = flour
    sugar = sugar
    Requests = {r1, r2}
    Stores <- OneStore
    MissingStore = nowhere
    Products <- BothProducts
    Rows <- ThreeRows
    RowStore <- OneStoreThreeRows
    RowProduct <- AddedRowProduct
    InitRows <- FirstRow
    InitQuantity <- AddedRowQuantity
    Restocks <- OneRestock
    Payloads <- SentPayloads
    MaxInt = 4
    NoOrder = NoOrder
    Free = Free
    NoProduct = NoProduct
    Deletable <- AnyProduct
    Bodies <- EveryBody
    Unparsable = Unparsable
    NoObject = NoObject
    Absent = Absent
    Malformed = Malformed
    NoReply = NoReply
    Faults <- AllFaults
INVARIANTS ApiTypeOK StockConserved ConfirmationsHold ReferencesIntact OrdersAsSent RepliesTruthful ErrorsJustified
PROPERTY EveryRequestAnswered
\* When every request has ended and nothing is left to edit, the system is idle.
CHECK_DEADLOCK FALSE

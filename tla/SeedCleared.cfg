\* Runs with --clear and a customer.
SPECIFICATION Spec
CONSTANTS
    CategoryNames = {"Books"}
    Names = {"Books", "Toys"}
    NumProducts = 2
    NumStores = 1
    MinInventory = 1
    MaxInventory = 2
    Clear <- AlwaysClear
    Traffic <- OnlyOrders
    MaxRuns = 2
    MaxEdits = 3
    MaxProductId = 4
    MaxStoreId = 2
INVARIANT IdempotentWithClear
\* The command may have run for the last time and the ids may be used up.
CHECK_DEADLOCK FALSE

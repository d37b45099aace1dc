\* Two runs, with or without --clear, on an open shop that changes three times.
SPECIFICATION Spec
CONSTANTS
    CategoryNames = {"Books"}
    Names = {"Books", "Toys"}
    NumProducts = 2
    NumStores = 1
    MinInventory = 2
    MaxInventory = 2
    Clear <- WithAndWithout
    Traffic <- OpenShop
    MaxRuns = 2
    MaxEdits = 3
    MaxProductId = 4
    MaxStoreId = 3
INVARIANTS TypeOK DoneIsComplete ToppedUp
\* The command may have run for the last time and the ids may be used up.
CHECK_DEADLOCK FALSE

\* One order with the retries the code allows and every fault.
SPECIFICATION FairSpec
CONSTANTS
    Orders = {o1}
    Children = {c1, c2}
    MaxRetries = 3
    MaxCrashes = 1
    MaxDuplicates = 1
    Faults <- EveryFault
INVARIANTS TypeOK Accounted SentOnce AttemptsBounded
PROPERTIES EverySettled ImplementsHandover
\* The system is idle once every order is settled.
CHECK_DEADLOCK FALSE

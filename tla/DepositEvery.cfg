SPECIFICATION FairSpec
CONSTANTS
    d1 = d1
    Deposits = {d1}
    Amount <- MCAmount
    InitialBase = 0
    InitialCompany = 1
    InitialInternal = 0
    Runs = {r1, r2}
    Worker = worker
    Scheduler = scheduler
    MaxAttempts = 3
    Budget <- EveryBudget
INVARIANTS
    TypeOK
    CreditedExactly
    SweepsInOrder
PROPERTIES
    BothSettle
    ImplementsCredits
CHECK_DEADLOCK FALSE

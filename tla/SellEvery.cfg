SPECIFICATION Spec
CONSTANTS
    s1 = s1
    r1 = r1
    r2 = r2
    Sells = {s1}
    Exact <- MCExact
    Fee <- MCFee
    Payout <- MCPayout
    Proceeds <- MCProceeds
    InitialBase = 7
    OtherHeld = 3
    InitialCompany = 4
    OtherReserved = 2
    Cryptos <- Excessive
    Runs = {r1, r2}
    Hourly = hourly
    Admins = {}
    Cap = 2
    MaxAttempts = 2
    MaxFaults = 2
    Budget <- EveryBudget
SYMMETRY RunSymmetry
INVARIANTS
    Safe
    ProceedsOnce
    PayoutsEarned
    SaleBacked
CHECK_DEADLOCK FALSE

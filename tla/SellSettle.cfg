SPECIFICATION FairSpec
CONSTANTS
    s1 = s1
    r1 = r1
    r2 = r2
    Sells = {s1}
    Exact <- MCExact
    Fee <- MCFee
    Payout <- MCPayout
    Proceeds <- MCProceeds
    InitialBase = 7
    OtherHeld = 3
    InitialCompany = 4
    OtherReserved = 2
    Cryptos <- Uneven
    Runs = {r1, r2}
    Hourly = hourly
    Admins = {}
    Cap = 2
    MaxAttempts = 2
    MaxFaults = 1
    Budget <- EveryBudget
PROPERTY SaleSettles
CHECK_DEADLOCK FALSE

SPECIFICATION MCSpec
CONSTANTS
    v1 = v1
    v2 = v2
    Kinds <- MCKinds
    Budget <- OneOfEach
    MaxFaults = 2
    Stable = {v1}
    Swapped = {v2}
    Principal <- MCPrincipal
    Tiers <- MCTiers
    DefaultBuffer = 5
    MaxBuffer = 20
    Quoted <- MCQuoted
    Days = 365
    RateTenths = 105
    FeeRate = 20000
    InitialUsdt = 150
    InitialBtc = 14
    CompanyFunds = {220, 250}
    OthersReserved = 30
    l1 = l1
    l2 = l2
    Loans = {l1, l2}
    Ask <- MCAsk
    Rate = 3
    CollateralBase = 45
    CryptoInternal = {30, 60}
    Elsewhere = 20
    LoanAttempts = 3
    Nets = {"main", "memo"}
    Tagged = {"memo"}
    JobTries = 2
    b1 = b1
    r1 = r1
    r2 = r2
    Buys = {b1}
    Cost <- MCCost
    Volume <- MCVolume
    Naira = {2, 4}
    OtherReserved = 2
    Runs = {r1, r2}
    Hourly = hourly
    Admins = {}
    Cap = 2
    MaxAttempts = 2
    Confirms = 2
    BillTotal = 3
    BillCost = 20
    BillSold = 25
    PurseBase = 10
    PurseHeld = 3
    NairaTotal = 60
    NairaHeld = 15
    CoinOwed = 12
    BillTries = 1
    BillJobs = 2
    d1 = d1
    Deals = {d1}
    Size <- MCSize
    PaidBy <- MCPaidBy
    Funds <- MCFunds
    SettleTries = 1
    Syncs = {1, 2}
INVARIANTS
    ServicesSafe
    VaultExact
    LoanBooks
    AddressesExact
    PurchaseExact
    BillBooks
    LiquidityExact
PROPERTY
    ServicesSettle
CHECK_DEADLOCK FALSE

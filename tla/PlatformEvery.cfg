SPECIFICATION MCSpec
CONSTANTS
    Kinds <- MCKinds
    Budget <- OneOfEach
    MaxFaults = 2
    j1 = j1
    j2 = j2
    q1 = q1
    q2 = q2
    Sources = {"USDT", "BTC", "CARD"}
    Installment = 20
    InstallmentFee = 1
    SourceCost = 10
    PerMille = 100
    StackUsdt = 63
    StackBtc = 33
    CompanyBtc = 45
    BtcReserved = 15
    CardCost = 30
    CardFee = 2
    CompanyNaira = 100
    NairaReserved = 25
    Jobs = {j1, j2}
    Requests = {q1, q2}
    MaxDates = 2
    a1 = a1
    a2 = a2
    r1 = r1
    r2 = r2
    Families = {"repayment", "fees", "tiers", "rates"}
    Admins = {a1, a2}
    Rows = {r1, r2}
    Asked <- MCAsked
    Groups = {"NGN", "USD"}
    MaxOps = 2
    Slots = {1, 2}
    MaxRequests = 4
    LoginLimit = 2
    ChangeLimit = 2
    ResendLimit = 2
    References = {"charge1", "charge2"}
    Plastics = {"visa", "verve"}
    Callbacks = {1, 2}
    BankNumbers = {"own", "other"}
    OwnNumbers = {"own"}
    BankTokens = {"token1", "token2"}
    BankSlots = {1, 2}
    People = {"ada", "ayo"}
    Nins = {"nin1", "nin2"}
    BearersOf <- MCBearers
    KycSlots = {1, 2}
    o1 = o1
    t1 = t1
    t2 = t2
    Officers = {o1}
    Titles = {t1, t2}
    Desks = {1, 2}
    MaxActs = 3
    PayeeOf <- MCPayees
    AskCap = 2
    CoinAmounts = {1, 3}
    Prices = {9500, 10030, 10400}
    AtOnce = 2
    QuotedPrice = 10030
    QuotedUnits = 100
    CoinUnits = {100, 1000}
    LeastValue = 2000
    BufferTiers <- MCTiers
    BufferDefault = 3
    BufferCap = 2
    c1 = c1
    c2 = c2
    c3 = c3
    Currencies = {c1, c2, c3}
    Ttl = 3
    Readers = {1, 2}
    Processes = {1, 2}
    RunSlots = {1, 2}
    Period = 3
    LockTtl = 2
    MaxDelay = 1
    Pages = 2
    Horizon = 13
    Users = {1, 2, 3}
    Batch = 2
    Sweepers = {1, 2}
    Changes = 1
INVARIANTS
    PlatformSafe
    StackExact
    SettingsExact
    AccountsExact
    StaffCaches
    QuotesHonest
    JobsExact
CONSTRAINT FewFaults
CHECK_DEADLOCK FALSE

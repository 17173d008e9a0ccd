SPECIFICATION FairSpec
CONSTANTS
    w1 = w1
    w2 = w2
    Withdrawals = {w1, w2}
    Total <- MCTotal
    Fee <- MCFee
    OnDefaultNet = {w1}
    Cancellers = {}
    Hourly = hourly
    Admins = {}
    InitialBase = 5
    InitialInternal = 5
    MaxAttempts = 2
    TopUpAmount = 2
    Beginnings <- SettleOrRetry
INVARIANT BooksExact
PROPERTIES
    ImplementsHolds
    PaidSettles
CHECK_DEADLOCK FALSE

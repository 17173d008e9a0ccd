SPECIFICATION Spec
CONSTANTS
    w1 = w1
    w2 = w2
    Withdrawals = {w1, w2}
    Total <- MCTotal
    Fee <- MCFee
    OnDefaultNet = {w1}
    Cancellers = {u1}
    Hourly = hourly
    Admins = {a1}
    InitialBase = 5
    InitialInternal = 5
    MaxAttempts = 2
    TopUpAmount = 2
    Beginnings <- EveryFault
INVARIANTS
    Safe
    NeverShort
PROPERTIES
    ChargedOnce
CHECK_DEADLOCK FALSE

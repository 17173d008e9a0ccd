SPECIFICATION Spec
CONSTANTS
    s1 = s1
    s2 = s2
    Swaps = {s1, s2}
    Exact <- MCExact
    Fee <- MCFee
    Received <- MCReceived
    InitialBase = 5
    Liquidity = {2, 3}
    Runs = {r1, r2}
    Processors = {hourly}
    MaxAttempts = 2
    Budget <- NoFaults
INVARIANT CompletedIsBooked
CHECK_DEADLOCK FALSE

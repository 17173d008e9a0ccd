SPECIFICATION PipelineFairSpec
CONSTANTS
    Events = {send, invalid, sweep, bare}
    Deliveries = {d1, d2}
    Invalid = {invalid}
    Sweeps = {sweep}
    Bare = {bare}
    MaxTries = 2
    FaultBudget <- EveryBudget
INVARIANTS
    PipelineSafe
    ProcessedWasHandled
    AckedIsQueued
PROPERTY QueuedIsSettled
CHECK_DEADLOCK FALSE

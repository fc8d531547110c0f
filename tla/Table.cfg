CONSTANTS
    k1 = k1
    k2 = k2
    k3 = k3
    k4 = k4
    v0 = v0
    v1 = v1
    Procs = {p1}
    NoProc = NoProc
    Keys = {k1, k2, k3, k4}
    NoKey = NoKey
    Values = {v0}
    EmptyValue = v0
    Hash <- MCHash
    Capacity = 3
    TTLs = {0, 1}
    Calls <- TableCalls
    CounterMod = 1
    MaxTime = 2
    ClockCanStepBack = TRUE
    LockCanFail = FALSE
    MaxCrashes = 0
    CallBudget = 1
    CallCost = 0
SPECIFICATION Spec
INVARIANTS EveryEntryFound CountExact PutAccepted
PROPERTIES LiveEntryKept

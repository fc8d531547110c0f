CONSTANTS
    k1 = k1
    k2 = k2
    k3 = k3
    k4 = k4
    v0 = v0
    v1 = v1
    Procs = {p1, p2}
    NoProc = NoProc
    Keys = {k1, k2}
    NoKey = NoKey
    Values = {v0, v1}
    EmptyValue = v0
    Hash <- MCHash
    Capacity = 1
    TTLs = {0, 1}
    Calls <- CrashCalls
    CounterMod = 5
    MaxTime = 1
    ClockCanStepBack = FALSE
    LockCanFail = FALSE
    MaxCrashes = 0
    CallBudget = 1
    CallCost = 0
SPECIFICATION FairSpec
INVARIANTS TelemetryExact
PROPERTIES SomeCallReturns

CONSTANTS
    k1 = k1
    k2 = k2
    k3 = k3
    k4 = k4
    v0 = v0
    v1 = v1
    Procs = {p1, p2, p3}
    NoProc = NoProc
    Keys = {k1, k2}
    NoKey = NoKey
    Values = {v0, v1}
    EmptyValue = v0
    Hash <- MCHash
    Capacity = 1
    TTLs = {0, 1}
    Calls <- CrashCalls
    CounterMod = 1
    MaxTime = 1
    ClockCanStepBack = FALSE
    LockCanFail = TRUE
    MaxCrashes = 1
    CallBudget = 1
    CallCost = 1
SPECIFICATION FairSpec
INVARIANTS LockMatchesCode
PROPERTIES DeadHolderFreezesTable EveryCallReturns
CHECK_DEADLOCK FALSE

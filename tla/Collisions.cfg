CONSTANTS
    k1 = k1
    k2 = k2
    k3 = k3
    k4 = k4
    v0 = v0
    v1 = v1
    Procs = {p1}
    NoProc = NoProc
    Keys = {k1, k2}
    NoKey = NoKey
    Values = {v0}
    EmptyValue = v0
    Hash <- MCHash
    Capacity = 2
    TTLs = {0, 1}
    Calls <- LookupCalls
    CounterMod = 5
    MaxTime = 2
    ClockCanStepBack = FALSE
    LockCanFail = FALSE
    MaxCrashes = 0
    CallBudget = 4
    CallCost = 1
SPECIFICATION Spec
INVARIANTS CollisionsCounted
CHECK_DEADLOCK FALSE

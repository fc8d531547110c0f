CONSTANTS
    k1 = k1
    k2 = k2
    k3 = k3
    v0 = v0
    v1 = v1
    Procs = {p1, p2}
    NoProc = NoProc
    Keys = {k1, k2, k3}
    NoKey = NoKey
    Values = {v0, v1}
    EmptyValue = v0
    Hash <- MCHash
    Capacity = 2
    TTLs = {0, 1}
    Calls <- MCCalls
    CounterMod = 1
    MaxTime = 1
    ClockCanStepBack = TRUE
    LockCanFail = TRUE
    MaxCrashes = 0
    CallBudget = 1
    CallCost = 0
    Absent = Absent
SYMMETRY ProcSymmetry
SPECIFICATION Spec
PROPERTIES ImplementsKVCache
CHECK_DEADLOCK FALSE

CONSTANTS
    k1 = k1
    k2 = k2
    k3 = k3
    k4 = k4
    v0 = v0
    v1 = v1
    Procs = {p1, p2}
    NoProc = NoProc
    Keys = {k1, k2, k3}
    NoKey = NoKey
    Values = {v0, v1}
    EmptyValue = v0
    Hash <- MCHash
    Capacity = 2
    TTLs = {0, 1}
    Calls <- RaceCalls
    CounterMod = 1
    MaxTime = 2
    ClockCanStepBack = FALSE
    LockCanFail = FALSE
    MaxCrashes = 0
    CallBudget = 1
    CallCost = 0
SYMMETRY ProcSymmetry
SPECIFICATION Spec
INVARIANTS TypeOK Exclusion HitIsCurrent SnapshotConsistent
PROPERTIES LiveEntryKept

CONSTANTS
    Managers = {m1, m2, m3}
    Memories = {o1, o2}
    Semaphores = {s1, s2}
    None = None
    MaxKills = 1
    MaxFaults = 1
SPECIFICATION Spec
INVARIANTS TypeOK MatchedPairs LockAccounted Served SizedFirst NothingLeftBehind
SYMMETRY Symmetry
CHECK_DEADLOCK FALSE

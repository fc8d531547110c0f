CONSTANTS
    Procs = {p1, p2}
    NoProc = NoProc
    Ghost = Ghost
    NoObject = NoObject
    MaxObjects = 2
    MaxUses = 1
    MaxCrashes = 1
    MaxOpens = 2
    CallsCanFail = TRUE
    CleanupWaits = FALSE
SPECIFICATION FairSpec
INVARIANTS AttachedIsComplete
PROPERTIES NeverReset OpenReturns
CHECK_DEADLOCK FALSE

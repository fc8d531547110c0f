CONSTANTS
    Procs = {p1, p2, p3}
    NoProc = NoProc
    Ghost = Ghost
    NoObject = NoObject
    MaxObjects = 3
    MaxUses = 1
    MaxCrashes = 1
    MaxOpens = 2
    CallsCanFail = TRUE
    CleanupWaits = TRUE
SYMMETRY ProcSymmetry
SPECIFICATION Spec
INVARIANTS TypeOK OneRegion
PROPERTIES ImplementsNamedRegion
CHECK_DEADLOCK FALSE

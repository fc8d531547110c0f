CONSTANTS
    Word = 16
    HeaderSize = 3
    EntrySize = 2
    Sizes <- MCSizes
    Capacities <- MCCapacities
    Offsets <- MCOffsets
SPECIFICATION Spec
INVARIANTS Intact
CHECK_DEADLOCK FALSE

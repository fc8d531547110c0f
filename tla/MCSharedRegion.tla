--------------------------- MODULE MCSharedRegion ---------------------------
(* Small instances of SharedRegion for TLC. *)
EXTENDS SharedRegion, TLC

ProcSymmetry == Permutations(Procs)
=============================================================================

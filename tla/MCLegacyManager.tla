--------------------------- MODULE MCLegacyManager ---------------------------
(* A small instance of LegacyManager for TLC. *)
EXTENDS LegacyManager, TLC

Symmetry == Permutations(Managers) \cup Permutations(Memories) \cup Permutations(Semaphores)
=============================================================================

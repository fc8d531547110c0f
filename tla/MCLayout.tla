------------------------------ MODULE MCLayout ------------------------------
(* A small instance of Layout for TLC: words of 16 bytes. *)
EXTENDS Layout

MCSizes      == 0 .. 16
MCCapacities == 0 .. 8
MCOffsets    == 0 .. 4
=============================================================================

----------------------------- MODULE MCPrograms -----------------------------
(* A small instance of Programs for TLC. *)
EXTENDS Programs

CONSTANTS k1, v1, v2

MCWriterKeys  == <<k1>>
MCDemoKeys    == <<k1, k1, k1>>
MCBridgeCalls == {Get(k1), Put(k1, v2, 1), Update(k1, v1), Delete(k1), Bad}
=============================================================================

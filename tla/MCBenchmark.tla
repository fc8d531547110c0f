----------------------------- MODULE MCBenchmark -----------------------------
(* A small instance of Benchmark for TLC. *)
EXTENDS Benchmark

MCClients == 0 .. MaxThreads - 1
=============================================================================

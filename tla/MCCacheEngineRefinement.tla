---------------------- MODULE MCCacheEngineRefinement ----------------------
(* A small instance of CacheEngineRefinement for TLC. *)
EXTENDS CacheEngineRefinement, TLC

CONSTANTS k1, k2, k3, v0, v1

\* k1 and k2 share a home slot, k3 has the next one.
MCHash == [k \in Keys |-> CASE k = k1 -> 6 [] k = k2 -> 12 [] OTHER -> 7]

CallsOf(ops, keys, values, ttls) == [op : ops, key : keys, value : values, ttl : ttls]

\* Every operation; one key with and without a TTL, three keys in two slots.
MCCalls ==
    CallsOf({"PUT"}, {k1}, {v1}, {0, 1})
    \cup CallsOf({"PUT"}, {k2, k3}, {v0}, {0})
    \cup CallsOf({"GET", "UPDATE"}, {k1}, {v0}, {0})
    \cup CallsOf({"GET"}, {NoKey}, {v0}, {0})
    \cup CallsOf({"DELETE", "FIND"}, {k2}, {v0}, {0})
    \cup CallsOf({"SNAPSHOT"}, {NoKey}, {v0}, {0})

ProcSymmetry == Permutations(Procs)
=============================================================================

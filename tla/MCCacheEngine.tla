--------------------------- MODULE MCCacheEngine ---------------------------
(***************************************************************************)
(* Small instances of CacheEngine for TLC: the hash, the calls clients     *)
(* make in each run, and the symmetry of the processes.                    *)
(***************************************************************************)
EXTENDS CacheEngine, TLC

CONSTANTS k1, k2, k3, k4, v0, v1

\* Hash values, to be reduced modulo Capacity.  With capacity 2, k1 and k2
\* share home slot 0 and k3 has slot 1; with capacity 3, k1, k2 and k4 share
\* slot 0 and k3 has slot 1.
MCHash == [k \in Keys |-> CASE k = k1 -> 6 [] k = k2 -> 12 [] k = k3 -> 7 [] OTHER -> 3]

CallsOf(ops, keys, values, ttls) == [op : ops, key : keys, value : values, ttl : ttls]

\* One client does everything to every key.
TableCalls ==
    CallsOf({"PUT"}, Keys, {v0}, TTLs)
    \cup CallsOf({"GET", "UPDATE", "DELETE", "FIND"}, Keys, {v0}, {0})

\* Every call that can meet another one in the table: colliding keys, two
\* values, one key more than there are slots, and a call refused for its key.
RaceCalls ==
    CallsOf({"PUT"}, {k1}, {v0, v1}, {1})
    \cup CallsOf({"PUT"}, {k2, k3}, {v0}, {0})
    \cup CallsOf({"GET"}, {k1, k2, NoKey}, {v0}, {0})
    \cup CallsOf({"UPDATE"}, {k1}, {v0}, {0})
    \cup CallsOf({"DELETE"}, {k2}, {v0}, {0})
    \cup CallsOf({"SNAPSHOT"}, {NoKey}, {v0}, {0})

\* A little of everything, for the runs in which processes die or the lock
\* fails.
CrashCalls ==
    CallsOf({"PUT"}, {k1}, {v1}, {1})
    \cup CallsOf({"PUT"}, {k2}, {v0}, {0})
    \cup CallsOf({"GET", "UPDATE"}, {k1}, {v0}, {0})
    \cup CallsOf({"SNAPSHOT"}, {NoKey}, {v0}, {0})

\* GETs that hit, miss and meet expired entries, and what makes them do so.
LookupCalls ==
    CallsOf({"PUT"}, {k1, k2}, {v0}, {1})
    \cup CallsOf({"GET"}, {k1, k2}, {v0}, {0})
    \cup CallsOf({"DELETE"}, {k1}, {v0}, {0})

ProcSymmetry == Permutations(Procs)
=============================================================================

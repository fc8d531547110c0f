----------------------------- MODULE CacheTable -----------------------------
(***************************************************************************)
(* The slot array of a MemSync region: fixed-capacity open addressing with *)
(* linear probing, tombstones, lazy expiry and oldest-first eviction.      *)
(*                                                                         *)
(* Every operator is a pure function of a table `es', the array of         *)
(* CacheEntry that starts at header->data_offset.  The loops of            *)
(* cache_engine.cpp are given by what they compute: the probe at which a   *)
(* loop stops, and the slot and the cost that follow from it.              *)
(*                                                                         *)
(* A definition named <Definition>_<Mistake> is no part of the model: it   *)
(* is that definition with a plausible mistake, kept to show that a        *)
(* property notices it.                                                    *)
(***************************************************************************)
EXTENDS Integers, FiniteSets

CONSTANTS
    Keys,           \* keys that pass valid_key_argument
    NoKey,          \* the empty string: the key of a slot that holds none
    Values,         \* values that pass valid_value_argument
    EmptyValue,     \* the empty string as a value (it is a legal one)
    Hash,           \* DJB2 of a key before the reduction modulo capacity
    Capacity,       \* header->capacity
    TTLs            \* ttl_seconds of the calls; 0 means "never expires"

ASSUME CapacityAssumption == Capacity \in Nat \ {0}   \* valid_capacity
ASSUME KeysAssumption     == NoKey \notin Keys        \* valid_key_argument
ASSUME ValuesAssumption   == EmptyValue \in Values    \* valid_value_argument
ASSUME HashAssumption     == Hash \in [Keys -> Nat]
ASSUME TTLsAssumption     == TTLs \subseteq Nat /\ 0 \in TTLs

Slots  == 0 .. Capacity - 1
Probes == 0 .. Capacity - 1
NoSlot == -1

EntryType == [state     : {"EMPTY", "OCCUPIED", "DELETED"},
              key       : Keys \cup {NoKey},
              value     : Values,
              timestamp : Nat,
              ttl       : TTLs]

Blank(state) == [state |-> state, key |-> NoKey, value |-> EmptyValue,
                 timestamp |-> 0, ttl |-> 0]
EmptyTable   == [s \in Slots |-> Blank("EMPTY")]     \* memset(shm_base, 0, size)

Occupied(es)  == {s \in Slots : es[s].state = "OCCUPIED"}
Holds(e, k)   == e.state = "OCCUPIED" /\ e.key = k

\* The subtraction of unsigned numbers without the comparison before it.
Expired_Underflows(e, t) == e.ttl > 0 /\ (t < e.timestamp \/ t - e.timestamp >= e.ttl)

\* cache_entry_expired.
Expired(e, t) == e.ttl > 0 /\ t >= e.timestamp /\ t - e.timestamp >= e.ttl

-----------------------------------------------------------------------------
\* Probing.

Least(S) == CHOOSE i \in S : \A j \in S : i <= j

Home(k)         == Hash[k] % Capacity
ProbeSlot(k, i) == (Home(k) + i) % Capacity

\* The probes at which a loop of the engine may stop: an EMPTY slot or the key.
Stops(es, k) == {i \in Probes : LET e == es[ProbeSlot(k, i)]
                                IN  e.state = "EMPTY" \/ Holds(e, k)}

\* The loop goes on to the home slot again.
LastProbe_OneTooMany(es, k) == IF Stops(es, k) = {} THEN Capacity
                                                    ELSE Least(Stops(es, k))

\* The last probe the loop makes, which is also what it adds to
\* total_collisions: every slot inspected after the home slot.
LastProbe(es, k) == IF Stops(es, k) = {} THEN Capacity - 1
                                         ELSE Least(Stops(es, k))

\* find_key_locked, and the loops of cache_get, cache_update, cache_delete.
FindKey(es, k) ==
    LET s == ProbeSlot(k, LastProbe(es, k))
    IN  IF Holds(es[s], k) THEN s ELSE NoSlot

\* Tombstones that find_slot_internal passes before it stops.
Tombstones(es, k) ==
    {i \in 0 .. LastProbe(es, k) : es[ProbeSlot(k, i)].state = "DELETED"}

FindSlot_FirstTombstone(es, k) ==
    IF Tombstones(es, k) # {}   THEN ProbeSlot(k, Least(Tombstones(es, k)))
    ELSE IF Stops(es, k) # {}   THEN ProbeSlot(k, LastProbe(es, k))
    ELSE NoSlot

\* find_slot_internal: the slot of k, else the first tombstone on its probe
\* path, else the EMPTY slot that ends the path, else none.
FindSlot(es, k) ==
    IF FindKey(es, k) # NoSlot        THEN FindKey(es, k)
    ELSE IF Tombstones(es, k) # {}    THEN ProbeSlot(k, Least(Tombstones(es, k)))
    ELSE IF Stops(es, k) # {}         THEN ProbeSlot(k, LastProbe(es, k))
    ELSE NoSlot

-----------------------------------------------------------------------------
\* Removal.

Remove_BreaksPath(es, s) == [es EXCEPT ![s] = Blank("EMPTY")]

\* remove_entry, on the array; the counter is RemoveCount.
Remove(es, s) == [es EXCEPT ![s] = Blank("DELETED")]

\* header->entry_count after n calls of remove_entry.
RemoveCount(count, n) == IF count > n THEN count - n ELSE 0

ExpiredSlots(es, t) == {s \in Occupied(es) : Expired(es[s], t)}

\* reclaim_expired: every expired entry becomes a tombstone.
Reclaim(es, t) ==
    [s \in Slots |-> IF s \in ExpiredSlots(es, t) THEN Blank("DELETED") ELSE es[s]]

\* evict_oldest_write: the occupied slot with the least timestamp, the least
\* index among equals.
OldestSlot(es) ==
    Least({s \in Occupied(es) :
             \A r \in Occupied(es) : es[s].timestamp <= es[r].timestamp})
=============================================================================

--------------------------- MODULE CacheTableProofs ---------------------------
(***************************************************************************)
(* What the operators of CacheTable return, for every capacity, key set    *)
(* and hash function.                                                      *)
(***************************************************************************)
EXTENDS CacheTable, TLAPS, FunctionTheorems, FiniteSetTheorems,
        WellFoundedInduction

TableType == [Slots -> EntryType]

-----------------------------------------------------------------------------
\* Least elements.

LEMMA LessThanPair ==
  ASSUME NEW x \in Nat, NEW y \in Nat, y < x
  PROVE  <<y, x>> \in OpToRel(<, Nat)
<1>1. <<y, x>> \in Nat \X Nat
  OBVIOUS
<1>2. <<y, x>>[1] < <<y, x>>[2]
  OBVIOUS
<1> QED
  BY <1>1, <1>2, Zenon DEF OpToRel

\* Every non-empty set of naturals has the element that Least chooses.
LEMMA LeastExists ==
  ASSUME NEW S \in SUBSET Nat, S # {}
  PROVE  Least(S) \in S /\ \A j \in S : Least(S) <= j
<1>1. PICK x \in S : \A y \in S : ~(<<y, x>> \in OpToRel(<, Nat))
  BY WFMin, NatLessThanWellFounded
<1>2. \A y \in S : ~(y < x)
  BY <1>1, LessThanPair, Zenon
<1>3. \A y \in S : x <= y
  BY <1>2
<1> QED
  BY <1>3, Zenon DEF Least

-----------------------------------------------------------------------------
\* Probing.

LEMMA ModRange ==
  ASSUME NEW n \in Nat
  PROVE  n % Capacity \in Slots
BY CapacityAssumption DEF Slots

LEMMA ProbeSlotType ==
  ASSUME NEW k \in Keys, NEW i \in Nat
  PROVE  ProbeSlot(k, i) \in Slots
<1>1. Hash[k] \in Nat
  BY HashAssumption
<1>2. Home(k) \in Slots
  BY <1>1, ModRange DEF Home
<1>3. Home(k) + i \in Nat
  BY <1>2, CapacityAssumption DEF Slots
<1> QED
  BY <1>3, ModRange DEF ProbeSlot

\* A search makes at least one probe and at most one per slot.
LEMMA LastProbeType ==
  ASSUME NEW es, NEW k
  PROVE  LastProbe(es, k) \in Probes
<1>1. Stops(es, k) \in SUBSET Nat /\ Stops(es, k) \subseteq Probes
  BY CapacityAssumption DEF Stops, Probes
<1>2. CASE Stops(es, k) = {}
  BY <1>2, CapacityAssumption DEF LastProbe, Probes
<1>3. CASE Stops(es, k) # {}
  BY <1>1, <1>3, LeastExists DEF LastProbe
<1> QED
  BY <1>2, <1>3

LEMMA FindKeyType ==
  ASSUME NEW es, NEW k \in Keys
  PROVE  FindKey(es, k) \in Slots \cup {NoSlot}
<1>1. LastProbe(es, k) \in Nat
  BY LastProbeType, CapacityAssumption DEF Probes
<1> QED
  BY <1>1, ProbeSlotType DEF FindKey

\* A search that succeeds returns a slot that holds the key.
LEMMA FindKeyFinds ==
  ASSUME NEW es, NEW k \in Keys, FindKey(es, k) # NoSlot
  PROVE  Holds(es[FindKey(es, k)], k)
BY DEF FindKey

LEMMA FindSlotType ==
  ASSUME NEW es, NEW k \in Keys
  PROVE  FindSlot(es, k) \in Slots \cup {NoSlot}
<1>1. LastProbe(es, k) \in Nat
  BY LastProbeType, CapacityAssumption DEF Probes
<1>2. ASSUME Tombstones(es, k) # {}
      PROVE  Least(Tombstones(es, k)) \in Nat
  <2>1. Tombstones(es, k) \in SUBSET Nat
    BY <1>1 DEF Tombstones
  <2> QED
    BY <1>2, <2>1, LeastExists
<1> QED
  BY <1>1, <1>2, FindKeyType, ProbeSlotType DEF FindSlot

-----------------------------------------------------------------------------
\* Removal.

LEMMA SlotsFinite == IsFiniteSet(Slots)
BY FS_Interval, CapacityAssumption DEF Slots

LEMMA BlankType ==
  ASSUME NEW state \in {"EMPTY", "OCCUPIED", "DELETED"}
  PROVE  Blank(state) \in EntryType
BY ValuesAssumption, TTLsAssumption DEF Blank, EntryType

LEMMA RemoveType ==
  ASSUME NEW es \in TableType, NEW s
  PROVE  Remove(es, s) \in TableType
BY BlankType DEF Remove, TableType

LEMMA ReclaimType ==
  ASSUME NEW es \in TableType, NEW t
  PROVE  Reclaim(es, t) \in TableType
BY BlankType DEF Reclaim, TableType

LEMMA RemoveCountType ==
  ASSUME NEW count \in Nat, NEW n \in Nat
  PROVE  RemoveCount(count, n) \in Nat
BY DEF RemoveCount

LEMMA ExpiredCountType ==
  ASSUME NEW es, NEW t
  PROVE  Cardinality(ExpiredSlots(es, t)) \in Nat
<1>1. ExpiredSlots(es, t) \in SUBSET Slots
  BY DEF ExpiredSlots, Occupied
<1> QED
  BY <1>1, SlotsFinite, FS_Subset, FS_CardinalityType

\* A table that is not empty has an oldest entry: it is occupied, and no entry
\* carries an earlier timestamp.
LEMMA OldestSlotIsOldest ==
  ASSUME NEW es \in TableType, Occupied(es) # {}
  PROVE  /\ OldestSlot(es) \in Occupied(es)
         /\ \A r \in Occupied(es) : es[OldestSlot(es)].timestamp <= es[r].timestamp
<1> DEFINE Stamps == {es[s].timestamp : s \in Occupied(es)}
           Oldest == {s \in Occupied(es) :
                        \A r \in Occupied(es) : es[s].timestamp <= es[r].timestamp}
<1>1. Occupied(es) \subseteq Slots /\ Slots \subseteq Nat
  BY CapacityAssumption DEF Occupied, Slots
<1>2. \A s \in Slots : es[s].timestamp \in Nat
  BY DEF TableType, EntryType
<1>3. Stamps \in SUBSET Nat /\ Stamps # {}
  BY <1>1, <1>2
<1>4. Least(Stamps) \in Stamps /\ \A t \in Stamps : Least(Stamps) <= t
  BY <1>3, LeastExists
<1>5. PICK s \in Occupied(es) : es[s].timestamp = Least(Stamps)
  BY <1>4
<1>6. \A r \in Occupied(es) : es[s].timestamp <= es[r].timestamp
  BY <1>4, <1>5
<1>7. Oldest \in SUBSET Nat /\ Oldest # {}
  BY <1>1, <1>5, <1>6
<1>8. Least(Oldest) \in Oldest
  BY <1>7, LeastExists
<1>9. OldestSlot(es) = Least(Oldest)
  BY DEF OldestSlot
<1> QED
  BY <1>8, <1>9

-----------------------------------------------------------------------------
\* Reachability.

\* Every entry has a key, and probing for it leads to the entry.
Reachable(es) ==
    \A s \in Occupied(es) : es[s].key \in Keys /\ FindKey(es, es[s].key) = s

LEMMA LeastUnique ==
  ASSUME NEW S \in SUBSET Nat, NEW i \in S, \A j \in S : i <= j
  PROVE  Least(S) = i
<1>1. Least(S) \in S /\ Least(S) <= i
  BY LeastExists
<1>2. i <= Least(S)
  BY <1>1
<1>3. i \in Nat /\ Least(S) \in Nat
  BY <1>1
<1> QED
  BY <1>1, <1>2, <1>3

LEMMA StopsType ==
  ASSUME NEW es, NEW k
  PROVE  Stops(es, k) \in SUBSET Nat /\ Stops(es, k) \subseteq Probes
BY CapacityAssumption DEF Stops, Probes

\* Before its last probe a search passes no slot at which it could stop.
LEMMA NoStopBefore ==
  ASSUME NEW es, NEW k, NEW j \in Nat, j < LastProbe(es, k)
  PROVE  j \notin Stops(es, k)
<1>1. CASE Stops(es, k) = {}
  BY <1>1
<1>2. CASE Stops(es, k) # {}
  <2>1. \A i \in Stops(es, k) : Least(Stops(es, k)) <= i
    BY <1>2, StopsType, LeastExists
  <2>2. Least(Stops(es, k)) \in Nat
    BY <1>2, StopsType, LeastExists
  <2> QED
    BY <1>2, <2>1, <2>2 DEF LastProbe
<1> QED
  BY <1>1, <1>2

\* A search finds slot s if s holds the key and some probe leads to s with no
\* stop before it ...
LEMMA FoundIf ==
  ASSUME NEW es, NEW k \in Keys, NEW i \in Probes,
         Holds(es[ProbeSlot(k, i)], k),
         \A j \in Probes : j < i => j \notin Stops(es, k)
  PROVE  FindKey(es, k) = ProbeSlot(k, i)
<1>1. Probes \subseteq Nat
  BY CapacityAssumption DEF Probes
<1>2. i \in Stops(es, k)
  BY DEF Stops
<1>3. \A j \in Stops(es, k) : i <= j
  BY <1>1, StopsType
<1>4. Least(Stops(es, k)) = i
  BY <1>2, <1>3, StopsType, LeastUnique
<1>5. LastProbe(es, k) = i
  BY <1>2, <1>4 DEF LastProbe
<1> QED
  BY <1>5 DEF FindKey

\* ... and only if.
LEMMA FoundOnlyIf ==
  ASSUME NEW es, NEW k \in Keys, FindKey(es, k) # NoSlot
  PROVE  \E i \in Probes : /\ FindKey(es, k) = ProbeSlot(k, i)
                           /\ Holds(es[ProbeSlot(k, i)], k)
                           /\ \A j \in Probes : j < i => j \notin Stops(es, k)
<1>1. LastProbe(es, k) \in Probes /\ Probes \subseteq Nat
  BY LastProbeType, CapacityAssumption DEF Probes
<1>2. FindKey(es, k) = ProbeSlot(k, LastProbe(es, k))
  BY DEF FindKey
<1>3. Holds(es[ProbeSlot(k, LastProbe(es, k))], k)
  BY DEF FindKey
<1>4. \A j \in Probes : j < LastProbe(es, k) => j \notin Stops(es, k)
  BY <1>1, NoStopBefore
<1> QED
  BY <1>1, <1>2, <1>3, <1>4

\* A change of the table after which every entry is where it was, with no new
\* stop on its path, leaves every entry reachable.
LEMMA ReachableKept ==
  ASSUME NEW es, NEW new, Reachable(es),
         NEW s \in Occupied(new), s \in Occupied(es), new[s].key = es[s].key,
         \A r \in Slots : \/ new[r].state = es[r].state /\ new[r].key = es[r].key
                          \/ new[r].state \in {"OCCUPIED", "DELETED"} /\ ~Holds(new[r], es[s].key)
  PROVE  new[s].key \in Keys /\ FindKey(new, new[s].key) = s
<1> DEFINE k == es[s].key
<1>1. k \in Keys /\ FindKey(es, k) = s /\ s \in Slots /\ s # NoSlot
  BY CapacityAssumption DEF Reachable, Occupied, Slots, NoSlot
<1>2. PICK i \in Probes : /\ FindKey(es, k) = ProbeSlot(k, i)
                          /\ Holds(es[ProbeSlot(k, i)], k)
                          /\ \A j \in Probes : j < i => j \notin Stops(es, k)
  BY <1>1, FoundOnlyIf
<1>3. Holds(new[ProbeSlot(k, i)], k)
  BY <1>1, <1>2 DEF Holds, Occupied
<1>4. ASSUME NEW j \in Probes, j < i
      PROVE  j \notin Stops(new, k)
  <2>1. j \notin Stops(es, k)
    BY <1>2, <1>4
  <2>2. ProbeSlot(k, j) \in Slots
    BY <1>1, ProbeSlotType, CapacityAssumption DEF Probes
  <2>3. es[ProbeSlot(k, j)].state # "EMPTY" /\ ~Holds(es[ProbeSlot(k, j)], k)
    BY <2>1 DEF Stops
  <2>4. new[ProbeSlot(k, j)].state # "EMPTY" /\ ~Holds(new[ProbeSlot(k, j)], k)
    BY <2>2, <2>3 DEF Holds
  <2> QED
    BY <2>4 DEF Stops
<1>5. FindKey(new, k) = ProbeSlot(k, i)
  BY <1>1, <1>3, <1>4, FoundIf
<1> QED
  BY <1>1, <1>2, <1>5

\* Turning slots into tombstones keeps every remaining entry reachable.
LEMMA ReachableAfterRemoval ==
  ASSUME NEW es, NEW new, Reachable(es),
         \A r \in Slots : new[r] = es[r] \/ new[r] = Blank("DELETED")
  PROVE  Reachable(new)
<1> SUFFICES ASSUME NEW s \in Occupied(new)
             PROVE  new[s].key \in Keys /\ FindKey(new, new[s].key) = s
  BY DEF Reachable
<1>1. s \in Occupied(es) /\ new[s] = es[s]
  BY DEF Occupied, Blank
<1>2. \A r \in Slots : \/ new[r].state = es[r].state /\ new[r].key = es[r].key
                       \/ /\ new[r].state \in {"OCCUPIED", "DELETED"}
                          /\ ~Holds(new[r], es[s].key)
  BY DEF Blank, Holds
<1> QED
  BY <1>1, <1>2, ReachableKept

LEMMA ReachableAfterRemove ==
  ASSUME NEW es \in TableType, NEW s, Reachable(es)
  PROVE  Reachable(Remove(es, s))
<1>1. \A r \in Slots : Remove(es, s)[r] = es[r] \/ Remove(es, s)[r] = Blank("DELETED")
  BY DEF Remove, TableType
<1> QED
  BY <1>1, ReachableAfterRemoval

LEMMA ReachableAfterReclaim ==
  ASSUME NEW es, NEW t, Reachable(es)
  PROVE  Reachable(Reclaim(es, t))
<1>1. \A r \in Slots : Reclaim(es, t)[r] = es[r] \/ Reclaim(es, t)[r] = Blank("DELETED")
  BY DEF Reclaim
<1> QED
  BY <1>1, ReachableAfterRemoval

\* Values, stamps and TTLs do not matter to probing.
LEMMA ReachableSameKeys ==
  ASSUME NEW es, NEW new, Reachable(es),
         \A r \in Slots : new[r].state = es[r].state /\ new[r].key = es[r].key
  PROVE  Reachable(new)
<1> SUFFICES ASSUME NEW s \in Occupied(new)
             PROVE  new[s].key \in Keys /\ FindKey(new, new[s].key) = s
  BY DEF Reachable
<1>1. s \in Occupied(es) /\ new[s].key = es[s].key
  BY DEF Occupied
<1> QED
  BY <1>1, ReachableKept

\* find_slot_internal returns a slot on the probe path of the key, with no
\* stop before it.
LEMMA FindSlotOnPath ==
  ASSUME NEW es, NEW k \in Keys, FindSlot(es, k) # NoSlot
  PROVE  \E i \in Probes : /\ FindSlot(es, k) = ProbeSlot(k, i)
                           /\ i <= LastProbe(es, k)
<1>1. LastProbe(es, k) \in Probes /\ Probes \subseteq Nat
  BY LastProbeType, CapacityAssumption DEF Probes
<1>a. LastProbe(es, k) \in Nat
  BY <1>1
<1>b. LastProbe(es, k) <= LastProbe(es, k)
  BY <1>a
<1>2. CASE FindKey(es, k) # NoSlot
  <2>1. FindSlot(es, k) = ProbeSlot(k, LastProbe(es, k))
    BY <1>2 DEF FindSlot, FindKey
  <2> QED
    BY <1>1, <1>b, <2>1
<1>3. CASE FindKey(es, k) = NoSlot /\ Tombstones(es, k) # {}
  <2>1. Tombstones(es, k) \in SUBSET Nat
    BY <1>1 DEF Tombstones
  <2>2. Least(Tombstones(es, k)) \in Tombstones(es, k)
    BY <1>3, <2>1, LeastExists
  <2>3. Least(Tombstones(es, k)) \in Probes /\ Least(Tombstones(es, k)) <= LastProbe(es, k)
    BY <1>1, <2>2, CapacityAssumption DEF Tombstones, Probes
  <2>4. FindSlot(es, k) = ProbeSlot(k, Least(Tombstones(es, k)))
    BY <1>3 DEF FindSlot
  <2> QED
    BY <2>3, <2>4
<1>4. CASE FindKey(es, k) = NoSlot /\ Tombstones(es, k) = {}
  <2>1. FindSlot(es, k) = ProbeSlot(k, LastProbe(es, k))
    BY <1>4 DEF FindSlot
  <2> QED
    BY <1>1, <1>b, <2>1
<1> QED
  BY <1>2, <1>3, <1>4

\* Storing a key in the slot that find_slot_internal returned for it leaves
\* every entry reachable, the stored one included: it is the first slot of
\* the table that holds the key, and a slot in use ends nobody's path.
LEMMA ReachableAfterStore ==
  ASSUME NEW es \in TableType, NEW k \in Keys, NEW e, Reachable(es),
         FindSlot(es, k) \in Slots,
         e.state = "OCCUPIED", e.key = k
  PROVE  Reachable([es EXCEPT ![FindSlot(es, k)] = e])
<1> DEFINE t   == FindSlot(es, k)
           new == [es EXCEPT ![t] = e]
<1>0. Probes \subseteq Nat /\ LastProbe(es, k) \in Probes
  BY LastProbeType, CapacityAssumption DEF Probes
<1>1. new[t] = e /\ \A r \in Slots : r # t => new[r] = es[r]
  BY DEF TableType
<1>a. t \in Slots
  OBVIOUS
<1> SUFFICES Reachable(new)
  OBVIOUS
<1>b. t = FindSlot(es, k)
  OBVIOUS
<1> HIDE DEF t, new
<1>2. CASE FindKey(es, k) # NoSlot
  <2>1. t = FindKey(es, k) /\ Holds(es[t], k)
    BY <1>2, <1>b, FindKeyFinds DEF FindSlot
  <2>2. \A r \in Slots : new[r].state = es[r].state /\ new[r].key = es[r].key
    BY <1>1, <2>1 DEF Holds
  <2> QED
    BY <2>2, ReachableSameKeys
<1>3. CASE FindKey(es, k) = NoSlot
  <2>1. \A r \in Slots : ~Holds(es[r], k)
    BY <1>3, CapacityAssumption DEF Reachable, Occupied, Holds, Slots, NoSlot
  <2>2. ASSUME NEW s \in Occupied(new), s # t
        PROVE  new[s].key \in Keys /\ FindKey(new, new[s].key) = s
    <3>1. s \in Occupied(es) /\ new[s] = es[s]
      BY <1>1, <1>a, <2>2 DEF Occupied
    <3>2. es[s].key # k
      BY <2>1, <3>1 DEF Occupied, Holds
    <3>3. \A r \in Slots : \/ new[r].state = es[r].state /\ new[r].key = es[r].key
                           \/ /\ new[r].state \in {"OCCUPIED", "DELETED"}
                              /\ ~Holds(new[r], es[s].key)
      BY <1>1, <3>2 DEF Holds
    <3> QED
      BY <3>1, <3>3, ReachableKept
  <2>3. FindKey(new, k) = t
    <3> DEFINE Ways == {i \in Probes : ProbeSlot(k, i) = t}
    <3>1. PICK i \in Probes : t = ProbeSlot(k, i) /\ i <= LastProbe(es, k)
      BY <1>a, <1>b, FindSlotOnPath, CapacityAssumption DEF Slots, NoSlot
    <3>2. Ways \in SUBSET Nat /\ i \in Ways
      BY <1>0, <3>1
    <3>3. PICK w \in Ways : \A j \in Ways : w <= j
      BY <3>2, LeastExists
    <3>4. w \in Probes /\ ProbeSlot(k, w) = t /\ w \in Nat
      BY <1>0, <3>3
    <3>5. w <= LastProbe(es, k)
      <4>1. w <= i /\ i \in Nat /\ LastProbe(es, k) \in Nat
        BY <1>0, <3>2, <3>3
      <4> QED
        BY <3>1, <3>4, <4>1
    <3>6. Holds(new[ProbeSlot(k, w)], k)
      BY <1>1, <3>4 DEF Holds
    <3>7. ASSUME NEW j \in Probes, j < w
          PROVE  j \notin Stops(new, k)
      <4>1. j \in Nat
        BY <1>0
      <4>2. j \notin Ways
        BY <3>3, <3>4, <3>7, <4>1
      <4>3. ProbeSlot(k, j) \in Slots /\ ProbeSlot(k, j) # t
        BY <4>1, <4>2, ProbeSlotType
      <4>4. LastProbe(es, k) \in Nat
        BY <1>0
      <4>5. j < LastProbe(es, k)
        BY <3>4, <3>5, <3>7, <4>1, <4>4
      <4>6. j \notin Stops(es, k)
        BY <4>1, <4>5, NoStopBefore
      <4> QED
        BY <1>1, <4>3, <4>6 DEF Stops
    <3>8. FindKey(new, k) = ProbeSlot(k, w)
      BY <3>4, <3>6, <3>7, FoundIf
    <3> QED
      BY <3>4, <3>8
  <2>4. new[t].key = k
    BY <1>1
  <2> QED
    BY <2>2, <2>3, <2>4 DEF Reachable
<1> QED
  BY <1>2, <1>3

-----------------------------------------------------------------------------
\* Counting.

LEMMA OccupiedFinite ==
  ASSUME NEW es
  PROVE  IsFiniteSet(Occupied(es)) /\ Cardinality(Occupied(es)) \in Nat
<1>1. Occupied(es) \in SUBSET Slots
  BY DEF Occupied
<1> QED
  BY <1>1, SlotsFinite, FS_Subset, FS_CardinalityType

\* remove_entry's saturating decrement is exact: it never has to saturate
\* when the count is the number of entries and the slot holds one.
LEMMA RemoveCounted ==
  ASSUME NEW es \in TableType, NEW s \in Occupied(es)
  PROVE  Cardinality(Occupied(Remove(es, s))) = RemoveCount(Cardinality(Occupied(es)), 1)
<1>1. Occupied(Remove(es, s)) = Occupied(es) \ {s}
  BY DEF Occupied, Remove, Blank, TableType
<1>2. Cardinality(Occupied(es) \ {s}) = Cardinality(Occupied(es)) - 1
  BY OccupiedFinite, FS_RemoveElement
<1>3. Cardinality(Occupied(es) \ {s}) \in Nat
  BY OccupiedFinite, FS_RemoveElement, FS_CardinalityType
<1> QED
  BY <1>1, <1>2, <1>3, OccupiedFinite DEF RemoveCount

\* The same for reclaim_expired, which calls remove_entry once per expired
\* entry.
LEMMA ReclaimCounted ==
  ASSUME NEW es, NEW t
  PROVE  Cardinality(Occupied(Reclaim(es, t)))
            = RemoveCount(Cardinality(Occupied(es)), Cardinality(ExpiredSlots(es, t)))
<1>1. Occupied(Reclaim(es, t)) = Occupied(es) \ ExpiredSlots(es, t)
  BY DEF Occupied, Reclaim, Blank, ExpiredSlots
<1>2. Occupied(es) \cap ExpiredSlots(es, t) = ExpiredSlots(es, t)
  BY DEF ExpiredSlots
<1>3. Cardinality(Occupied(es) \ ExpiredSlots(es, t))
        = Cardinality(Occupied(es)) - Cardinality(ExpiredSlots(es, t))
  BY <1>2, OccupiedFinite, FS_Difference
<1>4. Cardinality(Occupied(es) \ ExpiredSlots(es, t)) \in Nat
  BY OccupiedFinite, FS_Difference, FS_CardinalityType
<1> QED
  BY <1>1, <1>3, <1>4, OccupiedFinite, ExpiredCountType DEF RemoveCount

\* No two entries have the same key, so there are as many keys as entries.
LEMMA KeysCounted ==
  ASSUME NEW es, Reachable(es)
  PROVE  Cardinality({es[s].key : s \in Occupied(es)}) = Cardinality(Occupied(es))
<1> DEFINE T == {es[s].key : s \in Occupied(es)}
           f == [s \in Occupied(es) |-> es[s].key]
<1>1. f \in [Occupied(es) -> T]
  OBVIOUS
<1>2. \A s, r \in Occupied(es) : f[s] = f[r] => s = r
  BY DEF Reachable
<1>3. \A k \in T : \E s \in Occupied(es) : f[s] = k
  OBVIOUS
<1>4. ExistsBijection(Occupied(es), T)
  <2> HIDE DEF T, f
  <2>1. f \in Bijection(Occupied(es), T)
    BY <1>1, <1>2, <1>3, Fun_IsBij
  <2> QED
    BY <2>1, Fun_ExistsBij
<1> QED
  BY <1>4, OccupiedFinite, FS_Bijection

-----------------------------------------------------------------------------
\* A full table.

LEMMA ModLow ==
  ASSUME NEW N \in Nat \ {0}, NEW n \in 0 .. N - 1
  PROVE  n % N = n /\ (n + N) % N = n
OBVIOUS

\* The probes of a key visit every slot.
LEMMA ProbesCoverTable ==
  ASSUME NEW k \in Keys, NEW s \in Slots
  PROVE  \E i \in Probes : ProbeSlot(k, i) = s
<1>1. Home(k) \in Slots
  BY HashAssumption, ModRange DEF Home
<1>2. CASE s >= Home(k)
  <2>1. s - Home(k) \in Probes /\ Home(k) + (s - Home(k)) = s
    BY <1>1, <1>2, CapacityAssumption DEF Slots, Probes
  <2>2. ProbeSlot(k, s - Home(k)) = s
    BY <2>1, ModLow, CapacityAssumption DEF ProbeSlot, Slots
  <2> QED
    BY <2>1, <2>2
<1>3. CASE s < Home(k)
  <2>1. /\ s - Home(k) + Capacity \in Probes
        /\ Home(k) + (s - Home(k) + Capacity) = s + Capacity
    BY <1>1, <1>3, CapacityAssumption DEF Slots, Probes
  <2>2. ProbeSlot(k, s - Home(k) + Capacity) = s
    BY <2>1, ModLow, CapacityAssumption DEF ProbeSlot, Slots
  <2> QED
    BY <2>1, <2>2
<1> QED
  BY <1>1, <1>2, <1>3, CapacityAssumption DEF Slots

\* find_slot_internal gives no slot only when every slot holds an entry of
\* another key: it overlooks no tombstone and no empty slot.
LEMMA NoSlotWhenFull ==
  ASSUME NEW es \in TableType, NEW k \in Keys, FindSlot(es, k) = NoSlot, NEW s \in Slots
  PROVE  es[s].state = "OCCUPIED" /\ es[s].key # k
<1>1. \A i \in Nat : ProbeSlot(k, i) # NoSlot
  BY ProbeSlotType, CapacityAssumption DEF Slots, NoSlot
<1>2. LastProbe(es, k) \in Nat
  BY LastProbeType, CapacityAssumption DEF Probes
<1>3. FindKey(es, k) = NoSlot
  BY DEF FindSlot
<1>4. Tombstones(es, k) = {}
  <2>1. Tombstones(es, k) \in SUBSET Nat
    BY <1>2 DEF Tombstones
  <2>2. Tombstones(es, k) # {} => ProbeSlot(k, Least(Tombstones(es, k))) # NoSlot
    BY <1>1, <2>1, LeastExists
  <2> QED
    BY <1>3, <2>2 DEF FindSlot
<1>5. Stops(es, k) = {}
  BY <1>1, <1>2, <1>3, <1>4 DEF FindSlot
<1>6. LastProbe(es, k) = Capacity - 1
  BY <1>5 DEF LastProbe
<1>7. PICK i \in Probes : ProbeSlot(k, i) = s
  BY ProbesCoverTable
<1>8. es[s].state # "DELETED"
  BY <1>4, <1>6, <1>7 DEF Tombstones, Probes
<1>9. es[s].state # "EMPTY" /\ ~Holds(es[s], k)
  BY <1>5, <1>7 DEF Stops
<1> QED
  BY <1>8, <1>9 DEF TableType, EntryType, Holds

\* The slot it gives holds the key or no entry at all.
LEMMA FindSlotFree ==
  ASSUME NEW es \in TableType, NEW k \in Keys, FindSlot(es, k) \in Slots
  PROVE  es[FindSlot(es, k)].state # "OCCUPIED" \/ Holds(es[FindSlot(es, k)], k)
<1>1. LastProbe(es, k) \in Nat
  BY LastProbeType, CapacityAssumption DEF Probes
<1>2. CASE FindKey(es, k) # NoSlot
  BY <1>2, FindKeyFinds DEF FindSlot
<1>3. CASE FindKey(es, k) = NoSlot /\ Tombstones(es, k) # {}
  <2>1. Tombstones(es, k) \in SUBSET Nat
    BY <1>1 DEF Tombstones
  <2>2. Least(Tombstones(es, k)) \in Tombstones(es, k)
    BY <1>3, <2>1, LeastExists
  <2>3. FindSlot(es, k) = ProbeSlot(k, Least(Tombstones(es, k)))
    BY <1>3 DEF FindSlot
  <2> QED
    BY <2>2, <2>3 DEF Tombstones
<1>4. CASE FindKey(es, k) = NoSlot /\ Tombstones(es, k) = {} /\ Stops(es, k) # {}
  <2>1. LastProbe(es, k) \in Stops(es, k)
    BY <1>4, StopsType, LeastExists DEF LastProbe
  <2>2. FindSlot(es, k) = ProbeSlot(k, LastProbe(es, k))
    BY <1>4 DEF FindSlot
  <2> QED
    BY <2>1, <2>2 DEF Stops
<1>5. CASE FindKey(es, k) = NoSlot /\ Tombstones(es, k) = {} /\ Stops(es, k) = {}
  <2>1. FindSlot(es, k) = NoSlot
    BY <1>5 DEF FindSlot
  <2> QED
    BY <2>1, CapacityAssumption DEF Slots, NoSlot
<1> QED
  BY <1>2, <1>3, <1>4, <1>5
=============================================================================

-------------------------- MODULE CacheEngineProofs --------------------------
(***************************************************************************)
(* Theorems about CacheEngine, for any number of processes and crashes,    *)
(* any keys, values, capacity and clock.  First types, the lock, what a    *)
(* GET copies, and what the death of a lock holder leaves; then what the   *)
(* table and the counters hold: no entry is unreachable, miscounted or     *)
(* lost, no PUT is refused, no GET is counted twice.                       *)
(***************************************************************************)
EXTENDS CacheEngine, CacheTableProofs

\* What a process's place in the code says of its call.
CallInv ==
    \A p \in Procs :
        /\ pc[p] \notin {"idle", "done"} => Valid(call[p])
        /\ pc[p] \in {"copy", "metrics_lock", "metrics", "expired_lock", "remove"}
              => call[p].op = "GET"
        /\ pc[p] \in {"reclaim", "evict", "claim"} => call[p].op = "PUT"
        /\ pc[p] \in {"store", "stamp"} => call[p].op \in {"PUT", "UPDATE"}
        /\ pc[p] \in {"copy", "claim", "store", "stamp"} => slot[p] \in Slots

TypeInv == TypeOK /\ CallInv

-----------------------------------------------------------------------------
\* Helpers of the type proof.

LEMMA CountType ==
  ASSUME NEW counter \in Nat, NEW n \in Nat
  PROVE  Count(counter, n) \in Counter
BY CounterAssumption DEF Count, Counter

LEMMA CounterIsNat == Counter \subseteq Nat
BY CounterAssumption DEF Counter

LEMMA ProbeCountType ==
  ASSUME NEW es, NEW k
  PROVE  LastProbe(es, k) \in Nat
BY LastProbeType, CapacityAssumption DEF Probes

LEMMA ProbesAreNat == Probes \subseteq Nat /\ 0 \in Probes
BY CapacityAssumption DEF Probes

\* A valid call of any operation but SNAPSHOT names a key.
LEMMA ValidKey ==
  ASSUME NEW c \in CallType, Valid(c), c.op # "SNAPSHOT"
  PROVE  c.key \in Keys
BY DEF Valid

LEMMA TypeInit == Init => TypeInv
<1> SUFFICES ASSUME Init PROVE TypeInv
  OBVIOUS
<1>1. EmptyTable \in [Slots -> EntryType]
  BY BlankType DEF EmptyTable
<1>2. NoCall \in CallType
  BY ValuesAssumption, TTLsAssumption DEF NoCall, CallType, Ops
<1>3. Pending \in Replies
  BY DEF Replies
<1>4. 0 \in Counter
  BY CounterAssumption DEF Counter
<1>5. TypeOK
  BY <1>1, <1>2, <1>3, <1>4, ProbesAreNat, BudgetAssumption DEF Init, TypeOK, Labels
<1>6. CallInv
  BY DEF Init, CallInv
<1> QED
  BY <1>5, <1>6 DEF TypeInv

-----------------------------------------------------------------------------
LEMMA TypeStep == TypeInv /\ [Next]_vars => TypeInv'
<1> SUFFICES ASSUME TypeInv, [Next]_vars PROVE TypeInv'
  OBVIOUS
<1> USE DEF TypeInv
<1>1. ASSUME NEW p \in Procs, NEW c \in Calls, Invoke(p, c)
      PROVE  TypeInv'
  <2>1. c \in CallType
    BY CallsAssumption
  <2>2. lookups' \in Counter
    BY <1>1, CountType, CounterIsNat DEF Invoke, TypeOK
  <2>3. TypeOK'
    BY <1>1, <2>1, <2>2, BudgetAssumption
    DEF Invoke, At, Goto, Answer, TypeOK, Labels, Replies, header, lock
  <2>4. CallInv'
    BY <1>1 DEF Invoke, At, Goto, Answer, TypeOK, CallInv
  <2> QED
    BY <2>3, <2>4
<1>2. ASSUME NEW p \in Procs, Return(p)
      PROVE  TypeInv'
  <2>1. NoCall \in CallType
    BY ValuesAssumption, TTLsAssumption DEF NoCall, CallType, Ops
  <2>2. TypeOK'
    BY <1>2, <2>1, ProbesAreNat
    DEF Return, At, Goto, Answer, TypeOK, Labels, Replies, header, lock, history
  <2>3. CallInv'
    BY <1>2 DEF Return, At, Goto, TypeOK, CallInv
  <2> QED
    BY <2>2, <2>3
<1>3. ASSUME NEW p \in Procs, EnterRead(p)
      PROVE  TypeInv'
  <2>1. TypeOK'
    BY <1>3 DEF EnterRead, RdLock, At, Goto, TypeOK, Labels, header, history
  <2>2. CallInv'
    BY <1>3 DEF EnterRead, At, Goto, TypeOK, CallInv
  <2> QED
    BY <2>1, <2>2
<1>4. ASSUME NEW p \in Procs, EnterWrite(p)
      PROVE  TypeInv'
  <2>1. TypeOK'
    BY <1>4 DEF EnterWrite, WrLock, At, Goto, TypeOK, Labels, header, history
  <2>2. CallInv'
    BY <1>4 DEF EnterWrite, At, Goto, TypeOK, CallInv, ReadOps, CallType, Ops
  <2> QED
    BY <2>1, <2>2
<1>5. ASSUME NEW p \in Procs, LockFails(p)
      PROVE  TypeInv'
  <2>1. TypeOK'
    BY <1>5 DEF LockFails, Goto, Answer, TypeOK, Labels, Replies, header, lock, history
  <2>2. CallInv'
    BY <1>5 DEF LockFails, At, Goto, TypeOK, CallInv
  <2> QED
    BY <2>1, <2>2
<1>6. ASSUME NEW p \in Procs, RdUnlock(p)
      PROVE  TypeInv'
  <2>1. TypeOK'
    BY <1>6 DEF RdUnlock, At, Goto, TypeOK, Labels, header, history
  <2>2. CallInv'
    BY <1>6 DEF RdUnlock, At, Goto, TypeOK, CallInv
  <2> QED
    BY <2>1, <2>2
<1>7. ASSUME NEW p \in Procs, WrUnlock(p)
      PROVE  TypeInv'
  <2>1. TypeOK'
    BY <1>7 DEF WrUnlock, At, Goto, TypeOK, Labels, header, history
  <2>2. CallInv'
    BY <1>7 DEF WrUnlock, At, Goto, TypeOK, CallInv
  <2> QED
    BY <2>1, <2>2
<1>8. ASSUME NEW p \in Procs, GetProbe(p)
      PROVE  TypeInv'
  <2>1. call[p].key \in Keys
    BY <1>8, ValidKey DEF GetProbe, At, TypeOK, CallInv
  <2>2. FindKey(entries, call[p].key) \in Slots \cup {NoSlot}
    BY <2>1, FindKeyType
  <2>3. LastProbe(entries, call[p].key) \in Probes
    BY LastProbeType
  <2>4. inspected' \in Counter
    BY <1>8, <2>3, ProbesAreNat, CountType, CounterIsNat DEF GetProbe, TypeOK
  <2>5. TypeOK'
    BY <1>8, <2>1, <2>2, <2>3, <2>4
    DEF GetProbe, At, Goto, Answer, TypeOK, Labels, Replies, header, lock
  <2>6. CallInv'
    BY <1>8, <2>1, <2>2, <2>3, <2>4 DEF GetProbe, At, Goto, TypeOK, CallInv
  <2> QED
    BY <2>5, <2>6
<1>9. ASSUME NEW p \in Procs, GetCopy(p)
      PROVE  TypeInv'
  <2>1. entries[slot[p]] \in EntryType
    BY <1>9 DEF GetCopy, At, TypeOK, CallInv
  <2>2. Hit(entries[slot[p]]) \in Replies
    BY <2>1 DEF Hit, EntryType, Replies
  <2>3. TypeOK'
    BY <1>9, <2>1, <2>2 DEF GetCopy, At, Goto, Answer, TypeOK, Labels, header, lock, history
  <2>4. CallInv'
    BY <1>9, <2>1, <2>2 DEF GetCopy, At, Goto, TypeOK, CallInv
  <2> QED
    BY <2>3, <2>4
<1>10. ASSUME NEW p \in Procs, MetricsLock(p)
      PROVE  TypeInv'
  <2>1. TypeOK'
    BY <1>10 DEF MetricsLock, WrLock, At, Goto, TypeOK, Labels, header, history
  <2>2. CallInv'
    BY <1>10 DEF MetricsLock, At, Goto, TypeOK, CallInv
  <2> QED
    BY <2>1, <2>2
<1>11. ASSUME NEW p \in Procs, AddGetMetrics(p)
      PROVE  TypeInv'
  <2>1. total_hits' \in Counter /\ total_misses' \in Counter
    BY <1>11, CountType, CounterIsNat DEF AddGetMetrics, TypeOK
  <2>2. total_collisions' \in Counter
    BY <1>11, ProbesAreNat, CountType, CounterIsNat DEF AddGetMetrics, TypeOK
  <2>3. TypeOK'
    BY <1>11, <2>1, <2>2 DEF AddGetMetrics, At, Goto, TypeOK, Labels, lock, history
  <2>4. CallInv'
    BY <1>11, <2>1, <2>2 DEF AddGetMetrics, At, Goto, TypeOK, CallInv
  <2> QED
    BY <2>3, <2>4
<1>12. ASSUME NEW p \in Procs, ExpiredLock(p)
      PROVE  TypeInv'
  <2>1. TypeOK'
    BY <1>12 DEF ExpiredLock, WrLock, At, Goto, TypeOK, Labels, header, history
  <2>2. CallInv'
    BY <1>12 DEF ExpiredLock, At, Goto, TypeOK, CallInv
  <2> QED
    BY <2>1, <2>2
<1>13. ASSUME NEW p \in Procs, RemoveExpired(p)
      PROVE  TypeInv'
  <2>1. LastProbe(entries, call[p].key) \in Nat
    BY ProbeCountType
  <2>2. entries' \in [Slots -> EntryType] /\ entry_count' \in Nat
    BY <1>13, RemoveType, RemoveCountType DEF RemoveExpired, TypeOK, TableType
  <2>3. /\ total_misses' \in Counter
        /\ total_collisions' \in Counter
        /\ inspected' \in Counter
    BY <1>13, <2>1, ProbesAreNat, CountType, CounterIsNat DEF RemoveExpired, TypeOK
  <2>4. TypeOK'
    BY <1>13, <2>1, <2>2, <2>3
    DEF RemoveExpired, At, Goto, Answer, TypeOK, Labels, Replies, lock
  <2>5. CallInv'
    BY <1>13, <2>1, <2>2, <2>3 DEF RemoveExpired, At, Goto, TypeOK, CallInv
  <2> QED
    BY <2>4, <2>5
<1>14. ASSUME NEW p \in Procs, PutProbe(p)
      PROVE  TypeInv'
  <2>1. call[p].key \in Keys
    BY <1>14, ValidKey DEF PutProbe, At, TypeOK, CallInv
  <2>2. FindSlot(entries, call[p].key) \in Slots \cup {NoSlot}
    BY <2>1, FindSlotType
  <2>3. LastProbe(entries, call[p].key) \in Nat
    BY ProbeCountType
  <2>4. total_collisions' \in Counter /\ inspected' \in Counter
    BY <1>14, <2>3, CountType, CounterIsNat DEF PutProbe, PutSearch, CountCollisions, TypeOK
  <2>5. TypeOK'
    BY <1>14, <2>1, <2>2, <2>3, <2>4
    DEF PutProbe, PutSearch, CountCollisions, At, Goto, TypeOK, Labels, lock
  <2>6. CallInv'
    BY <1>14, <2>1, <2>2, <2>3, <2>4 DEF PutProbe, PutSearch, At, Goto, TypeOK, CallInv
  <2> QED
    BY <2>5, <2>6
<1>15. ASSUME NEW p \in Procs, PutReclaim(p)
      PROVE  TypeInv'
  <2>1. call[p].key \in Keys
    BY <1>15, ValidKey DEF PutReclaim, At, TypeOK, CallInv
  <2>2. FindSlot(entries', call[p].key) \in Slots \cup {NoSlot}
    BY <2>1, FindSlotType
  <2>3. LastProbe(entries', call[p].key) \in Nat
    BY ProbeCountType
  <2>4. total_collisions' \in Counter /\ inspected' \in Counter
    BY <1>15, <2>3, CountType, CounterIsNat DEF PutReclaim, PutSearch, CountCollisions, TypeOK
  <2>5. entries' \in [Slots -> EntryType] /\ entry_count' \in Nat
    BY <1>15, ReclaimType, ExpiredCountType, RemoveCountType DEF PutReclaim, TypeOK, TableType
  <2>6. TypeOK'
    BY <1>15, <2>1, <2>2, <2>3, <2>4, <2>5
    DEF PutReclaim, PutSearch, At, Goto, TypeOK, Labels, lock
  <2>7. CallInv'
    BY <1>15, <2>1, <2>2, <2>3, <2>4, <2>5 DEF PutReclaim, PutSearch, At, Goto, TypeOK, CallInv
  <2> QED
    BY <2>6, <2>7
<1>16. ASSUME NEW p \in Procs, PutEvict(p)
      PROVE  TypeInv'
  <2>1. call[p].key \in Keys
    BY <1>16, ValidKey DEF PutEvict, At, TypeOK, CallInv
  <2>2. FindSlot(entries', call[p].key) \in Slots \cup {NoSlot}
    BY <2>1, FindSlotType
  <2>3. LastProbe(entries', call[p].key) \in Nat
    BY ProbeCountType
  <2>4. total_collisions' \in Counter /\ inspected' \in Counter
    BY <1>16, <2>3, CountType, CounterIsNat DEF PutEvict, PutSearch, CountCollisions, TypeOK
  <2>5. entries' \in [Slots -> EntryType] /\ entry_count' \in Nat
    BY <1>16, RemoveType, RemoveCountType DEF PutEvict, TypeOK, TableType
  <2>6. TypeOK'
    BY <1>16, <2>1, <2>2, <2>3, <2>4, <2>5
    DEF PutEvict, PutSearch, At, Goto, Answer, TypeOK, Labels, Replies, lock
  <2>7. CallInv'
    BY <1>16, <2>1, <2>2, <2>3, <2>4, <2>5 DEF PutEvict, PutSearch, At, Goto, TypeOK, CallInv
  <2> QED
    BY <2>6, <2>7
<1>17. ASSUME NEW p \in Procs, PutClaim(p)
      PROVE  TypeInv'
  <2>1. TypeOK'
    BY <1>17 DEF PutClaim, At, Goto, TypeOK, Labels, lock, history
  <2>2. CallInv'
    BY <1>17 DEF PutClaim, At, Goto, TypeOK, CallInv
  <2> QED
    BY <2>1, <2>2
<1>18. ASSUME NEW p \in Procs, PutStore(p)
      PROVE  TypeInv'
  <2>1. call[p].key \in Keys
    BY <1>18, ValidKey DEF PutStore, At, TypeOK, CallInv
  <2>2. call[p].value \in Values
    BY DEF TypeOK, CallType
  <2>3. \A e \in EntryType : [e EXCEPT !.state = "OCCUPIED", !.key = call[p].key,
                                   !.value = call[p].value] \in EntryType
    BY <2>1, <2>2 DEF EntryType
  <2>4. entries' \in [Slots -> EntryType]
    BY <1>18, <2>3 DEF PutStore, TypeOK
  <2>5. TypeOK'
    BY <1>18, <2>1, <2>2, <2>3, <2>4
    DEF PutStore, At, Goto, TypeOK, Labels, header, lock, history
  <2>6. CallInv'
    BY <1>18, <2>1, <2>2, <2>3, <2>4 DEF PutStore, At, Goto, TypeOK, CallInv
  <2> QED
    BY <2>5, <2>6
<1>19. ASSUME NEW p \in Procs, PutStamp(p)
      PROVE  TypeInv'
  <2>1. call[p].ttl \in TTLs /\ now \in Nat
    BY DEF TypeOK, CallType
  <2>2. \A e \in EntryType : [e EXCEPT !.timestamp = now, !.ttl = call[p].ttl] \in EntryType
    BY <2>1 DEF EntryType
  <2>3. entries' \in [Slots -> EntryType]
    BY <1>19, <2>2 DEF PutStamp, TypeOK
  <2>4. TypeOK'
    BY <1>19, <2>1, <2>2, <2>3
    DEF PutStamp, At, Goto, Answer, TypeOK, Labels, Replies, header, lock, history
  <2>5. CallInv'
    BY <1>19, <2>1, <2>2, <2>3 DEF PutStamp, At, Goto, TypeOK, CallInv
  <2> QED
    BY <2>4, <2>5
<1>20. ASSUME NEW p \in Procs, UpdateProbe(p)
      PROVE  TypeInv'
  <2>1. call[p].key \in Keys
    BY <1>20, ValidKey DEF UpdateProbe, At, TypeOK, CallInv
  <2>2. FindKey(entries, call[p].key) \in Slots \cup {NoSlot}
    BY <2>1, FindKeyType
  <2>3. LastProbe(entries, call[p].key) \in Nat
    BY ProbeCountType
  <2>4. entries' \in [Slots -> EntryType] /\ entry_count' \in Nat
    BY <1>20, RemoveType, RemoveCountType DEF UpdateProbe, TypeOK, TableType
  <2>5. total_collisions' \in Counter /\ inspected' \in Counter
    BY <1>20, <2>3, CountType, CounterIsNat DEF UpdateProbe, CountCollisions, TypeOK
  <2>8. PICK l \in {"wr_unlock", "store"} :
           /\ pc' = [pc EXCEPT ![p] = l]
           /\ l = "store" => FindKey(entries, call[p].key) # NoSlot
    BY <1>20 DEF UpdateProbe, Goto
  <2>9. /\ pc[p] = "search" /\ call[p].op = "UPDATE"
        /\ slot' = [slot EXCEPT ![p] = FindKey(entries, call[p].key)]
        /\ reply' = [reply EXCEPT ![p] = No] \/ reply' = reply
        /\ UNCHANGED <<total_hits, total_misses, readers, writer, now, dead, budget, call,
                       collisions, lookups>>
    BY <1>20 DEF UpdateProbe, At, Answer, lock
  <2>10. pc' \in [Procs -> Labels] /\ slot' \in [Procs -> Slots \cup {NoSlot}]
    BY <2>2, <2>8, <2>9 DEF TypeOK, Labels
  <2>11. reply' \in [Procs -> Replies]
    BY <2>9 DEF TypeOK, Replies
  <2>6. TypeOK'
    BY <2>4, <2>5, <2>9, <2>10, <2>11 DEF TypeOK
  <2>12. \A q \in Procs : /\ pc'[q] = (IF q = p THEN l ELSE pc[q])
                          /\ q # p => slot'[q] = slot[q]
    BY <2>8, <2>9 DEF TypeOK
  <2>13. l = "store" => slot'[p] \in Slots
    BY <2>2, <2>8, <2>9 DEF TypeOK
  <2>7. CallInv'
    BY <2>8, <2>9, <2>12, <2>13 DEF CallInv
  <2> QED
    BY <2>6, <2>7
<1>21. ASSUME NEW p \in Procs, UpdateStore(p)
      PROVE  TypeInv'
  <2>1. call[p].value \in Values
    BY DEF TypeOK, CallType
  <2>2. entries' \in [Slots -> EntryType]
    <3>1. entries' = [entries EXCEPT ![slot[p]] = [entries[slot[p]] EXCEPT !.value = call[p].value]]
      BY <1>21 DEF UpdateStore
    <3>2. \A e \in EntryType : [e EXCEPT !.value = call[p].value] \in EntryType
      BY <2>1 DEF EntryType
    <3> QED
      BY <3>1, <3>2 DEF TypeOK
  <2>3. TypeOK'
    BY <1>21, <2>1, <2>2 DEF UpdateStore, At, Goto, TypeOK, Labels, header, lock, history
  <2>4. CallInv'
    BY <1>21, <2>1, <2>2 DEF UpdateStore, At, Goto, TypeOK, CallInv
  <2> QED
    BY <2>3, <2>4
<1>22. ASSUME NEW p \in Procs, UpdateStamp(p)
      PROVE  TypeInv'
  <2>1. entries' \in [Slots -> EntryType]
    <3>1. entries' = [entries EXCEPT ![slot[p]] = [entries[slot[p]] EXCEPT !.timestamp = now]]
      BY <1>22 DEF UpdateStamp
    <3>2. now \in Nat
      BY DEF TypeOK
    <3>3. \A e \in EntryType : [e EXCEPT !.timestamp = now] \in EntryType
      BY <3>2 DEF EntryType
    <3> QED
      BY <3>1, <3>3 DEF TypeOK
  <2>2. TypeOK'
    <3>1. pc' \in [Procs -> Labels] /\ reply' \in [Procs -> Replies]
      BY <1>22 DEF UpdateStamp, Goto, Answer, TypeOK, Labels, Replies
    <3>2. UNCHANGED <<header, lock, now, dead, budget, call, slot, collisions, history>>
      BY <1>22 DEF UpdateStamp
    <3> QED
      BY <2>1, <3>1, <3>2 DEF TypeOK, header, lock, history
  <2>3. CallInv'
    BY <1>22, <2>1 DEF UpdateStamp, At, Goto, TypeOK, CallInv
  <2> QED
    BY <2>2, <2>3
<1>23. ASSUME NEW p \in Procs, DeleteProbe(p)
      PROVE  TypeInv'
  <2>1. call[p].key \in Keys
    BY <1>23, ValidKey DEF DeleteProbe, At, TypeOK, CallInv
  <2>2. FindKey(entries, call[p].key) \in Slots \cup {NoSlot}
    BY <2>1, FindKeyType
  <2>3. LastProbe(entries, call[p].key) \in Nat
    BY ProbeCountType
  <2>4. entries' \in [Slots -> EntryType] /\ entry_count' \in Nat
    BY <1>23, RemoveType, RemoveCountType DEF DeleteProbe, TypeOK, TableType
  <2>5. total_collisions' \in Counter /\ inspected' \in Counter
    BY <1>23, <2>3, CountType, CounterIsNat DEF DeleteProbe, CountCollisions, TypeOK
  <2>6. TypeOK'
    BY <1>23, <2>1, <2>2, <2>3, <2>4, <2>5
    DEF DeleteProbe, At, Goto, Answer, TypeOK, Labels, Replies, lock
  <2>7. CallInv'
    BY <1>23, <2>1, <2>2, <2>3, <2>4, <2>5 DEF DeleteProbe, At, Goto, TypeOK, CallInv
  <2> QED
    BY <2>6, <2>7
<1>24. ASSUME NEW p \in Procs, FindProbe(p)
      PROVE  TypeInv'
  <2>1. call[p].key \in Keys
    BY <1>24, ValidKey DEF FindProbe, At, TypeOK, CallInv
  <2>2. Index(FindSlot(entries, call[p].key)) \in Replies
    BY <2>1, FindSlotType DEF Index, Replies
  <2>3. TypeOK'
    BY <1>24, <2>1, <2>2 DEF FindProbe, At, Goto, Answer, TypeOK, Labels, header, lock, history
  <2>4. CallInv'
    BY <1>24, <2>1, <2>2 DEF FindProbe, At, Goto, TypeOK, CallInv
  <2> QED
    BY <2>3, <2>4
<1>25. ASSUME NEW p \in Procs, ReadSnapshot(p)
      PROVE  TypeInv'
  <2>1. {entries[s].key : s \in Occupied(entries)} \subseteq Keys \cup {NoKey}
    BY DEF TypeOK, EntryType, Occupied
  <2>2. Snapshot(entry_count, {entries[s].key : s \in Occupied(entries)}) \in Replies
    BY <2>1 DEF Snapshot, Replies, TypeOK
  <2>3. TypeOK'
    BY <1>25, <2>1, <2>2
    DEF ReadSnapshot, At, Goto, Answer, TypeOK, Labels, header, lock, history
  <2>4. CallInv'
    BY <1>25, <2>1, <2>2 DEF ReadSnapshot, At, Goto, TypeOK, CallInv
  <2> QED
    BY <2>3, <2>4
<1>26. ASSUME NEW p \in Procs, Crash(p)
      PROVE  TypeInv'
  BY <1>26 DEF Crash, TypeOK, CallInv, header, lock, local, history
<1>27. CASE Tick \/ StepBack
  BY <1>27 DEF Tick, StepBack, TypeOK, CallInv, header, lock, local, history
<1>28. CASE UNCHANGED vars
  BY <1>28 DEF vars, TypeOK, CallInv, header, lock, local, history
<1> QED
  BY <1>1, <1>2, <1>3, <1>4, <1>5, <1>6, <1>7, <1>8, <1>9, <1>10, <1>11, <1>12, <1>13, <1>14,
     <1>15, <1>16, <1>17, <1>18, <1>19, <1>20, <1>21, <1>22, <1>23, <1>24, <1>25, <1>26, <1>27,
     <1>28
  DEF Next, Step

\* Every variable keeps its type, whatever the clients do and whoever is killed.
THEOREM TypeCorrect == Spec => []TypeOK
<1>1. Spec => []TypeInv
  BY TypeInit, TypeStep, PTL DEF Spec
<1>2. TypeInv => TypeOK
  BY DEF TypeInv
<1> QED
  BY <1>1, <1>2, PTL

-----------------------------------------------------------------------------
\* The lock.

LockInv ==
    /\ LockMatchesCode
    /\ writer # NoProc => readers = {}

LEMMA LockInit == Init => LockInv
BY NoProcAssumption DEF Init, LockInv, LockMatchesCode, HoldsRead, HoldsWrite

LEMMA LockStep == TypeInv /\ LockInv /\ [Next]_vars => LockInv'
<1> SUFFICES ASSUME TypeInv, LockInv, [Next]_vars PROVE LockInv'
  OBVIOUS
<1> USE NoProcAssumption DEF TypeInv, TypeOK, CallInv, LockInv, LockMatchesCode,
                             HoldsRead, HoldsWrite, At, Goto
<1>1. ASSUME NEW p \in Procs, NEW c \in Calls, Invoke(p, c)
      PROVE  LockInv'
  BY <1>1 DEF Invoke, lock
<1>2. ASSUME NEW p \in Procs, EnterRead(p)
      PROVE  LockInv'
  BY <1>2 DEF EnterRead, RdLock, CanRead, lock, ReadOps
<1>3. ASSUME NEW p \in Procs, EnterWrite(p)
      PROVE  LockInv'
  BY <1>3 DEF EnterWrite, WrLock, CanWrite, lock, ReadOps
<1>4. ASSUME NEW p \in Procs, LockFails(p)
      PROVE  LockInv'
  BY <1>4 DEF LockFails, lock, ReadOps
<1>5. ASSUME NEW p \in Procs, RdUnlock(p)
      PROVE  LockInv'
  BY <1>5 DEF RdUnlock, lock, ReadOps
<1>6. ASSUME NEW p \in Procs, WrUnlock(p)
      PROVE  LockInv'
  BY <1>6 DEF WrUnlock, lock, ReadOps
<1>7. ASSUME NEW p \in Procs, GetProbe(p)
      PROVE  LockInv'
  BY <1>7 DEF GetProbe, lock, ReadOps
<1>8. ASSUME NEW p \in Procs, GetCopy(p)
      PROVE  LockInv'
  BY <1>8 DEF GetCopy, lock, ReadOps
<1>9. ASSUME NEW p \in Procs, MetricsLock(p)
      PROVE  LockInv'
  BY <1>9 DEF MetricsLock, WrLock, CanWrite, lock, ReadOps
<1>10. ASSUME NEW p \in Procs, AddGetMetrics(p)
      PROVE  LockInv'
  BY <1>10 DEF AddGetMetrics, lock, ReadOps
<1>11. ASSUME NEW p \in Procs, ExpiredLock(p)
      PROVE  LockInv'
  BY <1>11 DEF ExpiredLock, WrLock, CanWrite, lock, ReadOps
<1>12. ASSUME NEW p \in Procs, RemoveExpired(p)
      PROVE  LockInv'
  BY <1>12 DEF RemoveExpired, lock, ReadOps
<1>13. ASSUME NEW p \in Procs, PutProbe(p)
      PROVE  LockInv'
  BY <1>13 DEF PutProbe, PutSearch, lock, ReadOps
<1>14. ASSUME NEW p \in Procs, PutReclaim(p)
      PROVE  LockInv'
  BY <1>14 DEF PutReclaim, PutSearch, lock, ReadOps
<1>15. ASSUME NEW p \in Procs, PutEvict(p)
      PROVE  LockInv'
  BY <1>15 DEF PutEvict, PutSearch, lock, ReadOps
<1>16. ASSUME NEW p \in Procs, PutClaim(p)
      PROVE  LockInv'
  BY <1>16 DEF PutClaim, lock, ReadOps
<1>17. ASSUME NEW p \in Procs, PutStore(p)
      PROVE  LockInv'
  BY <1>17 DEF PutStore, lock, ReadOps
<1>18. ASSUME NEW p \in Procs, PutStamp(p)
      PROVE  LockInv'
  BY <1>18 DEF PutStamp, lock, ReadOps
<1>19. ASSUME NEW p \in Procs, UpdateProbe(p)
      PROVE  LockInv'
  BY <1>19 DEF UpdateProbe, lock, ReadOps
<1>20. ASSUME NEW p \in Procs, UpdateStore(p)
      PROVE  LockInv'
  BY <1>20 DEF UpdateStore, lock, ReadOps
<1>21. ASSUME NEW p \in Procs, UpdateStamp(p)
      PROVE  LockInv'
  BY <1>21 DEF UpdateStamp, lock, ReadOps
<1>22. ASSUME NEW p \in Procs, DeleteProbe(p)
      PROVE  LockInv'
  BY <1>22 DEF DeleteProbe, lock, ReadOps
<1>23. ASSUME NEW p \in Procs, FindProbe(p)
      PROVE  LockInv'
  BY <1>23 DEF FindProbe, lock, ReadOps
<1>24. ASSUME NEW p \in Procs, ReadSnapshot(p)
      PROVE  LockInv'
  BY <1>24 DEF ReadSnapshot, lock, ReadOps
<1>25. ASSUME NEW p \in Procs, Return(p)
      PROVE  LockInv'
  BY <1>25 DEF Return, lock, ReadOps
<1>26. ASSUME NEW p \in Procs, Crash(p)
      PROVE  LockInv'
  BY <1>26 DEF Crash, lock, local
<1>27. CASE Tick \/ StepBack
  BY <1>27 DEF Tick, StepBack, lock, local
<1>28. CASE UNCHANGED vars
  BY <1>28 DEF vars, lock, local
<1> QED
  BY <1>1, <1>2, <1>3, <1>4, <1>5, <1>6, <1>7, <1>8, <1>9, <1>10, <1>11, <1>12, <1>13, <1>14,
     <1>15, <1>16, <1>17, <1>18, <1>19, <1>20, <1>21, <1>22, <1>23, <1>24, <1>25, <1>26, <1>27,
     <1>28
  DEF Next, Step

\* The lock is held by exactly the calls that are between its acquisition and
\* its release.
THEOREM LockAlwaysMatchesCode == Spec => []LockMatchesCode
<1>1. LockInv => LockMatchesCode
  BY DEF LockInv
<1> QED
  BY <1>1, TypeInit, TypeStep, LockInit, LockStep, PTL DEF Spec

LEMMA ExclusionHolds == TypeInv /\ LockInv => Exclusion
BY NoProcAssumption DEF LockInv, LockMatchesCode, Exclusion

\* A call that holds the lock exclusively is alone.
THEOREM MutualExclusion == Spec => []Exclusion
BY ExclusionHolds, TypeInit, TypeStep, LockInit, LockStep, PTL DEF Spec

-----------------------------------------------------------------------------
\* Hits.

\* HitIsCurrent, and what it needs of the probe: the slot it found still holds
\* the key when the entry is copied.
HitInv ==
    /\ HitIsCurrent
    /\ \A p \in Procs : pc[p] = "copy" => Holds(entries[slot[p]], call[p].key)

LEMMA HitInit == Init => HitInv
BY DEF Init, HitInv, HitIsCurrent

LEMMA HitStep == TypeInv /\ LockInv /\ HitInv /\ [Next]_vars => HitInv'
<1> SUFFICES ASSUME TypeInv, LockInv, HitInv, [Next]_vars PROVE HitInv'
  OBVIOUS
<1>a. Exclusion
  BY ExclusionHolds
<1> USE DEF TypeInv, TypeOK, CallInv, HitInv, HitIsCurrent, At, Goto, Answer
<1>1. ASSUME NEW p \in Procs, NEW c \in Calls, Invoke(p, c)
      PROVE  HitInv'
  BY <1>1 DEF Invoke
<1>2. ASSUME NEW p \in Procs, EnterRead(p)
      PROVE  HitInv'
  BY <1>2 DEF EnterRead
<1>3. ASSUME NEW p \in Procs, EnterWrite(p)
      PROVE  HitInv'
  BY <1>3 DEF EnterWrite
<1>4. ASSUME NEW p \in Procs, LockFails(p)
      PROVE  HitInv'
  BY <1>4 DEF LockFails
<1>5. ASSUME NEW p \in Procs, RdUnlock(p)
      PROVE  HitInv'
  BY <1>5 DEF RdUnlock
<1>6. ASSUME NEW p \in Procs, WrUnlock(p)
      PROVE  HitInv'
  BY <1>6 DEF WrUnlock
<1>7. ASSUME NEW p \in Procs, MetricsLock(p)
      PROVE  HitInv'
  BY <1>7 DEF MetricsLock
<1>8. ASSUME NEW p \in Procs, AddGetMetrics(p)
      PROVE  HitInv'
  BY <1>8 DEF AddGetMetrics
<1>9. ASSUME NEW p \in Procs, ExpiredLock(p)
      PROVE  HitInv'
  BY <1>9 DEF ExpiredLock
<1>10. ASSUME NEW p \in Procs, PutProbe(p)
      PROVE  HitInv'
  BY <1>10 DEF PutProbe, PutSearch
<1>11. ASSUME NEW p \in Procs, PutClaim(p)
      PROVE  HitInv'
  BY <1>11 DEF PutClaim
<1>12. ASSUME NEW p \in Procs, Return(p)
      PROVE  HitInv'
  BY <1>12 DEF Return
<1>13. ASSUME NEW p \in Procs, GetProbe(p)
      PROVE  HitInv'
  <2>1. call[p].key \in Keys
    BY <1>13, ValidKey DEF GetProbe
  <2>2. FindKey(entries, call[p].key) # NoSlot
          => Holds(entries[FindKey(entries, call[p].key)], call[p].key)
    BY <2>1, FindKeyFinds
  <2> QED
    BY <1>13, <2>2 DEF GetProbe, No, Pending
<1>14. ASSUME NEW p \in Procs, GetCopy(p)
      PROVE  HitInv'
  BY <1>14 DEF GetCopy
<1>15. ASSUME NEW p \in Procs, FindProbe(p)
      PROVE  HitInv'
  BY <1>15 DEF FindProbe, Index
<1>16. ASSUME NEW p \in Procs, ReadSnapshot(p)
      PROVE  HitInv'
  BY <1>16 DEF ReadSnapshot, Snapshot
<1>17. ASSUME NEW p \in Procs, RemoveExpired(p)
      PROVE  HitInv'
  <2>1. \A q \in Procs : pc[q] \notin {"copy", "rd_unlock"}
    BY <1>17, <1>a DEF RemoveExpired, Exclusion, HoldsRead, HoldsWrite, ReadOps
  <2> QED
    BY <1>17, <2>1 DEF RemoveExpired
<1>18. ASSUME NEW p \in Procs, PutReclaim(p)
      PROVE  HitInv'
  <2>1. \A q \in Procs : pc[q] \notin {"copy", "rd_unlock"}
    BY <1>18, <1>a DEF PutReclaim, Exclusion, HoldsRead, HoldsWrite, ReadOps
  <2> QED
    BY <1>18, <2>1 DEF PutReclaim, PutSearch
<1>19. ASSUME NEW p \in Procs, PutEvict(p)
      PROVE  HitInv'
  <2>1. \A q \in Procs : pc[q] \notin {"copy", "rd_unlock"}
    BY <1>19, <1>a DEF PutEvict, Exclusion, HoldsRead, HoldsWrite, ReadOps
  <2> QED
    BY <1>19, <2>1 DEF PutEvict, PutSearch
<1>20. ASSUME NEW p \in Procs, PutStore(p)
      PROVE  HitInv'
  <2>1. \A q \in Procs : pc[q] \notin {"copy", "rd_unlock"}
    BY <1>20, <1>a DEF PutStore, Exclusion, HoldsRead, HoldsWrite, ReadOps
  <2> QED
    BY <1>20, <2>1 DEF PutStore
<1>21. ASSUME NEW p \in Procs, PutStamp(p)
      PROVE  HitInv'
  <2>1. \A q \in Procs : pc[q] \notin {"copy", "rd_unlock"}
    BY <1>21, <1>a DEF PutStamp, Exclusion, HoldsRead, HoldsWrite, ReadOps
  <2> QED
    BY <1>21, <2>1 DEF PutStamp
<1>22. ASSUME NEW p \in Procs, UpdateProbe(p)
      PROVE  HitInv'
  <2>1. \A q \in Procs : pc[q] \notin {"copy", "rd_unlock"}
    BY <1>22, <1>a DEF UpdateProbe, Exclusion, HoldsRead, HoldsWrite, ReadOps
  <2> QED
    BY <1>22, <2>1 DEF UpdateProbe
<1>23. ASSUME NEW p \in Procs, UpdateStore(p)
      PROVE  HitInv'
  <2>1. \A q \in Procs : pc[q] \notin {"copy", "rd_unlock"}
    BY <1>23, <1>a DEF UpdateStore, Exclusion, HoldsRead, HoldsWrite, ReadOps
  <2> QED
    BY <1>23, <2>1 DEF UpdateStore
<1>24. ASSUME NEW p \in Procs, UpdateStamp(p)
      PROVE  HitInv'
  <2>1. \A q \in Procs : pc[q] \notin {"copy", "rd_unlock"}
    BY <1>24, <1>a DEF UpdateStamp, Exclusion, HoldsRead, HoldsWrite, ReadOps
  <2> QED
    BY <1>24, <2>1 DEF UpdateStamp
<1>25. ASSUME NEW p \in Procs, DeleteProbe(p)
      PROVE  HitInv'
  <2>1. \A q \in Procs : pc[q] \notin {"copy", "rd_unlock"}
    BY <1>25, <1>a DEF DeleteProbe, Exclusion, HoldsRead, HoldsWrite, ReadOps
  <2> QED
    BY <1>25, <2>1 DEF DeleteProbe
<1>26. ASSUME NEW p \in Procs, Crash(p)
      PROVE  HitInv'
  BY <1>26 DEF Crash, local
<1>27. CASE Tick \/ StepBack
  BY <1>27 DEF Tick, StepBack, local
<1>28. CASE UNCHANGED vars
  BY <1>28 DEF vars, local
<1> QED
  BY <1>1, <1>2, <1>3, <1>4, <1>5, <1>6, <1>7, <1>8, <1>9, <1>10, <1>11, <1>12, <1>13, <1>14,
     <1>15, <1>16, <1>17, <1>18, <1>19, <1>20, <1>21, <1>22, <1>23, <1>24, <1>25, <1>26, <1>27,
     <1>28
  DEF Next, Step

\* A GET copies one entry of its key, whole and as the table holds it.
THEOREM HitsAreCurrent == Spec => []HitIsCurrent
<1>1. HitInv => HitIsCurrent
  BY DEF HitInv
<1> QED
  BY <1>1, TypeInit, TypeStep, LockInit, LockStep, HitInit, HitStep, PTL DEF Spec

-----------------------------------------------------------------------------
\* Death.

\* A process killed while it holds the lock exclusively freezes the region.
THEOREM DeadHolderFreezes == Spec => DeadHolderFreezesTable
<1>1. TypeInv /\ LockInv /\ [Next]_vars
        => [(writer \in dead) => (UNCHANGED region)]_vars
  <2> SUFFICES ASSUME TypeInv, LockInv, Next, writer \in dead
               PROVE  UNCHANGED region
    BY DEF vars, region, header, lock
  <2>1. writer # NoProc
    BY NoProcAssumption DEF TypeInv, TypeOK
  <2>2. \A p \in Procs \ dead : ~HoldsWrite(p) /\ ~HoldsRead(p)
    BY <2>1 DEF LockInv, LockMatchesCode, TypeInv
  <2>3. ~CanRead /\ ~CanWrite
    BY <2>1 DEF CanRead, CanWrite
  <2> USE DEF region, header, lock
  <2>4. ASSUME NEW p \in Procs, Step(p)
        PROVE  UNCHANGED region
    <3>1. p \notin dead
      BY <2>4 DEF Step, At, EnterRead, EnterWrite, RdUnlock, WrUnlock, Return,
         GetProbe, GetCopy, MetricsLock, AddGetMetrics, ExpiredLock, RemoveExpired,
         PutProbe, PutReclaim, PutEvict, PutClaim, PutStore, PutStamp,
         UpdateProbe, UpdateStore, UpdateStamp, DeleteProbe, FindProbe, ReadSnapshot
    <3>2. ~HoldsWrite(p) /\ ~HoldsRead(p)
      BY <2>2, <3>1
    <3>3. ~EnterRead(p) /\ ~EnterWrite(p) /\ ~MetricsLock(p) /\ ~ExpiredLock(p)
      BY <2>3 DEF EnterRead, EnterWrite, MetricsLock, ExpiredLock, RdLock, WrLock
    <3>4. pc[p] \in {"search", "copy", "rd_unlock", "metrics", "remove", "reclaim",
                     "evict", "claim", "store", "stamp", "wr_unlock"} => FALSE
      BY <3>2 DEF HoldsRead, HoldsWrite
    <3>5. Return(p)
      BY <2>4, <3>3, <3>4 DEF Step, At, RdUnlock, WrUnlock,
         GetProbe, GetCopy, AddGetMetrics, RemoveExpired,
         PutProbe, PutReclaim, PutEvict, PutClaim, PutStore, PutStamp,
         UpdateProbe, UpdateStore, UpdateStamp, DeleteProbe, FindProbe, ReadSnapshot
    <3> QED
      BY <3>5 DEF Return
  <2>5. ASSUME NEW p \in Procs, LockFails(p) \/ Crash(p)
        PROVE  UNCHANGED region
    BY <2>5 DEF LockFails, Crash
  <2>6. ASSUME NEW p \in Procs, NEW c \in Calls, Invoke(p, c)
        PROVE  UNCHANGED region
    BY <2>6 DEF Invoke
  <2>7. CASE Tick \/ StepBack
    BY <2>7 DEF Tick, StepBack
  <2> QED
    BY <2>4, <2>5, <2>6, <2>7 DEF Next
<1> QED
  BY <1>1, TypeInit, TypeStep, LockInit, LockStep, PTL DEF Spec, DeadHolderFreezesTable

-----------------------------------------------------------------------------
\* Every entry is found.

\* A PUT that is about to store does so in the slot that find_slot_internal
\* gives for the table as it is: nobody has changed the table since.
FoundInv ==
    /\ Reachable(entries)
    /\ \A p \in Procs : pc[p] = "claim" \/ (pc[p] = "store" /\ call[p].op = "PUT")
                            => slot[p] = FindSlot(entries, call[p].key)

LEMMA FoundInit == Init => FoundInv
<1> SUFFICES ASSUME Init PROVE FoundInv
  OBVIOUS
<1>1. Occupied(entries) = {}
  BY DEF Init, EmptyTable, Blank, Occupied
<1> QED
  BY <1>1 DEF Init, FoundInv, Reachable

LEMMA FoundStep == TypeInv /\ LockInv /\ FoundInv /\ [Next]_vars => FoundInv'
<1> SUFFICES ASSUME TypeInv, LockInv, FoundInv, [Next]_vars PROVE FoundInv'
  OBVIOUS
<1>a. Exclusion
  BY ExclusionHolds
<1>b. entries \in TableType
  BY DEF TypeInv, TypeOK, TableType
<1>c. pc \in [Procs -> Labels] /\ slot \in [Procs -> Slots \cup {NoSlot}]
      /\ call \in [Procs -> CallType]
  BY DEF TypeInv, TypeOK
<1>d. \A p \in Procs : pc[p] \in {"claim", "store", "stamp"} => slot[p] \in Slots
  BY DEF TypeInv, CallInv
<1>e. \A p \in Procs : HoldsWrite(p)
        => \A q \in Procs : q # p => pc[q] \notin {"claim", "store"}
  BY <1>a DEF Exclusion, HoldsWrite
\* Steps that leave the table alone and take no PUT to its store.
<1>f. ASSUME NEW p \in Procs, UNCHANGED <<entries, call>>,
             \A q \in Procs : q # p => pc'[q] = pc[q] /\ slot'[q] = slot[q],
             pc'[p] \notin {"claim", "store"}
      PROVE  FoundInv'
  BY <1>f DEF FoundInv
\* Steps of a writer that change the table.
<1>g. ASSUME NEW p \in Procs, HoldsWrite(p), call' = call, Reachable(entries'),
             \A q \in Procs : q # p => pc'[q] = pc[q],
             pc'[p] = "claim" \/ (pc'[p] = "store" /\ call[p].op = "PUT")
                => slot'[p] = FindSlot(entries', call[p].key)
      PROVE  FoundInv'
  BY <1>e, <1>g DEF FoundInv
<1>1. ASSUME NEW p \in Procs, NEW c \in Calls, Invoke(p, c)
      PROVE  FoundInv'
  BY <1>1, <1>c DEF FoundInv, Invoke, At, Goto
<1>2. ASSUME NEW p \in Procs,
             \/ EnterRead(p) \/ EnterWrite(p) \/ LockFails(p) \/ RdUnlock(p) \/ WrUnlock(p)
             \/ GetProbe(p) \/ GetCopy(p) \/ MetricsLock(p) \/ AddGetMetrics(p)
             \/ ExpiredLock(p) \/ FindProbe(p) \/ ReadSnapshot(p)
      PROVE  FoundInv'
  <2>1. entries' = entries /\ call' = call
    BY <1>2 DEF EnterRead, EnterWrite, LockFails, RdUnlock, WrUnlock, GetProbe, GetCopy,
                MetricsLock, AddGetMetrics, ExpiredLock, FindProbe, ReadSnapshot
  <2>2. \A q \in Procs : q # p => pc'[q] = pc[q] /\ slot'[q] = slot[q]
    BY <1>2, <1>c DEF EnterRead, EnterWrite, LockFails, RdUnlock, WrUnlock, GetProbe, GetCopy,
                MetricsLock, AddGetMetrics, ExpiredLock, FindProbe, ReadSnapshot, Goto
  <2>3. pc'[p] \notin {"claim", "store"}
    BY <1>2, <1>c DEF EnterRead, EnterWrite, LockFails, RdUnlock, WrUnlock, GetProbe, GetCopy,
                MetricsLock, AddGetMetrics, ExpiredLock, FindProbe, ReadSnapshot, Goto
  <2> QED
    BY <1>f, <2>1, <2>2, <2>3
<1>3. ASSUME NEW p \in Procs, Return(p)
      PROVE  FoundInv'
  BY <1>3, <1>c DEF FoundInv, Return, At, Goto
<1>4. ASSUME NEW p \in Procs, RemoveExpired(p)
      PROVE  FoundInv'
  <2>1. Reachable(entries')
    BY <1>4, <1>b, ReachableAfterRemove DEF RemoveExpired, FoundInv
  <2> QED
    BY <1>4, <1>c, <1>g, <2>1 DEF RemoveExpired, At, Goto, HoldsWrite
<1>5. ASSUME NEW p \in Procs, PutProbe(p)
      PROVE  FoundInv'
  <2>1. HoldsWrite(p)
    BY <1>5 DEF PutProbe, At, HoldsWrite, ReadOps
  <2> QED
    BY <1>5, <1>c, <1>g, <2>1 DEF PutProbe, PutSearch, Goto, FoundInv
<1>6. ASSUME NEW p \in Procs, PutReclaim(p)
      PROVE  FoundInv'
  <2>1. Reachable(entries')
    BY <1>6, ReachableAfterReclaim DEF PutReclaim, FoundInv
  <2> QED
    BY <1>6, <1>c, <1>g, <2>1 DEF PutReclaim, PutSearch, At, Goto, HoldsWrite
<1>7. ASSUME NEW p \in Procs, PutEvict(p)
      PROVE  FoundInv'
  <2>1. Reachable(entries')
    BY <1>7, <1>b, ReachableAfterRemove DEF PutEvict, FoundInv
  <2> QED
    BY <1>7, <1>c, <1>g, <2>1 DEF PutEvict, PutSearch, At, Goto, HoldsWrite
<1>8. ASSUME NEW p \in Procs, PutClaim(p)
      PROVE  FoundInv'
  BY <1>8, <1>c DEF PutClaim, At, Goto, FoundInv
<1>9. ASSUME NEW p \in Procs, PutStore(p)
      PROVE  FoundInv'
  <2> DEFINE k == call[p].key
             e == [entries[slot[p]] EXCEPT !.state = "OCCUPIED", !.key = k,
                                           !.value = call[p].value]
  <2>1. slot[p] = FindSlot(entries, k) /\ slot[p] \in Slots
    BY <1>9, <1>d DEF PutStore, At, FoundInv
  <2>2. k \in Keys
    BY <1>9, <1>c, ValidKey DEF PutStore, At, TypeInv, CallInv
  <2>3. entries[slot[p]] \in EntryType
    BY <1>b, <2>1 DEF TableType
  <2>4. e.state = "OCCUPIED" /\ e.key = k
    BY <2>3 DEF EntryType
  <2>5. entries' = [entries EXCEPT ![FindSlot(entries, k)] = e]
    BY <1>9, <2>1 DEF PutStore
  <2>6. Reachable(entries')
    <3> HIDE DEF k, e
    <3> QED
      BY <1>b, <2>1, <2>2, <2>4, <2>5, ReachableAfterStore DEF FoundInv
  <2> QED
    BY <1>9, <1>c, <1>g, <2>6 DEF PutStore, At, Goto, HoldsWrite
<1>10. ASSUME NEW p \in Procs, PutStamp(p) \/ UpdateStore(p) \/ UpdateStamp(p)
       PROVE  FoundInv'
  <2>1. \A e \in EntryType, n \in Nat, t \in TTLs :
           /\ [e EXCEPT !.timestamp = n, !.ttl = t].state = e.state
           /\ [e EXCEPT !.timestamp = n, !.ttl = t].key = e.key
    BY DEF EntryType
  <2>2. \A r \in Slots : entries[r] \in EntryType
    BY <1>b DEF TableType
  <2>3. call[p].value \in Values /\ call[p].ttl \in TTLs /\ now \in Nat
    BY <1>c DEF CallType, TypeInv, TypeOK
  <2>4. \A r \in Slots : entries'[r].state = entries[r].state /\ entries'[r].key = entries[r].key
    <3>1. CASE PutStamp(p)
      BY <1>b, <2>1, <2>2, <2>3, <3>1 DEF PutStamp, TableType
    <3>2. CASE UpdateStore(p)
      BY <1>b, <3>2 DEF UpdateStore, TableType, EntryType
    <3>3. CASE UpdateStamp(p)
      BY <1>b, <3>3 DEF UpdateStamp, TableType, EntryType
    <3> QED
      BY <1>10, <3>1, <3>2, <3>3
  <2>5. Reachable(entries')
    BY <2>4, ReachableSameKeys DEF FoundInv
  <2>6. pc'[p] \notin {"claim", "store"} /\ call' = call
        /\ \A q \in Procs : q # p => pc'[q] = pc[q]
    BY <1>10, <1>c DEF PutStamp, UpdateStore, UpdateStamp, Goto
  <2>7. HoldsWrite(p)
    BY <1>10 DEF PutStamp, UpdateStore, UpdateStamp, At, HoldsWrite
  <2> QED
    BY <1>g, <2>5, <2>6, <2>7
<1>11. ASSUME NEW p \in Procs, UpdateProbe(p)
       PROVE  FoundInv'
  <2>1. Reachable(entries')
    BY <1>11, <1>b, ReachableAfterRemove DEF UpdateProbe, FoundInv
  <2>2. HoldsWrite(p)
    BY <1>11 DEF UpdateProbe, At, HoldsWrite, ReadOps
  <2> QED
    BY <1>11, <1>c, <1>g, <2>1, <2>2 DEF UpdateProbe, Goto
<1>12. ASSUME NEW p \in Procs, DeleteProbe(p)
       PROVE  FoundInv'
  <2>1. Reachable(entries')
    BY <1>12, <1>b, ReachableAfterRemove DEF DeleteProbe, FoundInv
  <2>2. HoldsWrite(p)
    BY <1>12 DEF DeleteProbe, At, HoldsWrite, ReadOps
  <2> QED
    BY <1>12, <1>c, <1>g, <2>1, <2>2 DEF DeleteProbe, Goto
<1>13. ASSUME NEW p \in Procs, Crash(p)
       PROVE  FoundInv'
  BY <1>13 DEF Crash, local, FoundInv
<1>14. CASE Tick \/ StepBack
  BY <1>14 DEF Tick, StepBack, local, FoundInv
<1>15. CASE UNCHANGED vars
  BY <1>15 DEF vars, local, FoundInv
<1> QED
  BY <1>1, <1>2, <1>3, <1>4, <1>5, <1>6, <1>7, <1>8, <1>9, <1>10, <1>11, <1>12, <1>13,
     <1>14, <1>15 DEF Next, Step

\* Probing for the key of an entry finds that entry, after any history of
\* puts, removals, reclaims and evictions by any number of processes.
THEOREM EveryEntryIsFound == Spec => []EveryEntryFound
<1>1. FoundInv => EveryEntryFound
  BY DEF FoundInv, Reachable, EveryEntryFound
<1> QED
  BY <1>1, TypeInit, TypeStep, LockInit, LockStep, FoundInit, FoundStep, PTL DEF Spec

-----------------------------------------------------------------------------
\* The count of entries.

\* The slots that a call has counted and not filled yet, or is overwriting.
Filling == {slot[p] : p \in {q \in Procs : pc[q] = "store"}}

\* CountExact; and an UPDATE overwrites a slot that is in use.
CountInv ==
    /\ entry_count = Cardinality(Occupied(entries) \cup Filling)
    /\ \A p \in Procs : pc[p] = "store" /\ call[p].op = "UPDATE"
                            => slot[p] \in Occupied(entries)

LEMMA CountInit == Init => CountInv
<1> SUFFICES ASSUME Init PROVE CountInv
  OBVIOUS
<1>1. Occupied(entries) \cup Filling = {}
  BY DEF Init, EmptyTable, Blank, Occupied, Filling
<1> QED
  BY <1>1, FS_EmptySet DEF Init, CountInv

LEMMA CountStep == TypeInv /\ LockInv /\ CountInv /\ [Next]_vars => CountInv'
<1> SUFFICES ASSUME TypeInv, LockInv, CountInv, [Next]_vars PROVE CountInv'
  OBVIOUS
<1>a. Exclusion
  BY ExclusionHolds
<1>b. entries \in TableType
  BY DEF TypeInv, TypeOK, TableType
<1>c. pc \in [Procs -> Labels] /\ slot \in [Procs -> Slots \cup {NoSlot}]
      /\ call \in [Procs -> CallType]
  BY DEF TypeInv, TypeOK
<1>d. \A p \in Procs : pc[p] = "store" => slot[p] \in Slots
  BY DEF TypeInv, CallInv
<1>e. \A p \in Procs : HoldsWrite(p) => \A q \in Procs : q # p => pc[q] # "store"
  BY <1>a DEF Exclusion, HoldsWrite
<1>f. \A p \in Procs : HoldsWrite(p) /\ pc[p] # "store"
        => entry_count = Cardinality(Occupied(entries))
  <2>1. ASSUME NEW p \in Procs, HoldsWrite(p), pc[p] # "store"
        PROVE  Filling = {}
    BY <1>e, <2>1 DEF Filling
  <2> QED
    BY <2>1 DEF CountInv
\* Steps that leave the table, the count and the fillings alone.
<1>g. ASSUME NEW p \in Procs, UNCHANGED <<entries, entry_count>>,
             pc[p] # "store", pc'[p] # "store",
             \A q \in Procs : q # p => pc'[q] = pc[q] /\ slot'[q] = slot[q] /\ call'[q] = call[q]
      PROVE  CountInv'
  <2>1. Filling' = Filling
    BY <1>g DEF Filling
  <2> QED
    BY <1>g, <2>1 DEF CountInv
\* Steps of a writer after which nothing is being filled.
<1>h. ASSUME NEW p \in Procs, HoldsWrite(p), pc'[p] # "store",
             entry_count' = Cardinality(Occupied(entries')),
             \A q \in Procs : q # p => pc'[q] = pc[q]
      PROVE  CountInv'
  <2>1. \A q \in Procs : pc'[q] # "store"
    BY <1>e, <1>h
  <2>2. Filling' = {}
    BY <2>1 DEF Filling
  <2> QED
    BY <1>h, <2>1, <2>2 DEF CountInv
\* Steps of a writer that is about to fill slot'[p].
<1>i. ASSUME NEW p \in Procs, HoldsWrite(p), pc'[p] = "store", call' = call,
             entry_count' = Cardinality(Occupied(entries') \cup {slot'[p]}),
             call[p].op = "UPDATE" => slot'[p] \in Occupied(entries'),
             \A q \in Procs : q # p => pc'[q] = pc[q]
      PROVE  CountInv'
  <2>1. \A q \in Procs : q # p => pc'[q] # "store"
    BY <1>e, <1>i
  <2>2. Filling' = {slot'[p]}
    BY <1>i, <2>1 DEF Filling
  <2> QED
    BY <1>i, <2>1, <2>2 DEF CountInv
\* At most one entry is removed, and if so, from a slot in use.
<1>j. ASSUME NEW p \in Procs, HoldsWrite(p), pc[p] # "store",
             NEW s \in Slots, NEW gone \in BOOLEAN, gone => s \in Occupied(entries),
             entries' = IF gone THEN Remove(entries, s) ELSE entries,
             entry_count' = RemoveCount(entry_count, IF gone THEN 1 ELSE 0)
      PROVE  entry_count' = Cardinality(Occupied(entries'))
  <2>1. entry_count = Cardinality(Occupied(entries)) /\ entry_count \in Nat
    BY <1>f, <1>j, OccupiedFinite
  <2>2. CASE gone
    BY <1>b, <1>j, <2>1, <2>2, RemoveCounted
  <2>3. CASE ~gone
    BY <1>j, <2>1, <2>3 DEF RemoveCount
  <2> QED
    BY <2>2, <2>3
\* What a search finds is in use.
<1>k. \A k \in Keys : FindKey(entries, k) # NoSlot
        => FindKey(entries, k) \in Slots /\ FindKey(entries, k) \in Occupied(entries)
  BY FindKeyType, FindKeyFinds DEF Holds, Occupied
<1>l. \A p \in Procs : pc[p] \notin {"idle", "done"} /\ call[p].op # "SNAPSHOT"
        => call[p].key \in Keys
  BY <1>c, ValidKey DEF TypeInv, CallInv
<1>1. ASSUME NEW p \in Procs, NEW c \in Calls, Invoke(p, c)
      PROVE  CountInv'
  BY <1>1, <1>c, <1>g DEF Invoke, At, Goto, header
<1>2. ASSUME NEW p \in Procs,
             \/ EnterRead(p) \/ EnterWrite(p) \/ LockFails(p) \/ RdUnlock(p) \/ WrUnlock(p)
             \/ GetProbe(p) \/ GetCopy(p) \/ MetricsLock(p) \/ AddGetMetrics(p)
             \/ ExpiredLock(p) \/ FindProbe(p) \/ ReadSnapshot(p)
      PROVE  CountInv'
  <2>1. entries' = entries /\ entry_count' = entry_count /\ call' = call
    BY <1>2 DEF EnterRead, EnterWrite, LockFails, RdUnlock, WrUnlock, GetProbe, GetCopy,
                MetricsLock, AddGetMetrics, ExpiredLock, FindProbe, ReadSnapshot, header
  <2>2. \A q \in Procs : q # p => pc'[q] = pc[q] /\ slot'[q] = slot[q]
    BY <1>2, <1>c DEF EnterRead, EnterWrite, LockFails, RdUnlock, WrUnlock, GetProbe, GetCopy,
                MetricsLock, AddGetMetrics, ExpiredLock, FindProbe, ReadSnapshot, Goto
  <2>3. pc[p] # "store" /\ pc'[p] # "store"
    BY <1>2, <1>c DEF EnterRead, EnterWrite, LockFails, RdUnlock, WrUnlock, GetProbe, GetCopy,
                MetricsLock, AddGetMetrics, ExpiredLock, FindProbe, ReadSnapshot, At, Goto
  <2> QED
    BY <1>g, <2>1, <2>2, <2>3
<1>3. ASSUME NEW p \in Procs, Return(p)
      PROVE  CountInv'
  BY <1>3, <1>c, <1>g DEF Return, At, Goto, header
<1>4. ASSUME NEW p \in Procs, RemoveExpired(p)
      PROVE  CountInv'
  <2> DEFINE s    == FindKey(entries, call[p].key)
             gone == s # NoSlot /\ Expired(entries[s], now)
  <2>1. HoldsWrite(p) /\ pc[p] # "store"
    BY <1>4 DEF RemoveExpired, At, HoldsWrite
  <2>2. call[p].key \in Keys
    BY <1>4, <1>l DEF RemoveExpired, At, TypeInv, CallInv
  <2>3. entry_count' = Cardinality(Occupied(entries'))
    <3>1. CASE s = NoSlot
      <4>1. entries' = entries /\ entry_count' = RemoveCount(entry_count, 0)
        BY <1>4, <3>1 DEF RemoveExpired
      <4> QED
        BY <1>f, <2>1, <4>1, OccupiedFinite DEF RemoveCount
    <3>2. CASE s # NoSlot
      <4>1. s \in Slots /\ (gone => s \in Occupied(entries)) /\ gone \in BOOLEAN
        BY <1>k, <2>2, <3>2
      <4>2. /\ entries' = IF gone THEN Remove(entries, s) ELSE entries
            /\ entry_count' = RemoveCount(entry_count, IF gone THEN 1 ELSE 0)
        BY <1>4 DEF RemoveExpired
      <4> HIDE DEF s, gone
      <4> QED
        BY <1>j, <2>1, <4>1, <4>2
    <3> QED
      BY <3>1, <3>2
  <2>4. pc'[p] # "store" /\ \A q \in Procs : q # p => pc'[q] = pc[q]
    BY <1>4, <1>c DEF RemoveExpired, Goto
  <2> QED
    BY <1>h, <2>1, <2>3, <2>4
<1>5. ASSUME NEW p \in Procs, PutProbe(p)
      PROVE  CountInv'
  BY <1>5, <1>c, <1>g DEF PutProbe, PutSearch, At, Goto
<1>6. ASSUME NEW p \in Procs, PutReclaim(p)
      PROVE  CountInv'
  <2>1. HoldsWrite(p) /\ pc[p] # "store"
    BY <1>6 DEF PutReclaim, At, HoldsWrite
  <2>2. entry_count' = Cardinality(Occupied(entries'))
    BY <1>6, <1>f, <2>1, ReclaimCounted DEF PutReclaim
  <2>3. pc'[p] # "store" /\ \A q \in Procs : q # p => pc'[q] = pc[q]
    BY <1>6, <1>c DEF PutReclaim, PutSearch, Goto
  <2> QED
    BY <1>h, <2>1, <2>2, <2>3
<1>7. ASSUME NEW p \in Procs, PutEvict(p)
      PROVE  CountInv'
  <2>1. HoldsWrite(p) /\ pc[p] # "store"
    BY <1>7 DEF PutEvict, At, HoldsWrite
  <2>2. entry_count' = Cardinality(Occupied(entries'))
    <3>1. CASE Occupied(entries) = {}
      BY <1>7, <1>f, <2>1, <3>1 DEF PutEvict
    <3>2. CASE Occupied(entries) # {}
      BY <1>7, <1>b, <1>f, <2>1, <3>2, OldestSlotIsOldest, RemoveCounted DEF PutEvict
    <3> QED
      BY <3>1, <3>2
  <2>3. pc'[p] # "store" /\ \A q \in Procs : q # p => pc'[q] = pc[q]
    BY <1>7, <1>c DEF PutEvict, PutSearch, Goto
  <2> QED
    BY <1>h, <2>1, <2>2, <2>3
<1>8. ASSUME NEW p \in Procs, PutClaim(p)
      PROVE  CountInv'
  <2>1. HoldsWrite(p) /\ pc[p] # "store" /\ slot[p] \in Slots /\ call[p].op = "PUT"
    BY <1>8 DEF PutClaim, At, HoldsWrite, TypeInv, CallInv
  <2>2. slot[p] \in Occupied(entries) <=> entries[slot[p]].state = "OCCUPIED"
    BY <2>1 DEF Occupied
  <2>3. entry_count' = Cardinality(Occupied(entries) \cup {slot[p]})
    BY <1>8, <1>f, <2>1, <2>2, OccupiedFinite, FS_AddElement DEF PutClaim
  <2>4. pc'[p] = "store" /\ slot' = slot /\ call' = call /\ entries' = entries
        /\ \A q \in Procs : q # p => pc'[q] = pc[q]
    BY <1>8, <1>c DEF PutClaim, Goto
  <2> QED
    BY <1>i, <2>1, <2>3, <2>4
<1>9. ASSUME NEW p \in Procs, PutStore(p) \/ UpdateStore(p)
      PROVE  CountInv'
  <2>1. HoldsWrite(p) /\ pc[p] = "store" /\ slot[p] \in Slots
    BY <1>9, <1>d DEF PutStore, UpdateStore, At, HoldsWrite
  <2>2. Filling = {slot[p]}
    BY <1>e, <2>1 DEF Filling
  <2>3. Occupied(entries') = Occupied(entries) \cup {slot[p]}
    <3>1. CASE PutStore(p)
      <4>1. \A e \in EntryType, k \in Keys, v \in Values :
               [e EXCEPT !.state = "OCCUPIED", !.key = k, !.value = v].state = "OCCUPIED"
        BY DEF EntryType
      <4>2. entries[slot[p]] \in EntryType /\ call[p].key \in Keys /\ call[p].value \in Values
        BY <1>b, <1>c, <1>l, <2>1, <3>1 DEF TableType, PutStore, CallType
      <4>3. entries'[slot[p]].state = "OCCUPIED"
            /\ \A r \in Slots : r # slot[p] => entries'[r] = entries[r]
        BY <1>b, <2>1, <3>1, <4>1, <4>2 DEF PutStore, TableType
      <4> QED
        BY <2>1, <4>3 DEF Occupied
    <3>2. CASE UpdateStore(p)
      <4>1. slot[p] \in Occupied(entries)
        BY <2>1, <3>2 DEF UpdateStore, CountInv
      <4>2. \A r \in Slots : entries'[r].state = entries[r].state
        BY <1>b, <3>2 DEF UpdateStore, TableType, EntryType
      <4> QED
        BY <4>1, <4>2 DEF Occupied
    <3> QED
      BY <1>9, <3>1, <3>2
  <2>4. entry_count' = Cardinality(Occupied(entries'))
    BY <1>9, <2>2, <2>3 DEF CountInv, PutStore, UpdateStore, header
  <2>5. pc'[p] # "store" /\ \A q \in Procs : q # p => pc'[q] = pc[q]
    BY <1>9, <1>c DEF PutStore, UpdateStore, Goto
  <2> QED
    BY <1>h, <2>1, <2>4, <2>5
<1>10. ASSUME NEW p \in Procs, PutStamp(p) \/ UpdateStamp(p)
       PROVE  CountInv'
  <2>1. HoldsWrite(p) /\ pc[p] # "store"
    BY <1>10 DEF PutStamp, UpdateStamp, At, HoldsWrite
  <2>2. \A r \in Slots : entries'[r].state = entries[r].state
    <3>1. CASE PutStamp(p)
      <4>1. \A e \in EntryType, n \in Nat, t \in TTLs :
               [e EXCEPT !.timestamp = n, !.ttl = t].state = e.state
        BY DEF EntryType
      <4>2. call[p].ttl \in TTLs /\ now \in Nat
        BY <1>c DEF CallType, TypeInv, TypeOK
      <4> QED
        BY <1>b, <3>1, <4>1, <4>2 DEF PutStamp, TableType
    <3>2. CASE UpdateStamp(p)
      BY <1>b, <3>2 DEF UpdateStamp, TableType, EntryType
    <3> QED
      BY <1>10, <3>1, <3>2
  <2>3. Occupied(entries') = Occupied(entries) /\ entry_count' = entry_count
    BY <1>10, <2>2 DEF Occupied, PutStamp, UpdateStamp, header
  <2>4. pc'[p] # "store" /\ \A q \in Procs : q # p => pc'[q] = pc[q]
    BY <1>10, <1>c DEF PutStamp, UpdateStamp, Goto
  <2> QED
    BY <1>f, <1>h, <2>1, <2>3, <2>4
<1>11. ASSUME NEW p \in Procs, UpdateProbe(p)
       PROVE  CountInv'
  <2> DEFINE s       == FindKey(entries, call[p].key)
             expired == s # NoSlot /\ Expired(entries[s], now)
  <2>1. HoldsWrite(p) /\ pc[p] # "store" /\ call[p].key \in Keys
    BY <1>11, <1>l DEF UpdateProbe, At, HoldsWrite, ReadOps
  <2>2. /\ entries' = IF expired THEN Remove(entries, s) ELSE entries
        /\ entry_count' = RemoveCount(entry_count, IF expired THEN 1 ELSE 0)
        /\ slot'[p] = s /\ call' = call
        /\ \A q \in Procs : q # p => pc'[q] = pc[q]
        /\ pc'[p] = IF s = NoSlot \/ expired THEN "wr_unlock" ELSE "store"
    BY <1>11, <1>c DEF UpdateProbe, Goto
  <2>3. entry_count' = Cardinality(Occupied(entries'))
    <3>1. CASE s = NoSlot
      BY <1>f, <2>1, <2>2, <3>1, OccupiedFinite DEF RemoveCount
    <3>2. CASE s # NoSlot
      <4>1. s \in Slots /\ (expired => s \in Occupied(entries)) /\ expired \in BOOLEAN
        BY <1>k, <2>1, <3>2
      <4> HIDE DEF s, expired
      <4> QED
        BY <1>j, <2>1, <2>2, <4>1
    <3> QED
      BY <3>1, <3>2
  <2>4. CASE s = NoSlot \/ expired
    BY <1>h, <2>1, <2>2, <2>3, <2>4
  <2>5. CASE ~(s = NoSlot \/ expired)
    <3>1. s \in Occupied(entries) /\ entries' = entries
      BY <1>k, <2>1, <2>2, <2>5
    <3>2. Occupied(entries') \cup {slot'[p]} = Occupied(entries')
      BY <2>2, <3>1
    <3> HIDE DEF s, expired
    <3> QED
      BY <1>i, <2>1, <2>2, <2>3, <2>5, <3>1, <3>2
  <2> QED
    BY <2>4, <2>5
<1>12. ASSUME NEW p \in Procs, DeleteProbe(p)
       PROVE  CountInv'
  <2> DEFINE s    == FindKey(entries, call[p].key)
             gone == s # NoSlot
  <2>1. HoldsWrite(p) /\ pc[p] # "store" /\ call[p].key \in Keys
    BY <1>12, <1>l DEF DeleteProbe, At, HoldsWrite, ReadOps
  <2>2. /\ entries' = IF gone THEN Remove(entries, s) ELSE entries
        /\ entry_count' = RemoveCount(entry_count, IF gone THEN 1 ELSE 0)
        /\ pc'[p] # "store" /\ \A q \in Procs : q # p => pc'[q] = pc[q]
    BY <1>12, <1>c DEF DeleteProbe, Goto
  <2>3. entry_count' = Cardinality(Occupied(entries'))
    <3>1. CASE s = NoSlot
      BY <1>f, <2>1, <2>2, <3>1, OccupiedFinite DEF RemoveCount
    <3>2. CASE s # NoSlot
      <4>1. s \in Slots /\ (gone => s \in Occupied(entries)) /\ gone \in BOOLEAN
        BY <1>k, <2>1, <3>2
      <4> HIDE DEF s, gone
      <4> QED
        BY <1>j, <2>1, <2>2, <4>1
    <3> QED
      BY <3>1, <3>2
  <2> QED
    BY <1>h, <2>1, <2>2, <2>3
<1>13. ASSUME NEW p \in Procs, Crash(p)
       PROVE  CountInv'
  BY <1>13 DEF Crash, local, header, CountInv, Filling
<1>14. CASE Tick \/ StepBack
  BY <1>14 DEF Tick, StepBack, local, header, CountInv, Filling
<1>15. CASE UNCHANGED vars
  BY <1>15 DEF vars, local, header, CountInv, Filling
<1> QED
  BY <1>1, <1>2, <1>3, <1>4, <1>5, <1>6, <1>7, <1>8, <1>9, <1>10, <1>11, <1>12, <1>13,
     <1>14, <1>15 DEF Next, Step

\* header->entry_count is the number of entries, the one being stored included:
\* no path adds or takes one too many, and the decrement never saturates.
THEOREM CountIsExact == Spec => []CountExact
<1>1. CountInv => CountExact
  BY DEF CountInv, CountExact, Filling
<1> QED
  BY <1>1, TypeInit, TypeStep, LockInit, LockStep, CountInit, CountStep, PTL DEF Spec

-----------------------------------------------------------------------------
\* PUTs and full tables.

\* A PUT that is about to evict has found no slot in the table as it is;
\* and which operations end under which lock.
FullInv ==
    /\ \A p \in Procs : pc[p] = "evict" => FindSlot(entries, call[p].key) = NoSlot
    /\ \A p \in Procs : pc[p] = "rd_unlock" => call[p].op \in ReadOps

LEMMA FullInit == Init => FullInv
BY DEF Init, FullInv

LEMMA FullStep == TypeInv /\ LockInv /\ FullInv /\ [Next]_vars => FullInv'
<1> SUFFICES ASSUME TypeInv, LockInv, FullInv, [Next]_vars PROVE FullInv'
  OBVIOUS
<1>a. Exclusion
  BY ExclusionHolds
<1>b. /\ pc \in [Procs -> Labels] /\ slot \in [Procs -> Slots \cup {NoSlot}]
      /\ call \in [Procs -> CallType]
  BY DEF TypeInv, TypeOK
<1>c. \A p \in Procs : HoldsWrite(p)
        => \A q \in Procs : q # p => pc[q] # "evict"
  BY <1>a DEF Exclusion, HoldsWrite
<1>d. \A p \in Procs : pc[p] = "copy" => call[p].op = "GET"
  BY DEF TypeInv, CallInv
\* Steps that leave the table alone and take no PUT to its eviction.
<1>e. ASSUME NEW p \in Procs, UNCHANGED <<entries, call>>,
             \A q \in Procs : q # p => pc'[q] = pc[q],
             pc'[p] # "evict",
             pc'[p] = "rd_unlock" => call[p].op \in ReadOps
      PROVE  FullInv'
  BY <1>e DEF FullInv
\* Steps of a writer.
<1>f. ASSUME NEW p \in Procs, HoldsWrite(p), call' = call,
             \A q \in Procs : q # p => pc'[q] = pc[q],
             pc'[p] # "rd_unlock",
             pc'[p] = "evict" => FindSlot(entries', call[p].key) = NoSlot
      PROVE  FullInv'
  BY <1>c, <1>f DEF FullInv
<1>1. ASSUME NEW p \in Procs, NEW c \in Calls, Invoke(p, c)
      PROVE  FullInv'
  BY <1>1, <1>b DEF FullInv, Invoke, At, Goto
<1>2. ASSUME NEW p \in Procs,
             \/ EnterRead(p) \/ EnterWrite(p) \/ LockFails(p) \/ RdUnlock(p) \/ WrUnlock(p)
             \/ GetProbe(p) \/ GetCopy(p) \/ MetricsLock(p) \/ AddGetMetrics(p)
             \/ ExpiredLock(p) \/ FindProbe(p) \/ ReadSnapshot(p)
      PROVE  FullInv'
  <2>1. entries' = entries /\ call' = call
    BY <1>2 DEF EnterRead, EnterWrite, LockFails, RdUnlock, WrUnlock, GetProbe, GetCopy,
                MetricsLock, AddGetMetrics, ExpiredLock, FindProbe, ReadSnapshot
  <2>2. \A q \in Procs : q # p => pc'[q] = pc[q]
    BY <1>2, <1>b DEF EnterRead, EnterWrite, LockFails, RdUnlock, WrUnlock, GetProbe, GetCopy,
                MetricsLock, AddGetMetrics, ExpiredLock, FindProbe, ReadSnapshot, Goto
  <2>3. pc'[p] # "evict" /\ (pc'[p] = "rd_unlock" => call[p].op \in ReadOps)
    BY <1>2, <1>b, <1>d DEF EnterRead, EnterWrite, LockFails, RdUnlock, WrUnlock, GetProbe,
                GetCopy, MetricsLock, AddGetMetrics, ExpiredLock, FindProbe, ReadSnapshot,
                At, Goto, ReadOps
  <2> QED
    BY <1>e, <2>1, <2>2, <2>3
<1>3. ASSUME NEW p \in Procs, Return(p)
      PROVE  FullInv'
  BY <1>3, <1>b DEF FullInv, Return, At, Goto
<1>4. ASSUME NEW p \in Procs,
             RemoveExpired(p) \/ PutClaim(p) \/ PutStore(p) \/ PutStamp(p)
               \/ UpdateStore(p) \/ UpdateStamp(p)
      PROVE  FullInv'
  <2>1. HoldsWrite(p) /\ call' = call
    BY <1>4 DEF RemoveExpired, PutClaim, PutStore, PutStamp, UpdateStore, UpdateStamp,
                At, HoldsWrite
  <2>2. /\ \A q \in Procs : q # p => pc'[q] = pc[q]
        /\ pc'[p] \notin {"rd_unlock", "evict"}
    BY <1>4, <1>b DEF RemoveExpired, PutClaim, PutStore, PutStamp, UpdateStore, UpdateStamp,
                Goto
  <2> QED
    BY <1>f, <2>1, <2>2
<1>5. ASSUME NEW p \in Procs, PutProbe(p) \/ UpdateProbe(p) \/ DeleteProbe(p)
      PROVE  FullInv'
  <2>1. HoldsWrite(p) /\ call' = call
    BY <1>5 DEF PutProbe, UpdateProbe, DeleteProbe, At, HoldsWrite, ReadOps
  <2>2. /\ \A q \in Procs : q # p => pc'[q] = pc[q]
        /\ pc'[p] \notin {"rd_unlock", "evict"}
    BY <1>5, <1>b DEF PutProbe, PutSearch, UpdateProbe, DeleteProbe, Goto
  <2> QED
    BY <1>f, <2>1, <2>2
<1>6. ASSUME NEW p \in Procs, PutReclaim(p)
      PROVE  FullInv'
  BY <1>6, <1>b, <1>f DEF PutReclaim, PutSearch, At, Goto, HoldsWrite
<1>7. ASSUME NEW p \in Procs, PutEvict(p)
      PROVE  FullInv'
  BY <1>7, <1>b, <1>f DEF PutEvict, PutSearch, At, Goto, HoldsWrite
<1>8. ASSUME NEW p \in Procs, Crash(p)
      PROVE  FullInv'
  BY <1>8 DEF Crash, local, FullInv
<1>9. CASE Tick \/ StepBack \/ UNCHANGED vars
  BY <1>9 DEF Tick, StepBack, vars, local, FullInv
<1> QED
  BY <1>1, <1>2, <1>3, <1>4, <1>5, <1>6, <1>7, <1>8, <1>9 DEF Next, Step

LEMMA FullAlways == Spec => [](TypeInv /\ LockInv /\ FoundInv /\ FullInv)
BY TypeInit, TypeStep, LockInit, LockStep, FoundInit, FoundStep, FullInit, FullStep, PTL
DEF Spec

\* A PUT that reaches its eviction finds every slot taken by another key.
LEMMA EvictsFromFull ==
  ASSUME TypeInv, FullInv, NEW p \in Procs, pc[p] = "evict", NEW s \in Slots
  PROVE  entries[s].state = "OCCUPIED" /\ entries[s].key # call[p].key
<1>1. call[p].key \in Keys
  BY ValidKey DEF TypeInv, TypeOK, CallInv
<1> QED
  BY <1>1, NoSlotWhenFull DEF FullInv, TypeInv, TypeOK, TableType

\* It takes the oldest entry, and then it has a slot.
LEMMA EvictionMakesRoom ==
  ASSUME TypeInv, FullInv, NEW p \in Procs, pc[p] = "evict"
  PROVE  /\ OldestSlot(entries) \in Occupied(entries)
         /\ FindSlot(Remove(entries, OldestSlot(entries)), call[p].key) # NoSlot
<1> DEFINE o == OldestSlot(entries)
<1>1. call[p].key \in Keys /\ entries \in TableType
  BY ValidKey DEF TypeInv, TypeOK, CallInv, TableType
<1>2. 0 \in Slots
  BY CapacityAssumption DEF Slots
<1>3. Occupied(entries) # {}
  BY <1>2, EvictsFromFull DEF Occupied
<1>4. o \in Occupied(entries) /\ o \in Slots
  BY <1>1, <1>3, OldestSlotIsOldest DEF Occupied
<1>5. Remove(entries, o) \in TableType
  BY <1>1, RemoveType
<1>6. Remove(entries, o)[o].state # "OCCUPIED"
  BY <1>1, <1>4 DEF Remove, Blank, TableType
<1>7. FindSlot(Remove(entries, o), call[p].key) # NoSlot
  <2> HIDE DEF o
  <2> QED
    BY <1>1, <1>4, <1>5, <1>6, NoSlotWhenFull
<1> QED
  BY <1>4, <1>7

\* A PUT is answered with success once it has stored; its only other way out,
\* from the eviction, is closed by EvictionMakesRoom.
LEMMA AcceptInit == Init => PutAccepted
BY DEF Init, PutAccepted

LEMMA AcceptStep ==
  ASSUME ~LockCanFail, TypeInv, LockInv, FullInv, PutAccepted, [Next]_vars
  PROVE  PutAccepted'
<1>a. /\ pc \in [Procs -> Labels] /\ call \in [Procs -> CallType]
      /\ reply \in [Procs -> Replies] /\ slot \in [Procs -> Slots \cup {NoSlot}]
  BY DEF TypeInv, TypeOK
<1>b. \A p \in Procs :
         /\ pc[p] \in {"copy", "metrics", "remove"} => call[p].op = "GET"
         /\ pc[p] = "rd_unlock" => call[p].op \in ReadOps
  BY DEF TypeInv, CallInv, FullInv
\* Steps of p that do not end a PUT, or end it with success.
<1>c. ASSUME NEW p \in Procs, call' = call,
             \A q \in Procs : q # p => pc'[q] = pc[q] /\ reply'[q] = reply[q],
             pc'[p] \in {"wr_unlock", "done"} /\ call[p].op = "PUT" => reply'[p] = Yes
      PROVE  PutAccepted'
  BY <1>c DEF PutAccepted
<1>1. ASSUME NEW p \in Procs, NEW c \in Calls, Invoke(p, c)
      PROVE  PutAccepted'
  BY <1>1, <1>a DEF PutAccepted, Invoke, At, Goto, Answer
<1>2. ASSUME NEW p \in Procs, Return(p)
      PROVE  PutAccepted'
  BY <1>2, <1>a DEF PutAccepted, Return, At, Goto, Answer
<1>3. ASSUME NEW p \in Procs, EnterRead(p) \/ EnterWrite(p) \/ MetricsLock(p) \/ ExpiredLock(p)
      PROVE  PutAccepted'
  BY <1>3, <1>a, <1>c DEF EnterRead, EnterWrite, MetricsLock, ExpiredLock, Goto
<1>4. ASSUME NEW p \in Procs, RdUnlock(p)
      PROVE  PutAccepted'
  BY <1>4, <1>a, <1>b, <1>c DEF RdUnlock, At, Goto, ReadOps
<1>5. ASSUME NEW p \in Procs, WrUnlock(p)
      PROVE  PutAccepted'
  BY <1>5, <1>a DEF PutAccepted, WrUnlock, At, Goto
<1>6. ASSUME NEW p \in Procs,
             GetProbe(p) \/ GetCopy(p) \/ FindProbe(p) \/ ReadSnapshot(p)
      PROVE  PutAccepted'
  BY <1>6, <1>a, <1>c DEF GetProbe, GetCopy, FindProbe, ReadSnapshot, Goto, Answer
<1>7. ASSUME NEW p \in Procs, AddGetMetrics(p) \/ RemoveExpired(p)
      PROVE  PutAccepted'
  BY <1>7, <1>a, <1>b, <1>c DEF AddGetMetrics, RemoveExpired, At, Goto, Answer
<1>8. ASSUME NEW p \in Procs,
             PutProbe(p) \/ PutReclaim(p) \/ PutClaim(p) \/ PutStore(p) \/ UpdateStore(p)
      PROVE  PutAccepted'
  BY <1>8, <1>a, <1>c DEF PutProbe, PutReclaim, PutSearch, PutClaim, PutStore, UpdateStore, Goto
<1>9. ASSUME NEW p \in Procs, PutEvict(p)
      PROVE  PutAccepted'
  <2>1. OldestSlot(entries) \in Occupied(entries)
        /\ FindSlot(Remove(entries, OldestSlot(entries)), call[p].key) # NoSlot
    BY <1>9, EvictionMakesRoom DEF PutEvict, At
  <2>2. pc' = [pc EXCEPT ![p] = "claim"]
    BY <1>9, <2>1 DEF PutEvict, PutSearch, Goto
  <2>3. slot'[p] # NoSlot
    BY <1>9, <1>a, <2>1 DEF PutEvict, PutSearch
  <2>4. reply' = reply /\ call' = call
    BY <1>9, <2>1, <2>3 DEF PutEvict
  <2> QED
    BY <1>a, <1>c, <2>2, <2>4
<1>10. ASSUME NEW p \in Procs, PutStamp(p) \/ UpdateStamp(p) \/ UpdateProbe(p) \/ DeleteProbe(p)
       PROVE  PutAccepted'
  BY <1>10, <1>a, <1>c DEF PutStamp, UpdateStamp, UpdateProbe, DeleteProbe, At, Goto, Answer
<1>11. ASSUME NEW p \in Procs, LockFails(p) \/ Crash(p)
       PROVE  PutAccepted'
  BY <1>11 DEF LockFails, Crash, local, PutAccepted
<1>12. CASE Tick \/ StepBack \/ UNCHANGED vars
  BY <1>12 DEF Tick, StepBack, vars, local, PutAccepted
<1> QED
  BY <1>1, <1>2, <1>3, <1>4, <1>5, <1>6, <1>7, <1>8, <1>9, <1>10, <1>11, <1>12 DEF Next, Step

\* A PUT of a valid key and value succeeds, however full the table is: after
\* the reclaim and the eviction find_slot_internal always has a slot to give.
THEOREM EveryPutAccepted == ~LockCanFail => (Spec => []PutAccepted)
<1> SUFFICES ASSUME ~LockCanFail PROVE Spec => []PutAccepted
  OBVIOUS
<1>1. TypeInv /\ LockInv /\ FullInv /\ PutAccepted /\ [Next]_vars => PutAccepted'
  BY AcceptStep
<1> QED
  BY <1>1, AcceptInit, FullAlways, PTL DEF Spec

-----------------------------------------------------------------------------
\* Live entries.

\* Removing slot t loses no other slot's entry.
LEMMA RemoveLosesOne ==
  ASSUME NEW es \in TableType, NEW t, NEW s \in Slots, s # t
  PROVE  Remove(es, t)[s] = es[s]
BY DEF Remove, TableType

\* cache_entry_expired subtracts only after it has compared: it is the sum that
\* decides.
LEMMA ExpiredIsOverdue ==
  ASSUME NEW e \in EntryType, NEW t \in Nat
  PROVE  Expired(e, t) <=> Overdue(e, t)
<1>1. e.ttl \in Nat /\ e.timestamp \in Nat
  BY TTLsAssumption DEF EntryType
<1> QED
  BY <1>1 DEF Expired, Overdue

\* What is found under a key and removed as expired was expired.
LEMMA ExpiredNotLost ==
  ASSUME TypeInv, NEW t \in Slots, Expired(entries[t], now),
         entries' = Remove(entries, t), NEW s \in Slots
  PROVE  ~Lost(s)
<1>1. entries \in TableType /\ entries[t] \in EntryType /\ now \in Nat
  BY DEF TypeInv, TypeOK, TableType
<1>2. Overdue(entries[t], now)
  BY <1>1, ExpiredIsOverdue
<1> QED
  BY <1>1, <1>2, RemoveLosesOne DEF Lost, Holds, Occupied

\* A step that keeps the key of every entry loses none.
LEMMA KeysKeptNotLost ==
  ASSUME \A s \in Slots : entries[s].state = "OCCUPIED"
                             => entries'[s].state = "OCCUPIED" /\ entries'[s].key = entries[s].key,
         NEW s \in Slots
  PROVE  ~Lost(s)
BY DEF Lost, Holds, Occupied

Excused(s) ==
    \E p \in Procs \ dead :
        \/ call[p].op = "DELETE" /\ call[p].key = entries[s].key
        \/ /\ call[p].op = "PUT" /\ pc[p] = "evict"
           /\ \A r \in Slots : /\ entries[r].state = "OCCUPIED"
                               /\ entries[r].key # call[p].key
                               /\ entries[r].timestamp >= entries[s].timestamp

LEMMA LostExcused ==
  ASSUME TypeInv, LockInv, FoundInv, FullInv, Next, NEW s \in Slots, Lost(s)
  PROVE  Excused(s)
<1>a. entries \in TableType /\ \A r \in Slots : entries[r] \in EntryType
  BY DEF TypeInv, TypeOK, TableType
<1>b. \A p \in Procs :
         /\ pc[p] \in {"search", "remove", "store"} /\ call[p].op # "SNAPSHOT"
               => call[p].key \in Keys
         /\ pc[p] = "remove" => call[p].op = "GET"
         /\ pc[p] \in {"store", "stamp"} => slot[p] \in Slots
  BY ValidKey DEF TypeInv, TypeOK, CallInv
<1>1. ASSUME entries' = entries PROVE FALSE
  BY <1>1, KeysKeptNotLost
<1>2. ASSUME NEW p \in Procs, RemoveExpired(p)
      PROVE  FALSE
  <2>1. call[p].key \in Keys
    BY <1>2, <1>b DEF RemoveExpired, At
  <2>2. PICK t \in Slots : Expired(entries[t], now) /\ entries' = Remove(entries, t)
    BY <1>1, <1>2, <2>1, FindKeyType DEF RemoveExpired
  <2> QED
    BY <2>2, ExpiredNotLost
<1>3. ASSUME NEW p \in Procs, UpdateProbe(p)
      PROVE  FALSE
  <2>1. call[p].key \in Keys
    BY <1>3, <1>b DEF UpdateProbe, At
  <2>2. PICK t \in Slots : Expired(entries[t], now) /\ entries' = Remove(entries, t)
    BY <1>1, <1>3, <2>1, FindKeyType DEF UpdateProbe
  <2> QED
    BY <2>2, ExpiredNotLost
<1>4. ASSUME NEW p \in Procs, PutReclaim(p)
      PROVE  FALSE
  <2>1. ~Expired(entries[s], now)
    BY <1>a, ExpiredIsOverdue DEF Lost, TypeInv, TypeOK
  <2> QED
    BY <1>4, <2>1 DEF PutReclaim, Reclaim, ExpiredSlots, Lost, Holds, Occupied
<1>5. ASSUME NEW p \in Procs, PutEvict(p)
      PROVE  Excused(s)
  <2>1. p \in Procs \ dead /\ pc[p] = "evict" /\ call[p].op = "PUT"
    BY <1>5 DEF PutEvict, At, TypeInv, CallInv
  <2>2. \A r \in Slots : entries[r].state = "OCCUPIED" /\ entries[r].key # call[p].key
    BY <2>1, EvictsFromFull
  <2>3. OldestSlot(entries) \in Occupied(entries)
    BY <2>1, EvictionMakesRoom
  <2>4. entries' = Remove(entries, OldestSlot(entries))
    BY <1>5, <2>3 DEF PutEvict
  <2>5. s = OldestSlot(entries)
    BY <1>a, <2>4, RemoveLosesOne DEF Lost, Holds, Occupied
  <2>6. \A r \in Slots : entries[s].timestamp <= entries[r].timestamp
    BY <1>a, <2>2, <2>3, <2>5, OldestSlotIsOldest DEF Occupied
  <2>7. \A r \in Slots : entries[r].timestamp >= entries[s].timestamp
    BY <1>a, <2>6 DEF EntryType
  <2> QED
    BY <2>1, <2>2, <2>7 DEF Excused
<1>6. ASSUME NEW p \in Procs, PutStore(p)
      PROVE  FALSE
  <2> DEFINE k == call[p].key
             e == [entries[slot[p]] EXCEPT !.state = "OCCUPIED", !.key = k,
                                           !.value = call[p].value]
  <2>1. k \in Keys /\ slot[p] \in Slots /\ slot[p] = FindSlot(entries, k)
    BY <1>6, <1>b DEF PutStore, At, FoundInv
  <2>2. entries[slot[p]].state # "OCCUPIED" \/ Holds(entries[slot[p]], k)
    BY <1>a, <2>1, FindSlotFree
  <2>3. e.state = "OCCUPIED" /\ e.key = k
    BY <1>a, <2>1 DEF EntryType
  <2>4. entries' = [entries EXCEPT ![slot[p]] = e]
    BY <1>6 DEF PutStore
  <2> HIDE DEF k, e
  <2> QED
    BY <1>a, <2>1, <2>2, <2>3, <2>4, KeysKeptNotLost DEF Holds, TableType
<1>7. ASSUME NEW p \in Procs, PutStamp(p) \/ UpdateStore(p) \/ UpdateStamp(p)
      PROVE  FALSE
  <2>1. slot[p] \in Slots
    BY <1>7, <1>b DEF PutStamp, UpdateStore, UpdateStamp, At
  <2>2. \A r \in Slots : entries'[r].state = entries[r].state /\ entries'[r].key = entries[r].key
    <3>1. \A e \in EntryType : \A n, t :
             /\ [e EXCEPT !.timestamp = n, !.ttl = t].state = e.state
             /\ [e EXCEPT !.timestamp = n, !.ttl = t].key = e.key
      BY DEF EntryType
    <3>2. CASE PutStamp(p)
      BY <1>a, <2>1, <3>1, <3>2 DEF PutStamp, TableType
    <3>3. CASE UpdateStore(p)
      BY <1>a, <2>1, <3>3 DEF UpdateStore, TableType, EntryType
    <3>4. CASE UpdateStamp(p)
      BY <1>a, <2>1, <3>4 DEF UpdateStamp, TableType, EntryType
    <3> QED
      BY <1>7, <3>2, <3>3, <3>4
  <2> QED
    BY <2>2, KeysKeptNotLost
<1>8. ASSUME NEW p \in Procs, DeleteProbe(p)
      PROVE  Excused(s)
  <2>1. call[p].key \in Keys /\ p \in Procs \ dead /\ call[p].op = "DELETE"
    BY <1>8, <1>b DEF DeleteProbe, At
  <2>2. FindKey(entries, call[p].key) # NoSlot
        /\ entries' = Remove(entries, FindKey(entries, call[p].key))
    BY <1>1, <1>8 DEF DeleteProbe
  <2>3. s = FindKey(entries, call[p].key)
    BY <1>a, <2>2, RemoveLosesOne DEF Lost, Holds, Occupied
  <2>4. entries[s].key = call[p].key
    BY <2>1, <2>2, <2>3, FindKeyFinds DEF Holds
  <2> QED
    BY <2>1, <2>4 DEF Excused
<1>9. ASSUME NEW p \in Procs,
             \/ EnterRead(p) \/ EnterWrite(p) \/ LockFails(p) \/ RdUnlock(p) \/ WrUnlock(p)
             \/ GetProbe(p) \/ GetCopy(p) \/ MetricsLock(p) \/ AddGetMetrics(p)
             \/ ExpiredLock(p) \/ FindProbe(p) \/ ReadSnapshot(p)
             \/ Return(p) \/ PutProbe(p) \/ PutClaim(p) \/ Crash(p)
      PROVE  FALSE
  BY <1>1, <1>9
  DEF EnterRead, EnterWrite, LockFails, RdUnlock, WrUnlock, GetProbe, GetCopy, MetricsLock,
      AddGetMetrics, ExpiredLock, FindProbe, ReadSnapshot, Return, PutProbe, PutClaim, Crash
<1>10. ASSUME NEW p \in Procs, NEW c \in Calls, Invoke(p, c)
       PROVE  FALSE
  BY <1>1, <1>10 DEF Invoke
<1>11. CASE Tick \/ StepBack
  BY <1>1, <1>11 DEF Tick, StepBack
<1> QED
  BY <1>2, <1>3, <1>4, <1>5, <1>6, <1>7, <1>8, <1>9, <1>10, <1>11 DEF Next, Step

\* A PUT turns to eviction after a reclaim that has left no slot free.
LiveOnly(p) == pc[p] # "evict" /\ pc'[p] = "evict" =>
                 \A r \in Slots : entries'[r].state = "OCCUPIED" /\ ~Overdue(entries'[r], now)

LEMMA EvictionOfLiveOnly ==
  ASSUME TypeInv, Next, NEW p \in Procs, pc[p] # "evict", pc'[p] = "evict", NEW r \in Slots
  PROVE  entries'[r].state = "OCCUPIED" /\ ~Overdue(entries'[r], now)
<1>a. /\ entries \in TableType /\ pc \in [Procs -> Labels] /\ now \in Nat
      /\ entries[r] \in EntryType
  BY DEF TypeInv, TypeOK, TableType
<1>1. PutReclaim(p)
  <2>1. ASSUME NEW q \in Procs, NEW l, l # "evict", pc' = [pc EXCEPT ![q] = l] PROVE FALSE
    BY <1>a, <2>1
  <2>2. \A q \in Procs : ~PutEvict(q)
    BY <2>1 DEF PutEvict, PutSearch, Goto
  <2>3. \A q \in Procs : ~PutProbe(q)
    BY <2>1 DEF PutProbe, PutSearch, Goto
  <2>4. \A q \in Procs : PutReclaim(q) => q = p
    BY <1>a DEF PutReclaim, PutSearch, Goto
  <2>5. \A q \in Procs : ~(\/ EnterRead(q) \/ EnterWrite(q) \/ RdUnlock(q) \/ WrUnlock(q)
                           \/ Return(q) \/ GetProbe(q) \/ GetCopy(q) \/ MetricsLock(q)
                           \/ AddGetMetrics(q) \/ ExpiredLock(q) \/ RemoveExpired(q))
    BY <2>1 DEF EnterRead, EnterWrite, RdUnlock, WrUnlock, Return, GetProbe, GetCopy, MetricsLock,
                AddGetMetrics, ExpiredLock, RemoveExpired, Goto
  <2>6. \A q \in Procs : ~(\/ PutClaim(q) \/ PutStore(q) \/ PutStamp(q) \/ UpdateProbe(q)
                           \/ UpdateStore(q) \/ UpdateStamp(q) \/ DeleteProbe(q) \/ FindProbe(q)
                           \/ ReadSnapshot(q) \/ LockFails(q))
    BY <2>1 DEF PutClaim, PutStore, PutStamp, UpdateProbe, UpdateStore, UpdateStamp, DeleteProbe,
                FindProbe, ReadSnapshot, LockFails, Goto
  <2>7. \A q \in Procs, c \in Calls : ~Invoke(q, c)
    BY <2>1 DEF Invoke, Goto
  <2>8. ~Tick /\ ~StepBack /\ \A q \in Procs : ~Crash(q)
    BY DEF Tick, StepBack, Crash, local
  <2> QED
    BY <2>2, <2>3, <2>4, <2>5, <2>6, <2>7, <2>8 DEF Next, Step
<1> DEFINE es == Reclaim(entries, now)
           k  == call[p].key
<1>2. k \in Keys
  BY <1>1, ValidKey DEF PutReclaim, At, TypeInv, TypeOK, CallInv
<1>3. entries' = es /\ FindSlot(es, k) = NoSlot
  <2>1. entries' = es /\ pc' = [pc EXCEPT ![p] = IF FindSlot(es, k) # NoSlot THEN "claim" ELSE "evict"]
    BY <1>1 DEF PutReclaim, PutSearch, Goto
  <2> QED
    BY <1>a, <2>1
<1>4. es \in TableType
  BY <1>a, ReclaimType
<1>5. es[r] = IF r \in ExpiredSlots(entries, now) THEN Blank("DELETED") ELSE entries[r]
  BY DEF Reclaim
<1> HIDE DEF es, k
<1>6. es[r].state = "OCCUPIED"
  BY <1>2, <1>3, <1>4, NoSlotWhenFull
<1>7. r \notin ExpiredSlots(entries, now) /\ es[r] = entries[r]
  BY <1>5, <1>6 DEF Blank
<1>8. ~Overdue(entries[r], now)
  BY <1>a, <1>6, <1>7, ExpiredIsOverdue DEF ExpiredSlots, Occupied
<1> QED
  BY <1>3, <1>6, <1>7, <1>8

\* A live entry goes only when a call deletes its key, or when a PUT of
\* another key, which has found every slot occupied and no entry expired, takes
\* the oldest: no removal, lazy or delayed, no reclaim and no reuse of a slot.
THEOREM LiveEntriesKept == Spec => LiveEntryKept
<1>1. TypeInv /\ LockInv /\ FoundInv /\ FullInv /\ [Next]_vars
        => [/\ \A s \in Slots : Lost(s) => Excused(s)
            /\ \A p \in Procs : LiveOnly(p)]_vars
  BY LostExcused, EvictionOfLiveOnly DEF LiveOnly
<1>2. [/\ \A s \in Slots : Lost(s) => Excused(s)
       /\ \A p \in Procs : LiveOnly(p)]_vars
        => [/\ \A s \in Slots : Lost(s) =>
                 \E p \in Procs \ dead :
                    \/ call[p].op = "DELETE" /\ call[p].key = entries[s].key
                    \/ /\ call[p].op = "PUT" /\ pc[p] = "evict"
                       /\ \A r \in Slots : /\ entries[r].state = "OCCUPIED"
                                           /\ entries[r].key # call[p].key
                                           /\ entries[r].timestamp >= entries[s].timestamp
            /\ \A p \in Procs : pc[p] # "evict" /\ pc'[p] = "evict" =>
                 \A r \in Slots : /\ entries'[r].state = "OCCUPIED"
                                  /\ ~Overdue(entries'[r], now)]_vars
  BY Zenon DEF Excused, LiveOnly
<1> QED
  BY <1>1, <1>2, FullAlways, PTL DEF Spec, LiveEntryKept

-----------------------------------------------------------------------------
\* Snapshots.

LEMMA SnapshotInit == Init => SnapshotConsistent
BY DEF Init, SnapshotConsistent, Pending

LEMMA SnapshotStep ==
  TypeInv /\ LockInv /\ FoundInv /\ CountInv /\ SnapshotConsistent /\ [Next]_vars
     => SnapshotConsistent'
<1> SUFFICES ASSUME TypeInv, LockInv, FoundInv, CountInv, SnapshotConsistent, [Next]_vars
             PROVE  SnapshotConsistent'
  OBVIOUS
<1>a. reply \in [Procs -> Replies]
  BY DEF TypeInv, TypeOK
<1>b. ASSUME NEW p \in Procs, NEW r, reply' = reply \/ reply' = [reply EXCEPT ![p] = r],
             r.kind = "snapshot" => r.count = Cardinality(r.items)
      PROVE  SnapshotConsistent'
  BY <1>a, <1>b DEF SnapshotConsistent
<1>c. Pending.kind # "snapshot" /\ Yes.kind # "snapshot" /\ No.kind # "snapshot"
  BY DEF Pending, Yes, No
<1>d. ASSUME NEW p \in Procs, reply' = reply
                              \/ \E r \in {Pending, Yes, No} : reply' = [reply EXCEPT ![p] = r]
      PROVE  SnapshotConsistent'
  BY <1>b, <1>c, <1>d
<1>1. ASSUME NEW p \in Procs, ReadSnapshot(p)
      PROVE  SnapshotConsistent'
  <2> DEFINE r == Snapshot(entry_count, {entries[s].key : s \in Occupied(entries)})
  <2>1. HoldsRead(p)
    BY <1>1 DEF ReadSnapshot, At, HoldsRead, ReadOps
  <2>2. \A q \in Procs : pc[q] # "store"
    BY <2>1, ExclusionHolds DEF Exclusion, HoldsWrite, HoldsRead
  <2>3. Filling = {}
    BY <2>2 DEF Filling
  <2>4. entry_count = Cardinality(Occupied(entries))
    BY <2>3 DEF CountInv
  <2>5. r.count = Cardinality(r.items)
    BY <2>4, KeysCounted DEF FoundInv, Snapshot
  <2>6. reply' = [reply EXCEPT ![p] = r]
    BY <1>1 DEF ReadSnapshot, Answer
  <2> HIDE DEF r
  <2> QED
    BY <1>b, <2>5, <2>6
<1>2. ASSUME NEW p \in Procs, GetCopy(p) \/ FindProbe(p)
      PROVE  SnapshotConsistent'
  <2>1. \A e : Hit(e).kind # "snapshot"
    BY DEF Hit
  <2>2. \A s : Index(s).kind # "snapshot"
    BY DEF Index
  <2>3. CASE GetCopy(p)
    BY <1>b, <2>1, <2>3 DEF GetCopy, Answer
  <2>4. CASE FindProbe(p)
    BY <1>b, <2>2, <2>4 DEF FindProbe, Answer
  <2> QED
    BY <1>2, <2>3, <2>4
<1>3. ASSUME NEW p \in Procs, NEW c \in Calls, Invoke(p, c)
      PROVE  SnapshotConsistent'
  BY <1>3, <1>d DEF Invoke, Answer
<1>4. ASSUME NEW p \in Procs,
             \/ EnterRead(p) \/ EnterWrite(p) \/ LockFails(p) \/ RdUnlock(p) \/ WrUnlock(p)
             \/ Return(p) \/ GetProbe(p) \/ MetricsLock(p) \/ AddGetMetrics(p)
             \/ ExpiredLock(p) \/ RemoveExpired(p)
      PROVE  SnapshotConsistent'
  BY <1>4, <1>d DEF EnterRead, EnterWrite, LockFails, RdUnlock, WrUnlock, Return, GetProbe,
     MetricsLock, AddGetMetrics, ExpiredLock, RemoveExpired, Answer
<1>5. ASSUME NEW p \in Procs,
             \/ PutProbe(p) \/ PutReclaim(p) \/ PutEvict(p) \/ PutClaim(p) \/ PutStore(p)
             \/ PutStamp(p) \/ UpdateProbe(p) \/ UpdateStore(p) \/ UpdateStamp(p)
             \/ DeleteProbe(p)
      PROVE  SnapshotConsistent'
  BY <1>5, <1>d DEF PutProbe, PutReclaim, PutEvict, PutClaim, PutStore, PutStamp,
     UpdateProbe, UpdateStore, UpdateStamp, DeleteProbe, Answer
<1>6. ASSUME NEW p \in Procs, Crash(p)
      PROVE  SnapshotConsistent'
  BY <1>6 DEF Crash, local, SnapshotConsistent
<1>7. CASE Tick \/ StepBack \/ UNCHANGED vars
  BY <1>7 DEF Tick, StepBack, vars, local, SnapshotConsistent
<1> QED
  BY <1>1, <1>2, <1>3, <1>4, <1>5, <1>6, <1>7 DEF Next, Step

\* A listing and its statistics agree: the header's count is the number of
\* keys listed, none of which is listed twice.
THEOREM SnapshotsAreConsistent == Spec => []SnapshotConsistent
BY TypeInit, TypeStep, LockInit, LockStep, FoundInit, FoundStep, CountInit, CountStep,
   SnapshotInit, SnapshotStep, PTL DEF Spec

-----------------------------------------------------------------------------
\* Remainders modulo a number that is not a literal, which the provers do not
\* know about: what the wrapping counters of the header need.

\* A product, under a name so that the provers leave it alone.
Times(a, b) == a * b

\* Products of successive numbers are N apart, and of different ones at least.
LEMMA TimesGrows ==
  ASSUME NEW N \in Nat \ {0}, NEW a \in Int, NEW b \in Int
  PROVE  /\ Times(N, a) \in Int
         /\ Times(N, a + 1) = Times(N, a) + N
         /\ a < b => Times(N, a) + N <= Times(N, b)
<1>1. N * (a + 1) = N * a + N /\ N * a \in Int
  OBVIOUS
<1>2. ASSUME a < b PROVE N * a + N <= N * b
  <2>1. N * (b - a - 1) >= 0
    BY <1>2
  <2>2. N * (b - a - 1) = N * b - N * a - N
    OBVIOUS
  <2> QED
    BY <2>1, <2>2
<1> QED
  BY <1>1, <1>2 DEF Times

\* r is what n leaves modulo N.
IsRemainder(n, N, r) == r \in 0 .. N - 1 /\ \E q \in Int : n = Times(N, q) + r

\* n % N is a remainder ...
LEMMA ModIsRemainder ==
  ASSUME NEW N \in Nat \ {0}, NEW n \in Nat
  PROVE  IsRemainder(n, N, n % N)
<1>1. n = N * (n \div N) + (n % N) /\ n % N \in 0 .. N - 1 /\ n \div N \in Int
  OBVIOUS
<1> QED
  BY <1>1 DEF Times, IsRemainder

\* ... and there is only one.
LEMMA OneRemainder ==
  ASSUME NEW N \in Nat \ {0}, NEW n \in Nat, NEW r, NEW s,
         IsRemainder(n, N, r), IsRemainder(n, N, s)
  PROVE  r = s
<1>1. PICK q \in Int : n = Times(N, q) + r
  BY DEF IsRemainder
<1>2. PICK a \in Int : n = Times(N, a) + s
  BY DEF IsRemainder
<1>3. /\ a < q => Times(N, a) + N <= Times(N, q)
      /\ q < a => Times(N, q) + N <= Times(N, a)
      /\ Times(N, a) \in Int /\ Times(N, q) \in Int
  BY TimesGrows
<1>4. r \in 0 .. N - 1 /\ s \in 0 .. N - 1
  BY DEF IsRemainder
<1>5. a = q
  BY <1>1, <1>2, <1>3, <1>4
<1> QED
  BY <1>1, <1>2, <1>3, <1>4, <1>5

\* The remainders of n + N and of n + 1.
LEMMA NextRemainder ==
  ASSUME NEW N \in Nat \ {0}, NEW n \in Nat, NEW r, IsRemainder(n, N, r)
  PROVE  /\ IsRemainder(n + N, N, r)
         /\ IsRemainder(n + 1, N, IF r + 1 < N THEN r + 1 ELSE 0)
<1>1. PICK q \in Int : n = Times(N, q) + r
  BY DEF IsRemainder
<1>2. Times(N, q + 1) = Times(N, q) + N /\ Times(N, q) \in Int
  BY TimesGrows
<1>3. r \in 0 .. N - 1
  BY DEF IsRemainder
<1>4. n + N = Times(N, q + 1) + r
  BY <1>1, <1>2, <1>3
<1>5. CASE r + 1 < N
  <2>1. n + 1 = Times(N, q) + (r + 1)
    BY <1>1, <1>2, <1>3
  <2> QED
    BY <1>3, <1>4, <1>5, <2>1 DEF IsRemainder
<1>6. CASE ~(r + 1 < N)
  <2>1. n + 1 = Times(N, q + 1) + 0
    BY <1>1, <1>2, <1>3, <1>6
  <2> QED
    BY <1>3, <1>4, <1>6, <2>1 DEF IsRemainder
<1> QED
  BY <1>5, <1>6

\* A whole turn changes no remainder.
LEMMA ModAdd ==
  ASSUME NEW N \in Nat \ {0}, NEW n \in Nat
  PROVE  (n + N) % N = n % N
<1>1. n + N \in Nat
  OBVIOUS
<1>2. IsRemainder(n + N, N, n % N) /\ IsRemainder(n + N, N, (n + N) % N)
  BY <1>1, ModIsRemainder, NextRemainder, Zenon
<1> QED
  BY <1>1, <1>2, OneRemainder, Zenon

\* It does not matter when a counter that is incremented wraps.
LEMMA ModSucc ==
  ASSUME NEW N \in Nat \ {0}, NEW n \in Nat
  PROVE  (n + 1) % N = ((n % N) + 1) % N
<1> DEFINE r == n % N
<1>1. n + 1 \in Nat
  OBVIOUS
<1>2. IsRemainder(n, N, r)
  BY ModIsRemainder
<1>3. (n + 1) % N = IF r + 1 < N THEN r + 1 ELSE 0
  <2>1. IsRemainder(n + 1, N, (n + 1) % N)
    BY <1>1, ModIsRemainder, Zenon
  <2>2. IsRemainder(n + 1, N, IF r + 1 < N THEN r + 1 ELSE 0)
    BY <1>2, NextRemainder, Zenon
  <2> QED
    BY <1>1, <2>1, <2>2, OneRemainder, Zenon
<1>4. r \in 0 .. N - 1
  BY <1>2 DEF IsRemainder
<1>5. \A x \in 0 .. N : x % N = IF x < N THEN x ELSE 0
  OBVIOUS
<1> HIDE DEF r
<1>6. (r + 1) % N = IF r + 1 < N THEN r + 1 ELSE 0
  BY <1>4, <1>5
<1> QED
  BY <1>3, <1>6 DEF r

-----------------------------------------------------------------------------
\* Telemetry.

\* Counting one event now or one more pending event is the same after wrapping.
LEMMA WrapLater ==
  ASSUME NEW a \in Counter, NEW n \in Nat
  PROVE  (Count(a, 1) + n) % CounterMod = (a + n + 1) % CounterMod
<1>1. CASE a + 1 < CounterMod
  <2>1. Count(a, 1) = a + 1
    BY <1>1, CounterAssumption DEF Count, Counter
  <2> QED
    BY <2>1, CounterAssumption DEF Counter
<1>2. CASE a + 1 = CounterMod
  <2>1. Count(a, 1) = 0
    BY <1>2, CounterAssumption DEF Count, Counter
  <2>2. a + n + 1 = n + CounterMod
    BY <1>2, CounterAssumption DEF Counter
  <2>3. (n + CounterMod) % CounterMod = n % CounterMod
    BY ModAdd, CounterAssumption
  <2> QED
    BY <2>1, <2>2, <2>3
<1> QED
  BY <1>1, <1>2, CounterAssumption DEF Counter

LEMMA TelemetryInit == Init => TelemetryExact
<1> SUFFICES ASSUME Init PROVE TelemetryExact
  OBVIOUS
<1>1. Unrecorded = {}
  BY DEF Init, Unrecorded
<1>2. Cardinality(Unrecorded) = 0
  BY <1>1, FS_EmptySet
<1> QED
  BY <1>2, CounterAssumption DEF Init, TelemetryExact

LEMMA TelemetryStep ==
  ASSUME IsFiniteSet(Procs), ~LockCanFail, TypeInv, FullInv, TelemetryExact, [Next]_vars
  PROVE  TelemetryExact'
<1>a. /\ pc \in [Procs -> Labels] /\ call \in [Procs -> CallType]
      /\ total_hits \in Counter /\ total_misses \in Counter /\ lookups \in Counter
      /\ total_hits \in Nat /\ total_misses \in Nat
  BY CounterIsNat DEF TypeInv, TypeOK
<1>b. IsFiniteSet(Unrecorded) /\ Cardinality(Unrecorded) \in Nat
  <2>1. Unrecorded \in SUBSET Procs
    BY DEF Unrecorded
  <2> QED
    BY <2>1, FS_Subset, FS_CardinalityType
\* Steps that record nothing and change nobody's state of being unrecorded.
<1>c. ASSUME Unrecorded' = Unrecorded, UNCHANGED <<total_hits, total_misses, lookups>>
      PROVE  TelemetryExact'
  BY <1>c DEF TelemetryExact
<1>d. ASSUME NEW p \in Procs, call' = call, UNCHANGED <<total_hits, total_misses, lookups>>,
             \A q \in Procs : q # p => pc'[q] = pc[q],
             call[p].op = "GET" =>
                (pc[p] \notin {"idle", "wr_unlock", "done"}
                   <=> pc'[p] \notin {"idle", "wr_unlock", "done"})
      PROVE  TelemetryExact'
  <2>1. Unrecorded' = Unrecorded
    BY <1>d DEF Unrecorded
  <2> QED
    BY <1>c, <1>d, <2>1
\* The step that records a GET.
<1>e. ASSUME NEW p \in Procs, p \in Unrecorded, Unrecorded' = Unrecorded \ {p},
             lookups' = lookups,
             \/ total_hits' = Count(total_hits, 1) /\ total_misses' = total_misses
             \/ total_misses' = Count(total_misses, 1) /\ total_hits' = total_hits
      PROVE  TelemetryExact'
  <2> DEFINE c == Cardinality(Unrecorded \ {p})
  <2>1. c \in Nat /\ Cardinality(Unrecorded) = c + 1
    <3>1. IsFiniteSet(Unrecorded \ {p}) /\ c = Cardinality(Unrecorded) - 1
      BY <1>b, <1>e, FS_RemoveElement
    <3>2. c \in Nat
      BY <3>1, FS_CardinalityType
    <3> QED
      BY <1>b, <3>1, <3>2
  <2>2. Cardinality(Unrecorded') = c
    BY <1>e
  <2> HIDE DEF c
  <2>3. Count(total_hits, 1) \in Nat /\ Count(total_misses, 1) \in Nat
    BY <1>a, CountType, CounterIsNat
  <2>4. (total_hits + total_misses + (c + 1)) % CounterMod = lookups
    BY <2>1 DEF TelemetryExact
  <2>5. CASE total_hits' = Count(total_hits, 1) /\ total_misses' = total_misses
    <3>1. (Count(total_hits, 1) + (total_misses + c)) % CounterMod
             = (total_hits + (total_misses + c) + 1) % CounterMod
      BY <1>a, <2>1, WrapLater
    <3>2. /\ total_hits + (total_misses + c) + 1 = total_hits + total_misses + (c + 1)
          /\ Count(total_hits, 1) + (total_misses + c) = Count(total_hits, 1) + total_misses + c
      BY <1>a, <2>1, <2>3
    <3> QED
      BY <1>e, <2>2, <2>4, <2>5, <3>1, <3>2 DEF TelemetryExact
  <2>6. CASE total_misses' = Count(total_misses, 1) /\ total_hits' = total_hits
    <3>1. (Count(total_misses, 1) + (total_hits + c)) % CounterMod
             = (total_misses + (total_hits + c) + 1) % CounterMod
      BY <1>a, <2>1, WrapLater
    <3>2. /\ total_misses + (total_hits + c) + 1 = total_hits + total_misses + (c + 1)
          /\ Count(total_misses, 1) + (total_hits + c) = total_hits + Count(total_misses, 1) + c
      BY <1>a, <2>1, <2>3
    <3> QED
      BY <1>e, <2>2, <2>4, <2>6, <3>1, <3>2 DEF TelemetryExact
  <2> QED
    BY <1>e, <2>5, <2>6
<1>1. ASSUME NEW p \in Procs, NEW c \in Calls, Invoke(p, c), Valid(c), c.op = "GET"
      PROVE  TelemetryExact'
  <2>1. Unrecorded' = Unrecorded \cup {p} /\ p \notin Unrecorded
    BY <1>1, <1>a DEF Invoke, At, Goto, Unrecorded
  <2>2. Cardinality(Unrecorded') = Cardinality(Unrecorded) + 1
    BY <1>b, <2>1, FS_AddElement
  <2> DEFINE n == total_hits + total_misses + Cardinality(Unrecorded)
  <2>3. n \in Nat
    BY <1>a, <1>b
  <2>4. (n + 1) % CounterMod = ((n % CounterMod) + 1) % CounterMod
    BY <2>3, ModSucc, CounterAssumption
  <2>5. total_hits + total_misses + (Cardinality(Unrecorded) + 1) = n + 1
    BY <1>a, <1>b
  <2>6. lookups' = (lookups + 1) % CounterMod /\ UNCHANGED <<total_hits, total_misses>>
    BY <1>1 DEF Invoke, Count, header
  <2>7. n % CounterMod = lookups
    BY DEF TelemetryExact
  <2> HIDE DEF n
  <2> QED
    BY <2>2, <2>4, <2>5, <2>6, <2>7 DEF TelemetryExact
<1>2. ASSUME NEW p \in Procs, NEW c \in Calls, Invoke(p, c), ~(Valid(c) /\ c.op = "GET")
      PROVE  TelemetryExact'
  <2>1. Unrecorded' = Unrecorded
    BY <1>2, <1>a DEF Invoke, At, Goto, Unrecorded
  <2> QED
    BY <1>2, <1>c, <2>1 DEF Invoke, header
<1>3. ASSUME NEW p \in Procs, Return(p)
      PROVE  TelemetryExact'
  <2>1. Unrecorded' = Unrecorded
    BY <1>3, <1>a DEF Return, At, Goto, Unrecorded
  <2> QED
    BY <1>3, <1>c, <2>1 DEF Return, header, history
<1>4. ASSUME NEW p \in Procs, AddGetMetrics(p)
      PROVE  TelemetryExact'
  <2>1. p \in Unrecorded /\ Unrecorded' = Unrecorded \ {p}
    BY <1>4, <1>a DEF AddGetMetrics, At, Goto, Unrecorded, TypeInv, CallInv
  <2> QED
    BY <1>4, <1>e, <2>1, <1>a DEF AddGetMetrics, history, Count
<1>5. ASSUME NEW p \in Procs, RemoveExpired(p)
      PROVE  TelemetryExact'
  <2>1. p \in Unrecorded /\ Unrecorded' = Unrecorded \ {p}
    BY <1>5, <1>a DEF RemoveExpired, At, Goto, Unrecorded, TypeInv, CallInv
  <2> QED
    BY <1>5, <1>e, <2>1 DEF RemoveExpired
<1>6. ASSUME NEW p \in Procs,
             EnterRead(p) \/ EnterWrite(p) \/ WrUnlock(p) \/ MetricsLock(p) \/ ExpiredLock(p)
      PROVE  TelemetryExact'
  BY <1>6, <1>a, <1>d DEF EnterRead, EnterWrite, WrUnlock, MetricsLock, ExpiredLock,
     At, Goto, header, history
<1>7. ASSUME NEW p \in Procs, RdUnlock(p)
      PROVE  TelemetryExact'
  BY <1>7, <1>a, <1>d DEF RdUnlock, At, Goto, header, history
<1>8. ASSUME NEW p \in Procs,
             GetProbe(p) \/ GetCopy(p) \/ FindProbe(p) \/ ReadSnapshot(p)
      PROVE  TelemetryExact'
  BY <1>8, <1>a, <1>d DEF GetProbe, GetCopy, FindProbe, ReadSnapshot, At, Goto, header, history
<1>9. ASSUME NEW p \in Procs,
             \/ PutProbe(p) \/ PutReclaim(p) \/ PutEvict(p) \/ PutClaim(p) \/ PutStore(p)
             \/ PutStamp(p)
      PROVE  TelemetryExact'
  <2>1. call[p].op = "PUT" /\ call' = call
    BY <1>9 DEF PutProbe, PutReclaim, PutEvict, PutClaim, PutStore, PutStamp, At,
       TypeInv, CallInv
  <2>2. \A q \in Procs : q # p => pc'[q] = pc[q]
    BY <1>9, <1>a DEF PutProbe, PutReclaim, PutEvict, PutClaim, PutStore, PutStamp,
       PutSearch, Goto
  <2>3. UNCHANGED <<total_hits, total_misses, lookups>>
    BY <1>9 DEF PutProbe, PutReclaim, PutEvict, PutClaim, PutStore, PutStamp,
       PutSearch, CountCollisions, header, history
  <2> QED
    BY <1>d, <2>1, <2>2, <2>3
<1>10. ASSUME NEW p \in Procs,
              UpdateProbe(p) \/ UpdateStore(p) \/ UpdateStamp(p) \/ DeleteProbe(p)
       PROVE  TelemetryExact'
  <2>1. call[p].op # "GET" /\ call' = call
    BY <1>10 DEF UpdateProbe, UpdateStore, UpdateStamp, DeleteProbe, At
  <2>2. \A q \in Procs : q # p => pc'[q] = pc[q]
    BY <1>10, <1>a DEF UpdateProbe, UpdateStore, UpdateStamp, DeleteProbe, Goto
  <2>3. UNCHANGED <<total_hits, total_misses, lookups>>
    BY <1>10 DEF UpdateProbe, UpdateStore, UpdateStamp, DeleteProbe, CountCollisions,
       header, history
  <2> QED
    BY <1>d, <2>1, <2>2, <2>3
<1>11. ASSUME NEW p \in Procs, LockFails(p) \/ Crash(p)
       PROVE  TelemetryExact'
  BY <1>11, <1>c DEF LockFails, Crash, Unrecorded, local, header, history
<1>12. CASE Tick \/ StepBack \/ UNCHANGED vars
  BY <1>12, <1>c DEF Tick, StepBack, vars, Unrecorded, local, header, history
<1> QED
  BY <1>1, <1>2, <1>3, <1>4, <1>5, <1>6, <1>7, <1>8, <1>9, <1>10, <1>11, <1>12 DEF Next, Step

\* Every GET is counted once, as a hit or as a miss, whatever happens between
\* its two lock acquisitions; the counters may have wrapped any number of
\* times.
THEOREM EveryGetCounted ==
  IsFiniteSet(Procs) /\ ~LockCanFail => (Spec => []TelemetryExact)
<1> SUFFICES ASSUME IsFiniteSet(Procs), ~LockCanFail PROVE Spec => []TelemetryExact
  OBVIOUS
<1>1. TypeInv /\ FullInv /\ TelemetryExact /\ [Next]_vars => TelemetryExact'
  BY TelemetryStep
<1> QED
  BY <1>1, TelemetryInit, FullAlways, PTL DEF Spec
=============================================================================

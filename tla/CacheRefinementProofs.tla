------------------------ MODULE CacheRefinementProofs ------------------------
(***************************************************************************)
(* CacheEngine implements KVCache: the initial states map to the map's,    *)
(* and every step to one of its steps or to a stutter, for any processes,  *)
(* calls, keys, hash, capacity and clock.                                  *)
(***************************************************************************)
EXTENDS CacheEngineRefinement, CacheEngineProofs

-----------------------------------------------------------------------------
\* The map of a table, when R[s] is the record in its slot s.

StoreWith(es, R) ==
    [k \in Keys |-> LET held == {s \in Slots : Holds(es[s], k)}
                    IN  IF held = {} THEN Absent ELSE R[CHOOSE s \in held : TRUE]]

\* A key has one slot, and its record is that slot's.
LEMMA StoreHolds ==
  ASSUME NEW es, NEW R, Reachable(es), NEW k \in Keys, NEW s \in Slots, Holds(es[s], k)
  PROVE  StoreWith(es, R)[k] = R[s]
<1> DEFINE held == {r \in Slots : Holds(es[r], k)}
<1>1. \A r \in held : r = s
  BY DEF Reachable, Occupied, Holds
<1>2. s \in held
  OBVIOUS
<1>3. (CHOOSE r \in held : TRUE) = s
  <2>1. (CHOOSE r \in held : TRUE) \in held
    BY <1>2
  <2> QED
    BY <1>1, <2>1
<1> QED
  BY <1>2, <1>3 DEF StoreWith

LEMMA StoreLacks ==
  ASSUME NEW es, NEW R, NEW k \in Keys, \A s \in Slots : ~Holds(es[s], k)
  PROVE  StoreWith(es, R)[k] = Absent
<1>1. {s \in Slots : Holds(es[s], k)} = {}
  OBVIOUS
<1> QED
  BY <1>1 DEF StoreWith

\* The same holders with the same records are the same map.
LEMMA StoreSame ==
  ASSUME NEW es, NEW new, NEW R, NEW Q, Reachable(es), Reachable(new),
         \A s \in Slots : new[s].state = es[s].state /\ new[s].key = es[s].key,
         \A s \in Occupied(es) : Q[s] = R[s]
  PROVE  StoreWith(new, Q) = StoreWith(es, R)
<1>1. ASSUME NEW k \in Keys
      PROVE  StoreWith(new, Q)[k] = StoreWith(es, R)[k]
  <2>1. CASE \E s \in Slots : Holds(es[s], k)
    <3>1. PICK s \in Slots : Holds(es[s], k)
      BY <2>1
    <3>2. Holds(new[s], k) /\ s \in Occupied(es)
      BY <3>1 DEF Holds, Occupied
    <3>3. StoreWith(new, Q)[k] = Q[s] /\ StoreWith(es, R)[k] = R[s]
      BY <3>1, <3>2, StoreHolds
    <3> QED
      BY <3>2, <3>3
  <2>2. CASE \A s \in Slots : ~Holds(es[s], k)
    <3>1. \A s \in Slots : ~Holds(new[s], k)
      BY <2>2 DEF Holds
    <3> QED
      BY <2>2, <3>1, StoreLacks
  <2> QED
    BY <2>1, <2>2
<1>2. \A f, g : f = StoreWith(new, Q) /\ g = StoreWith(es, R)
          => f = [k \in Keys |-> f[k]] /\ g = [k \in Keys |-> g[k]]
  BY DEF StoreWith
<1> QED
  BY <1>1, <1>2

\* Removals take the keys of the slots that they blank.
LEMMA StoreAfterRemoval ==
  ASSUME NEW es, NEW new, NEW R, NEW Q, Reachable(es), NEW T \in SUBSET Occupied(es),
         \A s \in Slots : new[s] = IF s \in T THEN Blank("DELETED") ELSE es[s],
         \A s \in Slots \ T : Q[s] = R[s]
  PROVE  StoreWith(new, Q)
           = [k \in Keys |-> IF k \in {es[s].key : s \in T} THEN Absent
                                                            ELSE StoreWith(es, R)[k]]
<1>1. Reachable(new)
  BY ReachableAfterRemoval
<1>2. ASSUME NEW k \in Keys
      PROVE  StoreWith(new, Q)[k] = IF k \in {es[s].key : s \in T} THEN Absent
                                                                 ELSE StoreWith(es, R)[k]
  <2>1. CASE \E s \in Slots \ T : Holds(es[s], k)
    <3>1. PICK s \in Slots \ T : Holds(es[s], k)
      BY <2>1
    <3>2. new[s] = es[s]
      BY <3>1
    <3>3. StoreWith(new, Q)[k] = Q[s] /\ StoreWith(es, R)[k] = R[s]
      BY <1>1, <3>1, <3>2, StoreHolds
    <3>4. k \notin {es[r].key : r \in T}
      BY <3>1 DEF Reachable, Holds, Occupied
    <3> QED
      BY <3>1, <3>3, <3>4
  <2>2. CASE \A s \in Slots \ T : ~Holds(es[s], k)
    <3>1. \A s \in Slots : ~Holds(new[s], k)
      BY <2>2 DEF Holds, Blank
    <3>2. StoreWith(new, Q)[k] = Absent
      BY <3>1, StoreLacks
    <3>3. CASE k \in {es[s].key : s \in T}
      BY <3>2, <3>3
    <3>4. CASE k \notin {es[s].key : s \in T}
      <4>1. \A s \in Slots : ~Holds(es[s], k)
        BY <2>2, <3>4 DEF Holds
      <4> QED
        BY <3>2, <3>4, <4>1, StoreLacks
    <3> QED
      BY <3>3, <3>4
  <2> QED
    BY <2>1, <2>2
<1>3. \A f : f = StoreWith(new, Q) => f = [k \in Keys |-> f[k]]
  BY DEF StoreWith
<1> QED
  BY <1>2, <1>3

\* A write to the slot of a key, or to a free one, changes that key's record.
LEMMA StoreAfterWrite ==
  ASSUME NEW es, NEW new, NEW R, NEW Q, Reachable(es), Reachable(new),
         NEW k \in Keys, NEW t \in Slots, Holds(new[t], k),
         es[t].state # "OCCUPIED" \/ Holds(es[t], k),
         \A s \in Slots \ {t} : new[s] = es[s] /\ Q[s] = R[s]
  PROVE  StoreWith(new, Q) = [StoreWith(es, R) EXCEPT ![k] = Q[t]]
<1>1. ASSUME NEW j \in Keys, j # k
      PROVE  StoreWith(new, Q)[j] = StoreWith(es, R)[j]
  <2>1. CASE \E s \in Slots : Holds(es[s], j)
    <3>1. PICK s \in Slots : Holds(es[s], j)
      BY <2>1
    <3>2. s # t
      BY <1>1, <3>1 DEF Holds
    <3>3. StoreWith(new, Q)[j] = Q[s] /\ StoreWith(es, R)[j] = R[s]
      BY <3>1, <3>2, StoreHolds
    <3> QED
      BY <3>2, <3>3
  <2>2. CASE \A s \in Slots : ~Holds(es[s], j)
    <3>1. \A s \in Slots : ~Holds(new[s], j)
      BY <1>1, <2>2 DEF Holds
    <3> QED
      BY <2>2, <3>1, StoreLacks
  <2> QED
    BY <2>1, <2>2
<1>2. StoreWith(new, Q)[k] = Q[t]
  BY StoreHolds
<1>3. \A f, g : f = StoreWith(new, Q) /\ g = StoreWith(es, R)
          => f = [j \in Keys |-> f[j]] /\ g = [j \in Keys |-> g[j]]
  BY DEF StoreWith
<1> DEFINE f == StoreWith(new, Q)
           g == StoreWith(es, R)
<1>4. f = [j \in Keys |-> f[j]] /\ g = [j \in Keys |-> g[j]]
  BY <1>3
<1>5. \A j \in Keys : f[j] = [g EXCEPT ![k] = Q[t]][j]
  <2> HIDE DEF f, g
  <2>1. f[k] = Q[t] /\ \A j \in Keys : j # k => f[j] = g[j]
    BY <1>1, <1>2 DEF f, g
  <2> QED
    BY <1>4, <2>1
<1> QED
  <2> HIDE DEF f, g
  <2>1. f = [g EXCEPT ![k] = Q[t]]
    BY <1>4, <1>5
  <2> QED
    BY <2>1 DEF f, g

\* The map is full when the table is.
LEMMA FullTable ==
  ASSUME NEW es
  PROVE  Cardinality(Occupied(es)) >= Capacity <=> Occupied(es) = Slots
<1>1. IsFiniteSet(Slots) /\ Cardinality(Slots) = Capacity
  BY FS_Interval, CapacityAssumption DEF Slots
<1>2. Occupied(es) \subseteq Slots
  BY DEF Occupied
<1>3. CASE Occupied(es) # Slots
  <2>1. Cardinality(Occupied(es)) < Cardinality(Slots)
    BY <1>1, <1>2, <1>3, FS_Subset, FS_CardinalityType
  <2> QED
    BY <1>1, <1>3, <2>1, OccupiedFinite, CapacityAssumption
<1> QED
  BY <1>1, <1>3, CapacityAssumption

-----------------------------------------------------------------------------
\* What a call holds and owes at each place.

\* Its answer is pending until it is decided, and an UPDATE about to store, or
\* any call about to stamp, is in its key's slot.
ReplyInv ==
    /\ \A p \in Procs :
          /\ pc[p] \in {"idle", "enter", "search", "copy", "expired_lock", "remove", "reclaim",
                        "evict", "claim", "store", "stamp"} => reply[p] = Pending
          /\ pc[p] \in {"metrics_lock", "metrics", "wr_unlock", "done"} => reply[p] # Pending
          /\ pc[p] = "rd_unlock" /\ call[p].op # "GET" => reply[p] # Pending

OwnInv ==
    \A p \in Procs :
        pc[p] = "stamp" \/ (pc[p] = "store" /\ call[p].op = "UPDATE")
            => Holds(entries[slot[p]], call[p].key)

LEMMA ReplyInit == Init => ReplyInv
BY DEF Init, ReplyInv

LEMMA ReplyStep == TypeInv /\ ReplyInv /\ [Next]_vars => ReplyInv'
<1> SUFFICES ASSUME TypeInv, ReplyInv, [Next]_vars PROVE ReplyInv'
  OBVIOUS
<1>a. /\ pc \in [Procs -> Labels] /\ call \in [Procs -> CallType]
      /\ reply \in [Procs -> Replies] /\ slot \in [Procs -> Slots \cup {NoSlot}]
  BY DEF TypeInv, TypeOK
<1>b. Pending # Yes /\ Pending # No /\ (\A e : Pending # Hit(e))
      /\ (\A i : Pending # Index(i)) /\ \A n, items : Pending # Snapshot(n, items)
  BY DEF Pending, Yes, No, Hit, Index, Snapshot
<1> DEFINE Owes == {"idle", "enter", "search", "copy", "expired_lock", "remove", "reclaim",
                    "evict", "claim", "store", "stamp"}
           Pays == {"metrics_lock", "metrics", "wr_unlock", "done"}
\* A step of p, by what it leaves p with.
<1>c. ASSUME NEW p \in Procs,
             \A q \in Procs : q # p => pc'[q] = pc[q] /\ reply'[q] = reply[q]
                                       /\ call'[q] = call[q],
             pc'[p] \in Owes => reply'[p] = Pending,
             pc'[p] \in Pays => reply'[p] # Pending,
             pc'[p] = "rd_unlock" /\ call'[p].op # "GET" => reply'[p] # Pending
      PROVE  ReplyInv'
  BY <1>c DEF ReplyInv
<1>1. ASSUME NEW p \in Procs, NEW c \in Calls, Invoke(p, c)
      PROVE  ReplyInv'
  BY <1>1, <1>a, <1>b, <1>c DEF Invoke, At, Goto, Answer, ReplyInv
<1>2. ASSUME NEW p \in Procs, Return(p) \/ LockFails(p) \/ RdUnlock(p) \/ WrUnlock(p)
      PROVE  ReplyInv'
  BY <1>2, <1>a, <1>b, <1>c DEF Return, LockFails, RdUnlock, WrUnlock, At, Goto, Answer, ReplyInv
<1>3. ASSUME NEW p \in Procs,
             EnterRead(p) \/ EnterWrite(p) \/ MetricsLock(p) \/ AddGetMetrics(p) \/ ExpiredLock(p)
      PROVE  ReplyInv'
  BY <1>3, <1>a, <1>c DEF EnterRead, EnterWrite, MetricsLock, AddGetMetrics, ExpiredLock, At, Goto,
                          ReplyInv
<1>4. ASSUME NEW p \in Procs, GetProbe(p)
      PROVE  ReplyInv'
  BY <1>4, <1>a, <1>b, <1>c DEF GetProbe, At, Goto, Answer, ReplyInv
<1>5. ASSUME NEW p \in Procs, GetCopy(p) \/ FindProbe(p) \/ ReadSnapshot(p)
      PROVE  ReplyInv'
  BY <1>5, <1>a, <1>b, <1>c DEF GetCopy, FindProbe, ReadSnapshot, At, Goto, Answer, ReplyInv
<1>6. ASSUME NEW p \in Procs,
             RemoveExpired(p) \/ PutStamp(p) \/ UpdateStamp(p) \/ DeleteProbe(p)
      PROVE  ReplyInv'
  BY <1>6, <1>a, <1>b, <1>c DEF RemoveExpired, PutStamp, UpdateStamp, DeleteProbe, At, Goto, Answer,
                                ReplyInv
<1>7. ASSUME NEW p \in Procs,
             PutProbe(p) \/ PutReclaim(p) \/ PutClaim(p) \/ PutStore(p) \/ UpdateStore(p)
      PROVE  ReplyInv'
  BY <1>7, <1>a, <1>c DEF PutProbe, PutReclaim, PutSearch, PutClaim, PutStore, UpdateStore, At,
                          Goto, ReplyInv
<1>8. ASSUME NEW p \in Procs, PutEvict(p)
      PROVE  ReplyInv'
  BY <1>8, <1>a, <1>b, <1>c DEF PutEvict, PutSearch, At, Goto, Answer, ReplyInv
<1>9. ASSUME NEW p \in Procs, UpdateProbe(p)
      PROVE  ReplyInv'
  BY <1>9, <1>a, <1>b, <1>c DEF UpdateProbe, At, Goto, Answer, ReplyInv
<1>10. ASSUME NEW p \in Procs, Crash(p)
       PROVE  ReplyInv'
  BY <1>10 DEF Crash, local, ReplyInv
<1>11. CASE Tick \/ StepBack \/ UNCHANGED vars
  BY <1>11 DEF Tick, StepBack, vars, local, ReplyInv
<1> QED
  BY <1>1, <1>2, <1>3, <1>4, <1>5, <1>6, <1>7, <1>8, <1>9, <1>10, <1>11 DEF Next, Step

LEMMA OwnInit == Init => OwnInv
BY DEF Init, OwnInv

LEMMA OwnStep == TypeInv /\ LockInv /\ OwnInv /\ [Next]_vars => OwnInv'
<1> SUFFICES ASSUME TypeInv, LockInv, OwnInv, [Next]_vars PROVE OwnInv'
  OBVIOUS
<1>a. /\ pc \in [Procs -> Labels] /\ call \in [Procs -> CallType]
      /\ slot \in [Procs -> Slots \cup {NoSlot}] /\ entries \in TableType
  BY DEF TypeInv, TypeOK, TableType
<1>b. \A p, q \in Procs : HoldsWrite(p) /\ q # p => pc[q] \notin {"store", "stamp"}
  BY ExclusionHolds DEF Exclusion, HoldsWrite
<1> DEFINE Own(p) == pc[p] = "stamp" \/ (pc[p] = "store" /\ call[p].op = "UPDATE")
\* Steps that leave the table alone, or are the writer's.
<1>c. ASSUME NEW p \in Procs, entries' = entries \/ HoldsWrite(p),
             \A q \in Procs : q # p => pc'[q] = pc[q] /\ slot'[q] = slot[q]
                                       /\ call'[q] = call[q],
             Own(p)' => Holds(entries'[slot'[p]], call'[p].key)
      PROVE  OwnInv'
  BY <1>b, <1>c DEF OwnInv
<1>1. ASSUME NEW p \in Procs, NEW c \in Calls, Invoke(p, c)
      PROVE  OwnInv'
  BY <1>1, <1>a, <1>c DEF Invoke, Goto
<1>2. ASSUME NEW p \in Procs,
             \/ EnterRead(p) \/ EnterWrite(p) \/ LockFails(p) \/ RdUnlock(p) \/ WrUnlock(p)
             \/ GetProbe(p) \/ GetCopy(p) \/ MetricsLock(p) \/ AddGetMetrics(p)
             \/ ExpiredLock(p) \/ FindProbe(p) \/ ReadSnapshot(p) \/ Return(p)
      PROVE  OwnInv'
  <2>1. entries' = entries
    BY <1>2 DEF EnterRead, EnterWrite, LockFails, RdUnlock, WrUnlock, GetProbe, GetCopy,
                MetricsLock, AddGetMetrics, ExpiredLock, FindProbe, ReadSnapshot, Return
  <2>2. \A q \in Procs : q # p => pc'[q] = pc[q] /\ slot'[q] = slot[q] /\ call'[q] = call[q]
    BY <1>2, <1>a DEF EnterRead, EnterWrite, LockFails, RdUnlock, WrUnlock, GetProbe, GetCopy,
                MetricsLock, AddGetMetrics, ExpiredLock, FindProbe, ReadSnapshot, Return, Goto
  <2>3. pc'[p] \notin {"store", "stamp"}
    BY <1>2, <1>a DEF EnterRead, EnterWrite, LockFails, RdUnlock, WrUnlock, GetProbe, GetCopy,
                MetricsLock, AddGetMetrics, ExpiredLock, FindProbe, ReadSnapshot, Return, Goto
  <2> QED
    BY <1>c, <2>1, <2>2, <2>3
<1>3. ASSUME NEW p \in Procs,
             \/ PutProbe(p) \/ DeleteProbe(p) \/ RemoveExpired(p) \/ PutReclaim(p) \/ PutEvict(p)
             \/ PutStamp(p) \/ UpdateStamp(p)
      PROVE  OwnInv'
  <2>1. HoldsWrite(p)
    BY <1>3 DEF PutProbe, DeleteProbe, RemoveExpired, PutReclaim, PutEvict, PutStamp, UpdateStamp,
                At, HoldsWrite, ReadOps
  <2>2. \A q \in Procs : q # p => pc'[q] = pc[q] /\ slot'[q] = slot[q] /\ call'[q] = call[q]
    BY <1>3, <1>a DEF PutProbe, DeleteProbe, RemoveExpired, PutReclaim, PutEvict, PutSearch,
                      PutStamp, UpdateStamp, Goto
  <2>3. pc'[p] \notin {"store", "stamp"}
    BY <1>3, <1>a DEF PutProbe, DeleteProbe, RemoveExpired, PutReclaim, PutEvict, PutSearch,
                      PutStamp, UpdateStamp, Goto
  <2> QED
    BY <1>c, <2>1, <2>2, <2>3
<1>4. ASSUME NEW p \in Procs, PutClaim(p)
      PROVE  OwnInv'
  <2>1. call[p].op = "PUT"
    BY <1>4 DEF PutClaim, At, TypeInv, CallInv
  <2> QED
    BY <1>4, <1>a, <1>c, <2>1 DEF PutClaim, Goto
<1>5. ASSUME NEW p \in Procs, PutStore(p) \/ UpdateStore(p)
      PROVE  OwnInv'
  <2>1. HoldsWrite(p) /\ slot[p] \in Slots /\ slot' = slot /\ call' = call
    BY <1>5 DEF PutStore, UpdateStore, At, HoldsWrite, TypeInv, CallInv
  <2>2. entries[slot[p]] \in EntryType
    BY <1>a, <2>1 DEF TableType
  <2>3. Holds(entries'[slot[p]], call[p].key)
    <3>1. CASE PutStore(p)
      BY <1>a, <2>1, <2>2, <3>1 DEF PutStore, TableType, EntryType, Holds
    <3>2. CASE UpdateStore(p)
      <4>1. Holds(entries[slot[p]], call[p].key)
        BY <3>2 DEF UpdateStore, At, OwnInv
      <4> QED
        BY <1>a, <2>1, <2>2, <3>2, <4>1 DEF UpdateStore, TableType, EntryType, Holds
    <3> QED
      BY <1>5, <3>1, <3>2
  <2> QED
    BY <1>5, <1>a, <1>c, <2>1, <2>3 DEF PutStore, UpdateStore, Goto
<1>6. ASSUME NEW p \in Procs, UpdateProbe(p)
      PROVE  OwnInv'
  <2> DEFINE k == call[p].key
             s == FindKey(entries, k)
  <2>1. HoldsWrite(p) /\ k \in Keys
    BY <1>6, <1>a, ValidKey DEF UpdateProbe, At, HoldsWrite, ReadOps, TypeInv, CallInv
  <2>2. slot'[p] = s /\ call' = call /\ pc'[p] # "stamp"
        /\ \A q \in Procs : q # p => pc'[q] = pc[q] /\ slot'[q] = slot[q]
    BY <1>6, <1>a DEF UpdateProbe, Goto
  <2>3. ASSUME pc'[p] = "store" PROVE s # NoSlot /\ entries' = entries
    BY <1>6, <1>a, <2>3 DEF UpdateProbe, Goto
  <2>4. pc'[p] = "store" => Holds(entries'[s], k)
    <3> HIDE DEF s
    <3> QED
      BY <2>1, <2>3, FindKeyFinds DEF s
  <2> QED
    BY <1>c, <2>1, <2>2, <2>4
<1>7. ASSUME NEW p \in Procs, Crash(p)
      PROVE  OwnInv'
  BY <1>7 DEF Crash, local, OwnInv
<1>8. CASE Tick \/ StepBack \/ UNCHANGED vars
  BY <1>8 DEF Tick, StepBack, vars, local, OwnInv
<1> QED
  BY <1>1, <1>2, <1>3, <1>4, <1>5, <1>6, <1>7, <1>8 DEF Next, Step

-----------------------------------------------------------------------------
\* The map, the requests and the answers that a state stands for.

ViewInv == /\ TypeInv /\ LockInv /\ HitInv /\ FoundInv /\ FullInv
           /\ ReplyInv /\ OwnInv

Records  == [s \in Slots |-> RecordAt(s)]
Requests == [p \in Procs |-> IF pc[p] = "idle" THEN IdleRequest ELSE call[p]]
Answers  == [p \in Procs |-> AnswerView(p)]

Entry(e) == [value |-> e.value, ttl |-> e.ttl]

\* The PUTs that are about to stamp slot s.
Stampers(s) == {p \in Procs : pc[p] = "stamp" /\ slot[p] = s /\ call[p].op = "PUT"}

LEMMA ViewVars == /\ KV!vars = <<StoreView, Requests, Answers>>
                  /\ KV!vars' = <<StoreView', Requests', Answers'>>
BY DEF KV!vars, Requests, Answers

LEMMA StoreViewIs ==
  StoreView = StoreWith(entries, Records) /\ StoreView' = StoreWith(entries', Records')
<1>1. ASSUME NEW es, NEW k \in Keys, NEW R,
             {s \in Slots : Holds(es[s], k)} # {}
      PROVE  (CHOOSE s \in {r \in Slots : Holds(es[r], k)} : TRUE) \in Slots
  <2>1. (CHOOSE s \in {r \in Slots : Holds(es[r], k)} : TRUE) \in {s \in Slots : Holds(es[s], k)}
    BY <1>1
  <2> QED
    BY <2>1
<1>2. StoreView = StoreWith(entries, Records)
  BY <1>1 DEF StoreView, StoreWith, Records
<1>3. StoreView' = StoreWith(entries', Records')
  BY <1>1 DEF StoreView, StoreWith, Records
<1> QED
  BY <1>2, <1>3

\* A record is that of its slot, but for a PUT that is about to stamp it.
LEMMA RecordUnstamped ==
  ASSUME NEW s \in Slots, \A p \in Procs : ~(pc[p] = "stamp" /\ call[p].op = "PUT")
  PROVE  Records[s] = Entry(entries[s])
<1>1. {p \in Procs : pc[p] = "stamp" /\ slot[p] = s /\ call[p].op = "PUT"} = {}
  OBVIOUS
<1> QED
  BY <1>1 DEF Records, RecordAt, Entry

LEMMA RecordUnstampedNext ==
  ASSUME NEW s \in Slots, \A p \in Procs : ~(pc'[p] = "stamp" /\ call'[p].op = "PUT")
  PROVE  Records'[s] = Entry(entries'[s])
<1>1. {p \in Procs : pc'[p] = "stamp" /\ slot'[p] = s /\ call'[p].op = "PUT"} = {}
  OBVIOUS
<1> QED
  BY <1>1 DEF Records, RecordAt, Entry

LEMMA RecordStamped ==
  ASSUME NEW p \in Procs, pc[p] = "stamp", call[p].op = "PUT", NEW s \in Slots,
         \A q \in Procs : q # p => pc[q] # "stamp"
  PROVE  Records[s] = IF s = slot[p] THEN [value |-> entries[s].value, ttl |-> call[p].ttl]
                                     ELSE Entry(entries[s])
<1> DEFINE S == {q \in Procs : pc[q] = "stamp" /\ slot[q] = s /\ call[q].op = "PUT"}
<1>1. CASE s = slot[p]
  <2>1. S = {p}
    BY <1>1
  <2>2. (CHOOSE q \in S : TRUE) = p
    BY <2>1
  <2> QED
    BY <1>1, <2>1, <2>2 DEF Records, RecordAt
<1>2. CASE s # slot[p]
  <2>1. S = {}
    BY <1>2
  <2> QED
    BY <1>2, <2>1 DEF Records, RecordAt, Entry
<1> QED
  BY <1>1, <1>2

LEMMA RecordStampedNext ==
  ASSUME NEW p \in Procs, pc'[p] = "stamp", call'[p].op = "PUT", NEW s \in Slots,
         \A q \in Procs : q # p => pc'[q] # "stamp"
  PROVE  Records'[s] = IF s = slot'[p] THEN [value |-> entries'[s].value, ttl |-> call'[p].ttl]
                                       ELSE Entry(entries'[s])
<1> DEFINE S == {q \in Procs : pc'[q] = "stamp" /\ slot'[q] = s /\ call'[q].op = "PUT"}
<1>1. CASE s = slot'[p]
  <2>1. S = {p}
    BY <1>1
  <2>2. (CHOOSE q \in S : TRUE) = p
    BY <2>1
  <2> QED
    BY <1>1, <2>1, <2>2 DEF Records, RecordAt
<1>2. CASE s # slot'[p]
  <2>1. S = {}
    BY <1>2
  <2> QED
    BY <1>2, <2>1 DEF Records, RecordAt, Entry
<1> QED
  BY <1>1, <1>2

\* A step that changes neither the table nor the calls about to stamp it leaves
\* the map alone.
LEMMA StoreKept ==
  ASSUME entries' = entries,
         \A q \in Procs : \/ pc'[q] # "stamp" /\ pc[q] # "stamp"
                          \/ pc'[q] = pc[q] /\ slot'[q] = slot[q] /\ call'[q] = call[q]
  PROVE  StoreView' = StoreView
<1>1. ASSUME NEW s \in Slots PROVE RecordAt(s)' = RecordAt(s)
  <2> DEFINE S == {q \in Procs : pc[q] = "stamp" /\ slot[q] = s /\ call[q].op = "PUT"}
             T == {q \in Procs : pc'[q] = "stamp" /\ slot'[q] = s /\ call'[q].op = "PUT"}
  <2>1. T = S /\ \A q \in S : call'[q] = call[q]
    OBVIOUS
  <2>2. S # {} => (CHOOSE q \in S : TRUE) \in S
    OBVIOUS
  <2>3. S # {} => call'[CHOOSE q \in T : TRUE] = call[CHOOSE q \in S : TRUE]
    <3> HIDE DEF S, T
    <3> QED
      BY <2>1, <2>2
  <2>4. RecordAt(s) = [value |-> entries[s].value,
                       ttl |-> IF S = {} THEN entries[s].ttl ELSE call[CHOOSE q \in S : TRUE].ttl]
    BY DEF RecordAt
  <2>5. RecordAt(s)' = [value |-> entries'[s].value,
                        ttl |-> IF T = {} THEN entries'[s].ttl
                                          ELSE call'[CHOOSE q \in T : TRUE].ttl]
    BY DEF RecordAt
  <2> HIDE DEF S, T
  <2> QED
    BY <2>1, <2>3, <2>4, <2>5
<1>2. Records' = Records
  BY <1>1 DEF Records
<1> QED
  BY <1>2, StoreViewIs

\* While p is inside the lock, nobody else is about to stamp.
LEMMA NoOtherStamps ==
  ASSUME ViewInv, NEW p \in Procs, HoldsRead(p) \/ HoldsWrite(p), NEW q \in Procs, q # p
  PROVE  pc[q] # "stamp"
BY ExclusionHolds DEF ViewInv, Exclusion, HoldsWrite

-----------------------------------------------------------------------------
\* The keys of the map, and its size.

LEMMA RecordIsNotAbsent ==
  ASSUME ViewInv, NEW s \in Slots
  PROVE  Records[s] \in [value : Values, ttl : TTLs] /\ Records[s] # Absent
<1> DEFINE S == {q \in Procs : pc[q] = "stamp" /\ slot[q] = s /\ call[q].op = "PUT"}
<1>1. entries[s].value \in Values /\ entries[s].ttl \in TTLs
  BY DEF ViewInv, TypeInv, TypeOK, EntryType
<1>2. S # {} => call[CHOOSE q \in S : TRUE].ttl \in TTLs
  <2>1. S # {} => (CHOOSE q \in S : TRUE) \in Procs
    <3>1. S # {} => (CHOOSE q \in S : TRUE) \in S
      OBVIOUS
    <3> QED
      BY <3>1
  <2> HIDE DEF S
  <2> QED
    BY <2>1 DEF ViewInv, TypeInv, TypeOK, CallType
<1>3. Records[s] = [value |-> entries[s].value,
                    ttl |-> IF S = {} THEN entries[s].ttl ELSE call[CHOOSE q \in S : TRUE].ttl]
  BY DEF Records, RecordAt
<1> HIDE DEF S
<1>4. Records[s] \in [value : Values, ttl : TTLs]
  BY <1>1, <1>2, <1>3
<1> QED
  BY <1>4, AbsentAssumption

\* What StoreView holds of a key.
LEMMA ViewHolds ==
  ASSUME ViewInv, NEW k \in Keys, NEW s \in Slots, Holds(entries[s], k)
  PROVE  StoreView[k] = Records[s] /\ StoreView[k] # Absent
<1>1. StoreView[k] = Records[s]
  BY StoreViewIs, StoreHolds DEF ViewInv, FoundInv
<1> QED
  BY <1>1, RecordIsNotAbsent

LEMMA ViewLacks ==
  ASSUME NEW k \in Keys, \A s \in Slots : ~Holds(entries[s], k)
  PROVE  StoreView[k] = Absent
BY StoreViewIs, StoreLacks

LEMMA NotFound ==
  ASSUME ViewInv, NEW k \in Keys, FindKey(entries, k) = NoSlot, NEW s \in Slots
  PROVE  ~Holds(entries[s], k)
<1>1. s # NoSlot
  BY CapacityAssumption DEF Slots, NoSlot
<1> QED
  BY <1>1 DEF ViewInv, FoundInv, Reachable, Occupied, Holds

LEMMA PresentIs ==
  ASSUME ViewInv
  PROVE  KV!Present = {entries[s].key : s \in Occupied(entries)}
<1> DEFINE T == {entries[s].key : s \in Occupied(entries)}
<1>1. ASSUME NEW s \in Occupied(entries)
      PROVE  entries[s].key \in Keys /\ StoreView[entries[s].key] # Absent
  <2>1. entries[s].key \in Keys /\ s \in Slots /\ Holds(entries[s], entries[s].key)
    BY DEF ViewInv, FoundInv, Reachable, Occupied, Holds
  <2> QED
    BY <2>1, ViewHolds
<1>2. ASSUME NEW k \in Keys, StoreView[k] # Absent
      PROVE  k \in T
  <2>1. PICK s \in Slots : Holds(entries[s], k)
    BY <1>2, ViewLacks
  <2> QED
    BY <2>1 DEF Holds, Occupied
<1> QED
  BY <1>1, <1>2 DEF KV!Present

LEMMA IsFullIs ==
  ASSUME ViewInv
  PROVE  KV!IsFull <=> Occupied(entries) = Slots
<1>1. Cardinality(KV!Present) = Cardinality(Occupied(entries))
  BY PresentIs, KeysCounted DEF ViewInv, FoundInv
<1>2. \A S : KV!Cardinality(S) = Cardinality(S)
  BY DEF KV!Cardinality, Cardinality
<1>3. KV!IsFull <=> Cardinality(Occupied(entries)) >= Capacity
  BY <1>1, <1>2 DEF KV!IsFull
<1> QED
  BY <1>3, FullTable

\* A key has a place: it is there, or some slot is free.
LEMMA HasPlace ==
  ASSUME ViewInv, NEW k \in Keys
  PROVE  FindSlot(entries, k) # NoSlot <=> k \in KV!Present \/ ~KV!IsFull
<1>1. entries \in TableType
  BY DEF ViewInv, TypeInv, TypeOK, TableType
<1>2. ASSUME FindSlot(entries, k) # NoSlot
      PROVE  k \in KV!Present \/ ~KV!IsFull
  <2> DEFINE s == FindSlot(entries, k)
  <2>1. s \in Slots
    BY <1>2, FindSlotType
  <2>2. entries[s].state # "OCCUPIED" \/ Holds(entries[s], k)
    BY <1>1, <2>1, FindSlotFree
  <2> HIDE DEF s
  <2> QED
    BY <2>1, <2>2, PresentIs, IsFullIs DEF Occupied, Holds
<1>3. ASSUME FindSlot(entries, k) = NoSlot
      PROVE  k \notin KV!Present /\ KV!IsFull
  <2>1. \A s \in Slots : entries[s].state = "OCCUPIED" /\ entries[s].key # k
    BY <1>1, <1>3, NoSlotWhenFull
  <2> QED
    BY <2>1, PresentIs, IsFullIs DEF Occupied
<1> QED
  BY <1>2, <1>3

-----------------------------------------------------------------------------
\* Answers.

\* AnswerView of a process at l with call c and reply r.
AnswerOf(l, c, r) ==
    CASE l = "stamp"
           -> KV!Yes
      [] c.op = "GET" /\ l \in {"rd_unlock", "expired_lock", "remove"} /\ r = Pending
           -> KV!No
      [] r.kind = "hit"
           -> KV!Hit(r.value)
      [] r.kind = "index"
           -> IF r.index = NoSlot THEN KV!No ELSE KV!Yes
      [] r.kind = "snapshot"
           -> KV!Listing(r.items)
      [] OTHER
           -> r

Undecided == {"idle", "enter", "search", "copy", "reclaim", "evict", "claim", "store"}

LEMMA AnswerIs ==
  \A p \in Procs : /\ Answers[p] = AnswerOf(pc[p], call[p], reply[p])
                   /\ Answers'[p] = AnswerOf(pc'[p], call'[p], reply'[p])
BY DEF Answers, AnswerView, AnswerOf, KV!Yes, KV!No, KV!Hit, KV!Listing

LEMMA AnswerCases ==
  ASSUME NEW l, NEW c
  PROVE  /\ l \in Undecided => AnswerOf(l, c, Pending) = KV!Pending
         /\ AnswerOf("stamp", c, Pending) = KV!Yes
         /\ c.op = "GET" /\ l \in {"rd_unlock", "expired_lock", "remove"}
               => AnswerOf(l, c, Pending) = KV!No
         /\ l # "stamp" => /\ AnswerOf(l, c, Yes) = KV!Yes
                           /\ AnswerOf(l, c, No) = KV!No
BY DEF Undecided, AnswerOf, Pending, Yes, No, KV!Pending, KV!Yes, KV!No

LEMMA AnswerResults ==
  ASSUME NEW l, l # "stamp", NEW c
  PROVE  /\ \A e : AnswerOf(l, c, Hit(e)) = KV!Hit(e.value)
         /\ \A i : AnswerOf(l, c, Index(i)) = IF i = NoSlot THEN KV!No ELSE KV!Yes
         /\ \A n, items : AnswerOf(l, c, Snapshot(n, items)) = KV!Listing(items)
<1>1. \A e : Hit(e).kind = "hit" /\ Hit(e).value = e.value /\ Hit(e) # Pending
  BY DEF Hit, Pending
<1>2. \A i : Index(i).kind = "index" /\ Index(i).index = i /\ Index(i) # Pending
  BY DEF Index, Pending
<1>3. \A n, items : /\ Snapshot(n, items).kind = "snapshot" /\ Snapshot(n, items).items = items
                    /\ Snapshot(n, items) # Pending
  BY DEF Snapshot, Pending
<1> QED
  BY <1>1, <1>2, <1>3 DEF AnswerOf

\* A reply that is given stays the answer up to the return.
LEMMA AnswerStays ==
  ASSUME NEW l, NEW m, NEW c, NEW r, l # "stamp", m # "stamp", r # Pending
  PROVE  AnswerOf(l, c, r) = AnswerOf(m, c, r)
BY DEF AnswerOf

\* It is an answer.
LEMMA AnswerGiven ==
  ASSUME NEW l, NEW c, NEW r \in Replies, l # "stamp", r # Pending
  PROVE  AnswerOf(l, c, r) # KV!Pending
<1>1. CASE r \in {Yes, No}
  BY <1>1 DEF AnswerOf, Yes, No, Pending, KV!Pending
<1>2. CASE r \in [kind : {"hit"}, value : Values, timestamp : Nat]
  BY <1>2 DEF AnswerOf, Pending, KV!Hit, KV!Pending
<1>3. CASE r \in [kind : {"index"}, index : Slots \cup {NoSlot}]
  BY <1>3 DEF AnswerOf, Pending, KV!Yes, KV!No, KV!Pending
<1>4. CASE r \in [kind : {"snapshot"}, count : Nat, items : SUBSET (Keys \cup {NoKey})]
  BY <1>4 DEF AnswerOf, Pending, KV!Listing, KV!Pending
<1> QED
  BY <1>1, <1>2, <1>3, <1>4 DEF Replies

-----------------------------------------------------------------------------
\* What a step of p is to the contract.

OthersKept(p) == \A q \in Procs : q # p => /\ pc'[q] = pc[q] /\ call'[q] = call[q]
                                          /\ reply'[q] = reply[q] /\ slot'[q] = slot[q]

Answered(p) == AnswerOf(pc[p], call[p], reply[p])

\* Nothing, if p's answer and the map stay.
LEMMA Stutters ==
  ASSUME NEW p \in Procs, OthersKept(p), call'[p] = call[p], StoreView' = StoreView,
         pc[p] # "idle", pc'[p] # "idle",
         AnswerOf(pc'[p], call[p], reply'[p]) = Answered(p)
  PROVE  UNCHANGED KV!vars
<1>1. Requests' = Requests
  BY DEF OthersKept, Requests
<1>2. ASSUME NEW q \in Procs PROVE Answers'[q] = Answers[q]
  BY AnswerIs DEF OthersKept, Answered
<1>3. Answers' = Answers
  BY <1>2 DEF Answers
<1> QED
  BY <1>1, <1>3, ViewVars

\* The call takes effect in this step.
LEMMA Gives ==
  ASSUME ViewInv, NEW p \in Procs, OthersKept(p), call'[p] = call[p],
         pc[p] \in Undecided \ {"idle"}, pc'[p] # "idle"
  PROVE  /\ KV!Waits(p, call[p].op) /\ Requests[p] = call[p]
         /\ KV!Give(p, AnswerOf(pc'[p], call[p], reply'[p]))
<1>1. Requests[p] = call[p] /\ pc[p] # "idle"
  BY DEF Requests, Undecided
<1>2. reply[p] = Pending
  BY DEF ViewInv, ReplyInv, Undecided
<1>3. Answers[p] = KV!Pending
  BY <1>2, AnswerIs, AnswerCases
<1>4. call[p].op # "none" /\ call[p] # IdleRequest
  BY DEF ViewInv, TypeInv, TypeOK, CallType, Ops, IdleRequest
<1>5. KV!Waits(p, call[p].op)
  BY <1>1, <1>3, <1>4 DEF KV!Waits, Requests, Answers
<1>6. Requests' = Requests
  BY <1>1 DEF OthersKept, Requests
<1>7. Answers' = [Answers EXCEPT ![p] = AnswerOf(pc'[p], call[p], reply'[p])]
  <2>1. \A q \in Procs : q # p => Answers'[q] = Answers[q]
    BY AnswerIs DEF OthersKept
  <2>2. Answers'[p] = AnswerOf(pc'[p], call[p], reply'[p])
    BY AnswerIs
  <2> QED
    BY <2>1, <2>2 DEF Answers
<1> QED
  BY <1>1, <1>5, <1>6, <1>7 DEF KV!Give, Requests, Answers

-----------------------------------------------------------------------------
\* Steps that leave the table alone.

KVStep == [KV!Next]_(KV!vars)

\* Types, for the calls of p.
LEMMA CallTypes ==
  ASSUME ViewInv
  PROVE  /\ pc \in [Procs -> Labels] /\ call \in [Procs -> CallType]
         /\ reply \in [Procs -> Replies] /\ slot \in [Procs -> Slots \cup {NoSlot}]
         /\ entries \in TableType /\ Reachable(entries)
BY DEF ViewInv, TypeInv, TypeOK, TableType, FoundInv

LEMMA CallKey ==
  ASSUME ViewInv, NEW p \in Procs, pc[p] \notin {"idle", "done"}, call[p].op # "SNAPSHOT"
  PROVE  call[p].key \in Keys
BY ValidKey DEF ViewInv, TypeInv, TypeOK, CallInv

LEMMA InvokeMaps ==
  ASSUME ViewInv, NEW p \in Procs, NEW c \in Calls, Invoke(p, c)
  PROVE  KVStep
<1>1. /\ pc[p] = "idle" /\ OthersKept(p) /\ call'[p] = c
      /\ pc'[p] = IF Valid(c) THEN "enter" ELSE "done"
      /\ reply'[p] = IF Valid(c) THEN reply[p] ELSE No
      /\ entries' = entries
  BY CallTypes DEF Invoke, At, Goto, Answer, OthersKept
<1>2. reply[p] = Pending
  BY <1>1 DEF ViewInv, ReplyInv
<1>3. StoreView' = StoreView
  BY <1>1, StoreKept DEF OthersKept
<1>4. Requests[p] = IdleRequest /\ Requests' = [Requests EXCEPT ![p] = c]
  BY <1>1 DEF OthersKept, Requests
<1>5. Answers' = [Answers EXCEPT ![p] = IF Valid(c) THEN KV!Pending ELSE KV!No]
  <2>1. \A q \in Procs : q # p => Answers'[q] = Answers[q]
    BY <1>1, AnswerIs DEF OthersKept
  <2>2. Answers'[p] = IF Valid(c) THEN KV!Pending ELSE KV!No
    BY <1>1, <1>2, AnswerIs, AnswerCases DEF Undecided
  <2> QED
    BY <2>1, <2>2 DEF Answers
<1>6. KV!Invoke(p, c)
  BY <1>3, <1>4, <1>5 DEF KV!Invoke, Requests, Answers
<1> QED
  BY <1>6 DEF KVStep, KV!Next

LEMMA ReturnMaps ==
  ASSUME ViewInv, NEW p \in Procs, Return(p)
  PROVE  KVStep
<1>1. /\ pc[p] = "done" /\ OthersKept(p) /\ pc'[p] = "idle" /\ reply'[p] = Pending
      /\ entries' = entries
  BY CallTypes DEF Return, At, Goto, Answer, OthersKept
<1>2. reply[p] # Pending /\ reply[p] \in Replies
  BY <1>1, CallTypes DEF ViewInv, ReplyInv
<1>3. StoreView' = StoreView
  BY <1>1, StoreKept DEF OthersKept
<1>4. Requests' = [Requests EXCEPT ![p] = IdleRequest]
  BY <1>1 DEF OthersKept, Requests
<1>5. Answers[p] # KV!Pending
  BY <1>1, <1>2, AnswerIs, AnswerGiven
<1>6. Answers' = [Answers EXCEPT ![p] = KV!Pending]
  <2>1. \A q \in Procs : q # p => Answers'[q] = Answers[q]
    BY <1>1, AnswerIs DEF OthersKept
  <2>2. Answers'[p] = KV!Pending
    BY <1>1, AnswerIs, AnswerCases DEF Undecided
  <2> QED
    BY <2>1, <2>2 DEF Answers
<1>7. KV!Return(p)
  BY <1>3, <1>4, <1>5, <1>6 DEF KV!Return, Requests, Answers
<1> QED
  BY <1>7 DEF KVStep, KV!Next

\* Locks, unlocks, the bookkeeping of a GET, the search and the claim of a PUT.
LEMMA LockStepMaps ==
  ASSUME ViewInv, NEW p \in Procs,
         \/ EnterRead(p) \/ EnterWrite(p) \/ RdUnlock(p) \/ WrUnlock(p)
         \/ MetricsLock(p) \/ AddGetMetrics(p) \/ ExpiredLock(p) \/ PutProbe(p) \/ PutClaim(p)
  PROVE  KVStep
<1>1. entries' = entries /\ reply' = reply /\ call' = call
  BY DEF EnterRead, EnterWrite, RdUnlock, WrUnlock, MetricsLock, AddGetMetrics, ExpiredLock,
         PutProbe, PutClaim
<1>2. OthersKept(p)
  BY <1>1, CallTypes DEF EnterRead, EnterWrite, RdUnlock, WrUnlock, MetricsLock, AddGetMetrics,
         ExpiredLock, PutProbe, PutSearch, PutClaim, Goto, OthersKept
<1>3. pc[p] \notin {"idle", "stamp"} /\ pc'[p] \notin {"idle", "stamp"}
  BY CallTypes DEF EnterRead, EnterWrite, RdUnlock, WrUnlock, MetricsLock, AddGetMetrics,
         ExpiredLock, PutProbe, PutSearch, PutClaim, At, Goto
<1>4. StoreView' = StoreView
  BY <1>1, <1>2, <1>3, StoreKept DEF OthersKept
<1>5. CASE reply[p] # Pending
  <2>1. AnswerOf(pc'[p], call[p], reply'[p]) = Answered(p)
    BY <1>1, <1>3, <1>5, AnswerStays DEF Answered
  <2> QED
    BY <1>1, <1>2, <1>3, <1>4, <2>1, Stutters DEF KVStep
<1>6. CASE reply[p] = Pending
  <2>1. \/ pc[p] \in Undecided /\ pc'[p] \in Undecided
        \/ /\ call[p].op = "GET" /\ pc[p] \in {"rd_unlock", "expired_lock", "remove"}
           /\ pc'[p] \in {"rd_unlock", "expired_lock", "remove"}
    <3>1. CASE EnterRead(p) \/ EnterWrite(p) \/ PutProbe(p) \/ PutClaim(p)
      BY <3>1, CallTypes DEF EnterRead, EnterWrite, PutProbe, PutSearch, PutClaim, At, Goto,
                             Undecided
    <3>2. CASE RdUnlock(p) \/ ExpiredLock(p)
      BY <1>6, <3>2, CallTypes DEF RdUnlock, ExpiredLock, At, Goto, ViewInv, ReplyInv, TypeInv,
                                   CallInv
    <3>3. ~(WrUnlock(p) \/ MetricsLock(p) \/ AddGetMetrics(p))
      BY <1>6 DEF WrUnlock, MetricsLock, AddGetMetrics, At, ViewInv, ReplyInv
    <3> QED
      BY <3>1, <3>2, <3>3
  <2>2. AnswerOf(pc'[p], call[p], Pending) = AnswerOf(pc[p], call[p], Pending)
    BY <2>1, AnswerCases
  <2>3. AnswerOf(pc'[p], call[p], reply'[p]) = Answered(p)
    BY <1>1, <1>6, <2>2 DEF Answered
  <2> QED
    BY <1>1, <1>2, <1>3, <1>4, <2>3, Stutters DEF KVStep
<1> QED
  BY <1>5, <1>6

LEMMA LockFailsMaps ==
  ASSUME ViewInv, NEW p \in Procs, LockFails(p)
  PROVE  KVStep
<1>1. /\ LockCanFail /\ OthersKept(p) /\ call' = call /\ entries' = entries /\ pc'[p] = "done"
      /\ pc[p] \in {"enter", "metrics_lock", "expired_lock"}
      /\ reply'[p] = IF pc[p] = "metrics_lock" THEN reply[p] ELSE No
  BY CallTypes DEF LockFails, Goto, Answer, OthersKept
<1>2. StoreView' = StoreView
  BY <1>1, StoreKept DEF OthersKept
<1>3. CASE pc[p] = "enter"
  <2>1. /\ KV!Waits(p, call[p].op) /\ Requests[p] = call[p]
        /\ KV!Give(p, AnswerOf(pc'[p], call[p], reply'[p]))
    BY <1>1, <1>3, Gives DEF Undecided
  <2>2. AnswerOf(pc'[p], call[p], reply'[p]) = KV!No
    BY <1>1, <1>3, AnswerCases
  <2>3. KV!Refuse(p)
    BY <1>1, <1>2, <2>1, <2>2 DEF KV!Refuse, KV!Waits
  <2> QED
    BY <2>3 DEF KVStep, KV!Next
<1>4. CASE pc[p] = "metrics_lock"
  <2>1. reply[p] # Pending
    BY <1>4 DEF ViewInv, ReplyInv
  <2>2. AnswerOf(pc'[p], call[p], reply'[p]) = Answered(p)
    BY <1>1, <1>4, <2>1, AnswerStays DEF Answered
  <2> QED
    BY <1>1, <1>2, <1>4, <2>2, Stutters DEF KVStep
<1>5. CASE pc[p] = "expired_lock"
  <2>1. reply[p] = Pending /\ call[p].op = "GET"
    BY <1>5 DEF ViewInv, ReplyInv, TypeInv, CallInv
  <2>2. AnswerOf(pc'[p], call[p], reply'[p]) = Answered(p)
    BY <1>1, <1>5, <2>1, AnswerCases DEF Answered
  <2> QED
    BY <1>1, <1>2, <1>5, <2>2, Stutters DEF KVStep
<1> QED
  BY <1>1, <1>3, <1>4, <1>5

\* Inside the lock, but for a PUT about to stamp, the map is the table's.
LEMMA InsideView ==
  ASSUME ViewInv, NEW p \in Procs, HoldsRead(p) \/ HoldsWrite(p),
         pc[p] # "stamp" \/ call[p].op # "PUT"
  PROVE  \A s \in Slots : Records[s] = Entry(entries[s])
<1>1. \A q \in Procs : ~(pc[q] = "stamp" /\ call[q].op = "PUT")
  BY NoOtherStamps
<1> QED
  BY <1>1, RecordUnstamped

LEMMA GetProbeMaps ==
  ASSUME ViewInv, NEW p \in Procs, GetProbe(p)
  PROVE  KVStep
<1> DEFINE k == call[p].key
           s == FindKey(entries, k)
<1>1. /\ pc[p] = "search" /\ call[p].op = "GET" /\ OthersKept(p) /\ call' = call
      /\ entries' = entries
  BY CallTypes DEF GetProbe, At, Goto, Answer, OthersKept
<1>2. IF s # NoSlot /\ ~Expired(entries[s], now)
      THEN pc'[p] = "copy" /\ reply'[p] = reply[p]
      ELSE pc'[p] = "rd_unlock" /\ reply'[p] = IF s = NoSlot THEN No ELSE Pending
  BY CallTypes DEF GetProbe, Goto, Answer
<1>3. k \in Keys /\ reply[p] = Pending
  BY <1>1, CallKey DEF ViewInv, ReplyInv
<1>4. StoreView' = StoreView
  <2>1. pc'[p] # "stamp"
    BY <1>2
  <2> QED
    BY <1>1, <2>1, StoreKept DEF OthersKept
<1>5. s \in Slots \cup {NoSlot} /\ (s # NoSlot => Holds(entries[s], k))
  BY <1>3, FindKeyType, FindKeyFinds
<1>6. \A r \in Slots : Records[r] = Entry(entries[r])
  BY <1>1, InsideView DEF HoldsRead, ReadOps
<1>7. CASE s # NoSlot /\ ~Expired(entries[s], now)
  <2>1. AnswerOf(pc'[p], call[p], reply'[p]) = Answered(p)
    BY <1>1, <1>2, <1>3, <1>7, AnswerCases DEF Answered, Undecided
  <2> QED
    BY <1>1, <1>2, <1>4, <1>7, <2>1, Stutters DEF KVStep
<1>8. CASE s = NoSlot \/ Expired(entries[s], now)
  <2>1. pc'[p] = "rd_unlock" /\ reply'[p] \in {No, Pending}
    BY <1>2, <1>8
  <2>2. AnswerOf(pc'[p], call[p], reply'[p]) = KV!No
    BY <1>1, <2>1, AnswerCases
  <2>3. KV!Waits(p, "GET") /\ Requests[p] = call[p] /\ KV!Give(p, KV!No)
    BY <1>1, <2>1, <2>2, Gives DEF Undecided
  <2>4. k \notin KV!Present \ KV!Expirable
    <3>1. CASE s = NoSlot
      <4>1. StoreView[k] = Absent
        BY <1>3, <3>1, NotFound, ViewLacks
      <4> QED
        BY <4>1 DEF KV!Present
    <3>2. CASE s # NoSlot
      <4>1. s \in Slots /\ Holds(entries[s], k) /\ entries[s].ttl > 0
        BY <1>5, <1>8, <3>2 DEF Expired
      <4>2. StoreView[k] = Entry(entries[s])
        BY <1>3, <1>6, <4>1, ViewHolds
      <4>3. StoreView[k].ttl > 0
        BY <4>1, <4>2 DEF Entry
      <4> QED
        BY <4>3 DEF KV!Expirable
    <3> QED
      BY <3>1, <3>2
  <2>5. KV!GetMiss(p)
    <3> HIDE DEF s
    <3> QED
      BY <1>4, <2>3, <2>4 DEF KV!GetMiss, Requests
  <2> QED
    BY <2>5 DEF KVStep, KV!Next
<1> QED
  BY <1>5, <1>7, <1>8

LEMMA GetCopyMaps ==
  ASSUME ViewInv, NEW p \in Procs, GetCopy(p)
  PROVE  KVStep
<1> DEFINE k == call[p].key
           e == entries[slot[p]]
<1>1. /\ pc[p] = "copy" /\ pc'[p] = "rd_unlock" /\ OthersKept(p) /\ call' = call
      /\ entries' = entries /\ reply'[p] = Hit(e)
  BY CallTypes DEF GetCopy, At, Goto, Answer, OthersKept
<1>2. call[p].op = "GET" /\ slot[p] \in Slots /\ Holds(e, k)
  BY <1>1 DEF ViewInv, TypeInv, CallInv, HitInv
<1>3. k \in Keys
  BY <1>1, <1>2, CallKey
<1>4. StoreView' = StoreView
  BY <1>1, StoreKept DEF OthersKept
<1>5. StoreView[k] = Entry(e) /\ StoreView[k] # Absent
  <2>1. Records[slot[p]] = Entry(e)
    BY <1>1, <1>2, InsideView DEF HoldsRead
  <2> QED
    BY <1>2, <1>3, <2>1, ViewHolds
<1>6. KV!Waits(p, "GET") /\ Requests[p] = call[p] /\ KV!Give(p, KV!Hit(e.value))
  <2>1. AnswerOf("rd_unlock", call[p], Hit(e)) = KV!Hit(e.value)
    BY AnswerResults
  <2> QED
    BY <1>1, <1>2, <2>1, Gives DEF Undecided
<1>7. KV!GetHit(p)
  <2>1. k \in KV!Present
    BY <1>3, <1>5 DEF KV!Present
  <2>2. StoreView[k].value = e.value
    BY <1>5 DEF Entry
  <2> QED
    BY <1>4, <1>6, <2>1, <2>2 DEF KV!GetHit, Requests
<1> QED
  BY <1>7 DEF KVStep, KV!Next

LEMMA ReadersMap ==
  ASSUME ViewInv, NEW p \in Procs, FindProbe(p) \/ ReadSnapshot(p)
  PROVE  KVStep
<1>1. /\ pc[p] = "search" /\ pc'[p] = "rd_unlock" /\ OthersKept(p) /\ call' = call
      /\ entries' = entries
  BY CallTypes DEF FindProbe, ReadSnapshot, At, Goto, Answer, OthersKept
<1>2. StoreView' = StoreView
  BY <1>1, StoreKept DEF OthersKept
<1>3. /\ KV!Waits(p, call[p].op) /\ Requests[p] = call[p]
      /\ KV!Give(p, AnswerOf("rd_unlock", call[p], reply'[p]))
  BY <1>1, Gives DEF Undecided
<1>4. CASE FindProbe(p)
  <2> DEFINE k == call[p].key
             i == FindSlot(entries, k)
  <2>1. call[p].op = "FIND" /\ reply'[p] = Index(i)
    BY <1>4, CallTypes DEF FindProbe, Answer
  <2>2. k \in Keys
    BY <1>1, <2>1, CallKey
  <2>3. i # NoSlot <=> k \in KV!Present \/ ~KV!IsFull
    BY <2>2, HasPlace
  <2>4. AnswerOf("rd_unlock", call[p], Index(i)) = IF i = NoSlot THEN KV!No ELSE KV!Yes
    <3> HIDE DEF i
    <3> QED
      BY AnswerResults
  <2>5. KV!Find(p)
    <3> HIDE DEF i
    <3> QED
      BY <1>2, <1>3, <2>1, <2>3, <2>4 DEF KV!Find, Requests
  <2> QED
    BY <2>5 DEF KVStep, KV!Next
<1>5. CASE ReadSnapshot(p)
  <2> DEFINE items == {entries[s].key : s \in Occupied(entries)}
  <2>1. call[p].op = "SNAPSHOT" /\ reply'[p] = Snapshot(entry_count, items)
    BY <1>5, CallTypes DEF ReadSnapshot, Answer
  <2>2. items = KV!Present
    BY PresentIs
  <2>3. AnswerOf("rd_unlock", call[p], reply'[p]) = KV!Listing(KV!Present)
    <3> HIDE DEF items
    <3> QED
      BY <2>1, <2>2, AnswerResults
  <2>4. KV!List(p)
    BY <1>2, <1>3, <2>1, <2>3 DEF KV!List
  <2> QED
    BY <2>4 DEF KVStep, KV!Next
<1> QED
  BY <1>4, <1>5

-----------------------------------------------------------------------------
\* Steps that change the table.

\* What a removal by p does to the map.
LEMMA RemovalView ==
  ASSUME ViewInv, NEW p \in Procs, HoldsWrite(p), OthersKept(p),
         pc[p] # "stamp", pc'[p] # "stamp", NEW T \in SUBSET Occupied(entries),
         \A s \in Slots : entries'[s] = IF s \in T THEN Blank("DELETED") ELSE entries[s]
  PROVE  StoreView' = [k \in Keys |-> IF k \in {entries[s].key : s \in T} THEN Absent
                                                                      ELSE StoreView[k]]
<1>1. \A s \in Slots : Records[s] = Entry(entries[s])
  BY InsideView
<1>2. \A q \in Procs : pc'[q] # "stamp"
  BY NoOtherStamps DEF OthersKept
<1>3. \A s \in Slots : Records'[s] = Entry(entries'[s])
  BY <1>2, RecordUnstampedNext
<1>4. \A s \in Slots \ T : Records'[s] = Records[s]
  BY <1>1, <1>3
<1>5. Reachable(entries)
  BY CallTypes
<1>6. StoreWith(entries', Records')
        = [k \in Keys |-> IF k \in {entries[s].key : s \in T} THEN Absent
                                                      ELSE StoreWith(entries, Records)[k]]
  BY <1>4, <1>5, StoreAfterRemoval
<1> QED
  BY <1>6, StoreViewIs

\* The removal of one slot, as remove_entry does it.
LEMMA RemoveOneView ==
  ASSUME ViewInv, NEW p \in Procs, HoldsWrite(p), OthersKept(p),
         pc[p] # "stamp", pc'[p] # "stamp",
         NEW k \in Keys, NEW s \in Slots, Holds(entries[s], k), entries' = Remove(entries, s)
  PROVE  StoreView' = [StoreView EXCEPT ![k] = Absent]
<1>1. {s} \in SUBSET Occupied(entries) /\ entries[s].key = k
  BY DEF Holds, Occupied
<1>2. \A r \in Slots : entries'[r] = IF r \in {s} THEN Blank("DELETED") ELSE entries[r]
  BY CallTypes DEF Remove, TableType
<1>3. StoreView' = [j \in Keys |-> IF j \in {entries[r].key : r \in {s}} THEN Absent
                                                                     ELSE StoreView[j]]
  BY <1>1, <1>2, RemovalView
<1>4. {entries[r].key : r \in {s}} = {k}
  BY <1>1
<1>5. StoreView' = [j \in Keys |-> IF j = k THEN Absent ELSE StoreView[j]]
  BY <1>3, <1>4
<1>6. StoreView = [j \in Keys |-> StoreView[j]]
  BY DEF StoreView
<1> QED
  BY <1>5, <1>6

\* A table that a writer leaves alone.
LEMMA NoRemovalView ==
  ASSUME ViewInv, NEW p \in Procs, OthersKept(p), pc[p] # "stamp", pc'[p] # "stamp",
         entries' = entries
  PROVE  StoreView' = StoreView
BY StoreKept DEF OthersKept

LEMMA RemoveExpiredMaps ==
  ASSUME ViewInv, NEW p \in Procs, RemoveExpired(p)
  PROVE  KVStep
<1> DEFINE k == call[p].key
           s == FindKey(entries, k)
<1>1. /\ pc[p] = "remove" /\ pc'[p] = "wr_unlock" /\ OthersKept(p) /\ call' = call
      /\ reply'[p] = No
  BY CallTypes DEF RemoveExpired, At, Goto, Answer, OthersKept
<1>2. entries' = IF s # NoSlot /\ Expired(entries[s], now) THEN Remove(entries, s) ELSE entries
  BY DEF RemoveExpired
<1>3. call[p].op = "GET" /\ reply[p] = Pending
  BY <1>1 DEF ViewInv, TypeInv, CallInv, ReplyInv
<1>4. k \in Keys
  BY <1>1, <1>3, CallKey
<1>5. s \in Slots \cup {NoSlot} /\ (s # NoSlot => Holds(entries[s], k))
  BY <1>4, FindKeyType, FindKeyFinds
<1>6. AnswerOf(pc'[p], call[p], reply'[p]) = Answered(p)
  BY <1>1, <1>3, AnswerCases DEF Answered
<1>7. HoldsWrite(p)
  BY <1>1 DEF HoldsWrite
<1>8. CASE s # NoSlot /\ Expired(entries[s], now)
  <2>1. s \in Slots /\ Holds(entries[s], k) /\ entries[s].ttl > 0
    BY <1>5, <1>8 DEF Expired
  <2>2. StoreView' = [StoreView EXCEPT ![k] = Absent]
    <3> HIDE DEF s, k
    <3> QED
      BY <1>1, <1>2, <1>4, <1>7, <1>8, <2>1, RemoveOneView
  <2>3. StoreView[k] = Entry(entries[s]) /\ StoreView[k] # Absent
    BY <1>1, <1>4, <1>7, <2>1, InsideView, ViewHolds
  <2>4. {k} \subseteq KV!Expirable /\ k \in KV!Present
    <3>1. StoreView[k].ttl > 0
      BY <2>1, <2>3 DEF Entry
    <3> QED
      BY <1>4, <2>3, <3>1 DEF KV!Expirable, KV!Present
  <2>5. StoreView' = [j \in Keys |-> IF j \in {k} THEN Absent ELSE StoreView[j]]
    <3>1. StoreView = [j \in Keys |-> StoreView[j]]
      BY DEF StoreView
    <3> HIDE DEF k
    <3> QED
      BY <2>2, <3>1
  <2>6. Requests' = Requests
    BY <1>1 DEF OthersKept, Requests
  <2>7. Answers' = Answers
    <3>1. \A q \in Procs : Answers'[q] = Answers[q]
      BY <1>1, <1>6, AnswerIs DEF OthersKept, Answered
    <3> QED
      BY <3>1 DEF Answers
  <2>8. KV!Expire({k})
    BY <2>4, <2>5, <2>6, <2>7 DEF KV!Expire, Requests, Answers
  <2>9. {k} \in SUBSET Keys
    BY <1>4
  <2> QED
    BY <2>8, <2>9 DEF KVStep, KV!Next
<1>9. CASE ~(s # NoSlot /\ Expired(entries[s], now))
  <2>1. entries' = entries
    BY <1>2, <1>9
  <2>2. StoreView' = StoreView
    BY <1>1, <2>1, NoRemovalView
  <2> QED
    BY <1>1, <1>6, <2>2, Stutters DEF KVStep
<1> QED
  BY <1>8, <1>9

LEMMA PutReclaimMaps ==
  ASSUME ViewInv, NEW p \in Procs, PutReclaim(p)
  PROVE  KVStep
<1> DEFINE T == ExpiredSlots(entries, now)
           S == {entries[s].key : s \in T}
<1>1. /\ pc[p] = "reclaim" /\ pc'[p] \in {"claim", "evict"} /\ OthersKept(p) /\ call' = call
      /\ reply' = reply
  BY CallTypes DEF PutReclaim, PutSearch, At, Goto, OthersKept
<1>2. \A s \in Slots : entries'[s] = IF s \in T THEN Blank("DELETED") ELSE entries[s]
  BY DEF PutReclaim, Reclaim
<1>3. HoldsWrite(p) /\ reply[p] = Pending
  BY <1>1 DEF HoldsWrite, ViewInv, ReplyInv
<1>4. T \in SUBSET Occupied(entries)
  BY DEF ExpiredSlots
<1>5. StoreView' = [k \in Keys |-> IF k \in S THEN Absent ELSE StoreView[k]]
  <2> HIDE DEF T
  <2> QED
    BY <1>1, <1>2, <1>3, <1>4, RemovalView
<1>6. AnswerOf(pc'[p], call[p], reply'[p]) = Answered(p)
  BY <1>1, <1>3, AnswerCases DEF Answered, Undecided
<1>7. CASE S = {}
  <2>1. StoreView = [k \in Keys |-> StoreView[k]]
    BY DEF StoreView
  <2>2. StoreView' = StoreView
    <3> HIDE DEF S
    <3> QED
      BY <1>5, <1>7, <2>1
  <2> QED
    BY <1>1, <1>6, <2>2, Stutters DEF KVStep
<1>8. CASE S # {}
  <2>1. ASSUME NEW s \in T
        PROVE  entries[s].key \in KV!Expirable /\ entries[s].key \in Keys
    <3>1. s \in Slots /\ Holds(entries[s], entries[s].key) /\ entries[s].ttl > 0
      BY <2>1 DEF ExpiredSlots, Occupied, Expired, Holds
    <3>2. entries[s].key \in Keys
      BY <3>1, CallTypes DEF Reachable, Occupied, Holds
    <3>3. StoreView[entries[s].key] = Entry(entries[s]) /\ StoreView[entries[s].key] # Absent
      BY <1>1, <1>3, <3>1, <3>2, InsideView, ViewHolds
    <3>4. StoreView[entries[s].key].ttl > 0
      BY <3>1, <3>3 DEF Entry
    <3> QED
      BY <3>2, <3>3, <3>4 DEF KV!Expirable, KV!Present
  <2>2. S \subseteq KV!Expirable /\ S \in SUBSET Keys
    BY <2>1
  <2>3. Requests' = Requests
    BY <1>1 DEF OthersKept, Requests
  <2>4. Answers' = Answers
    <3>1. \A q \in Procs : Answers'[q] = Answers[q]
      BY <1>1, <1>6, AnswerIs DEF OthersKept, Answered
    <3> QED
      BY <3>1 DEF Answers
  <2>5. KV!Expire(S)
    <3> HIDE DEF S
    <3> QED
      BY <1>5, <1>8, <2>2, <2>3, <2>4 DEF KV!Expire, Requests, Answers
  <2> QED
    BY <2>2, <2>5 DEF KVStep, KV!Next
<1> QED
  BY <1>7, <1>8

LEMMA PutEvictMaps ==
  ASSUME ViewInv, NEW p \in Procs, PutEvict(p)
  PROVE  KVStep
<1> DEFINE o == OldestSlot(entries)
           k == entries[o].key
<1>1. pc[p] = "evict" /\ call' = call
  BY DEF PutEvict, At
<1>2. o \in Occupied(entries) /\ FindSlot(Remove(entries, o), call[p].key) # NoSlot
  BY <1>1, EvictionMakesRoom DEF ViewInv
<1>3. /\ entries' = Remove(entries, o)
      /\ PutSearch(p, entries', "wr_unlock")
      /\ IF slot'[p] = NoSlot THEN Answer(p, No) ELSE UNCHANGED reply
  BY <1>2 DEF PutEvict
<1>4. slot' = [slot EXCEPT ![p] = FindSlot(entries', call[p].key)] /\ pc' = [pc EXCEPT ![p] = "claim"]
  BY <1>2, <1>3 DEF PutSearch, Goto
<1>5. slot'[p] # NoSlot
  BY <1>2, <1>3, <1>4, CallTypes
<1>6. OthersKept(p) /\ pc'[p] = "claim" /\ reply' = reply
  BY <1>1, <1>3, <1>4, <1>5, CallTypes DEF OthersKept
<1>7. HoldsWrite(p) /\ reply[p] = Pending
  BY <1>1 DEF HoldsWrite, ViewInv, ReplyInv
<1>8. o \in Slots /\ Holds(entries[o], k) /\ k \in Keys
  BY <1>2, CallTypes DEF Occupied, Holds, Reachable
<1>9. StoreView' = [StoreView EXCEPT ![k] = Absent]
  <2> HIDE DEF o, k
  <2> QED
    BY <1>1, <1>3, <1>6, <1>7, <1>8, RemoveOneView
<1>10. call[p].op = "PUT"
  BY <1>1 DEF ViewInv, TypeInv, CallInv
<1>11. call[p].key \notin KV!Present /\ KV!IsFull
  <2>1. call[p].key \in Keys /\ FindSlot(entries, call[p].key) = NoSlot
    BY <1>1, <1>10, CallKey DEF ViewInv, FullInv
  <2> QED
    BY <2>1, HasPlace
<1>12. k \in KV!Present
  BY <1>2, PresentIs
<1>13. Requests' = Requests /\ Requests[p] = call[p] /\ KV!Waits(p, "PUT")
  <2>1. Requests' = Requests
    BY <1>1, <1>6 DEF OthersKept, Requests
  <2> QED
    BY <1>1, <1>6, <1>10, <2>1, Gives DEF Undecided
<1>14. Answers' = Answers
  <2>1. Answers'[p] = Answers[p]
    BY <1>1, <1>6, <1>7, AnswerIs, AnswerCases DEF Undecided
  <2>2. \A q \in Procs : Answers'[q] = Answers[q]
    BY <1>6, <2>1, AnswerIs DEF OthersKept
  <2> QED
    BY <2>2 DEF Answers
<1>15. KV!Evict(p, k)
  <2> HIDE DEF k
  <2> QED
    BY <1>9, <1>11, <1>12, <1>13, <1>14 DEF KV!Evict, Requests, Answers
<1> QED
  BY <1>8, <1>15 DEF KVStep, KV!Next

\* A call takes effect by writing its key's slot.
LEMMA WriteView ==
  ASSUME ViewInv, NEW k \in Keys, NEW t \in Slots, Reachable(entries'), Holds(entries'[t], k),
         entries[t].state # "OCCUPIED" \/ Holds(entries[t], k),
         \A s \in Slots \ {t} : entries'[s] = entries[s] /\ Records'[s] = Records[s]
  PROVE  StoreView' = [StoreView EXCEPT ![k] = Records'[t]]
<1>1. Reachable(entries)
  BY CallTypes
<1>2. StoreWith(entries', Records') = [StoreWith(entries, Records) EXCEPT ![k] = Records'[t]]
  BY <1>1, StoreAfterWrite
<1> QED
  BY <1>2, StoreViewIs

LEMMA PutStoreMaps ==
  ASSUME ViewInv, NEW p \in Procs, PutStore(p), Reachable(entries')
  PROVE  KVStep
<1> DEFINE k == call[p].key
           t == slot[p]
           r == [value |-> call[p].value, ttl |-> call[p].ttl]
<1>1. /\ pc[p] = "store" /\ pc'[p] = "stamp" /\ OthersKept(p) /\ call' = call /\ slot' = slot
      /\ reply' = reply /\ call[p].op = "PUT"
  BY CallTypes DEF PutStore, At, Goto, OthersKept
<1>2. t \in Slots /\ t = FindSlot(entries, k) /\ reply[p] = Pending /\ HoldsWrite(p)
  BY <1>1 DEF ViewInv, TypeInv, CallInv, FoundInv, ReplyInv, HoldsWrite
<1>3. k \in Keys
  BY <1>1, CallKey
<1>4. entries[t] \in EntryType /\ entries \in TableType
  BY <1>2, CallTypes DEF TableType
<1>5. entries' = [entries EXCEPT ![t] = [entries[t] EXCEPT !.state = "OCCUPIED", !.key = k,
                                                           !.value = call[p].value]]
  BY DEF PutStore
<1>6. /\ entries'[t].state = "OCCUPIED" /\ entries'[t].key = k
      /\ entries'[t].value = call[p].value
  BY <1>2, <1>4, <1>5 DEF TableType, EntryType
<1>7. \A s \in Slots \ {t} : entries'[s] = entries[s]
  BY <1>4, <1>5 DEF TableType
<1>8. \A q \in Procs : q # p => pc'[q] # "stamp"
  BY <1>1, <1>2, NoOtherStamps DEF OthersKept
<1>9. \A s \in Slots : Records'[s] = IF s = t THEN r ELSE Entry(entries'[s])
  BY <1>1, <1>6, <1>8, RecordStampedNext
<1>10. \A s \in Slots : Records[s] = Entry(entries[s])
  BY <1>1, <1>2, InsideView
<1>11. entries[t].state # "OCCUPIED" \/ Holds(entries[t], k)
  BY <1>2, <1>3, <1>4, FindSlotFree
<1>12. StoreView' = [StoreView EXCEPT ![k] = r]
  <2>1. \A s \in Slots \ {t} : entries'[s] = entries[s] /\ Records'[s] = Records[s]
    BY <1>7, <1>9, <1>10
  <2>2. Holds(entries'[t], k) /\ Records'[t] = r
    BY <1>2, <1>6, <1>9 DEF Holds
  <2> HIDE DEF k, t, r
  <2> QED
    BY <1>2, <1>3, <1>11, <2>1, <2>2, WriteView
<1>13. KV!Waits(p, "PUT") /\ Requests[p] = call[p] /\ KV!Give(p, KV!Yes)
  <2>1. AnswerOf("stamp", call[p], reply'[p]) = KV!Yes
    BY <1>1, <1>2, AnswerCases
  <2> QED
    BY <1>1, <2>1, Gives DEF Undecided
<1>14. k \in KV!Present \/ ~KV!IsFull
  <2>1. FindSlot(entries, k) # NoSlot
    BY <1>2, CapacityAssumption DEF Slots, NoSlot
  <2> QED
    BY <1>3, <2>1, HasPlace
<1>15. KV!Put(p)
  BY <1>12, <1>13, <1>14 DEF KV!Put, Requests
<1> QED
  BY <1>15 DEF KVStep, KV!Next

\* A stamp leaves value, key and TTL as the map already has them.
LEMMA StampMaps ==
  ASSUME ViewInv, NEW p \in Procs, PutStamp(p) \/ UpdateStamp(p), Reachable(entries')
  PROVE  KVStep
<1> DEFINE t == slot[p]
<1>1. /\ pc[p] = "stamp" /\ pc'[p] = "wr_unlock" /\ OthersKept(p) /\ call' = call
      /\ reply'[p] = Yes
  BY CallTypes DEF PutStamp, UpdateStamp, At, Goto, Answer, OthersKept
<1>2. t \in Slots /\ reply[p] = Pending /\ HoldsWrite(p)
  BY <1>1 DEF ViewInv, TypeInv, CallInv, ReplyInv, HoldsWrite
<1>3. entries[t] \in EntryType /\ entries \in TableType
  BY <1>2, CallTypes DEF TableType
<1>4. \A s \in Slots \ {t} : entries'[s] = entries[s]
  BY <1>3 DEF PutStamp, UpdateStamp, TableType
<1>5. /\ entries'[t].state = entries[t].state /\ entries'[t].key = entries[t].key
      /\ entries'[t].value = entries[t].value
      /\ PutStamp(p) => entries'[t].ttl = call[p].ttl
      /\ ~PutStamp(p) => entries'[t].ttl = entries[t].ttl
  <2>1. CASE PutStamp(p)
    BY <1>2, <1>3, <2>1 DEF PutStamp, TableType, EntryType
  <2>2. CASE UpdateStamp(p) /\ ~PutStamp(p)
    BY <1>2, <1>3, <2>2 DEF UpdateStamp, TableType, EntryType
  <2> QED
    BY <2>1, <2>2
<1>6. \A q \in Procs : q # p => pc[q] # "stamp"
  BY <1>2, NoOtherStamps
<1>7. \A s \in Slots : Records'[s] = Entry(entries'[s])
  <2>1. \A q \in Procs : pc'[q] # "stamp"
    BY <1>1, <1>6 DEF OthersKept
  <2> QED
    BY <2>1, RecordUnstampedNext
<1>8. \A s \in Slots : Records'[s] = Records[s]
  <2>1. CASE PutStamp(p)
    <3>1. call[p].op = "PUT"
      BY <2>1 DEF PutStamp
    <3>2. \A s \in Slots : Records[s] = IF s = t THEN [value |-> entries[s].value, ttl |-> call[p].ttl]
                                                 ELSE Entry(entries[s])
      BY <1>1, <1>6, <3>1, RecordStamped
    <3>3. Entry(entries'[t]) = [value |-> entries[t].value, ttl |-> call[p].ttl]
      BY <1>5, <2>1 DEF Entry
    <3> QED
      BY <1>4, <1>7, <3>2, <3>3
  <2>2. CASE ~PutStamp(p)
    <3>1. call[p].op # "PUT"
      BY <2>2 DEF UpdateStamp
    <3>2. \A s \in Slots : Records[s] = Entry(entries[s])
      BY <1>2, <3>1, InsideView
    <3>3. Entry(entries'[t]) = Entry(entries[t])
      BY <1>5, <2>2 DEF Entry
    <3> QED
      BY <1>4, <1>7, <3>2, <3>3
  <2> QED
    BY <2>1, <2>2
<1>9. StoreView' = StoreView
  <2>1. \A s \in Slots : entries'[s].state = entries[s].state /\ entries'[s].key = entries[s].key
    BY <1>4, <1>5
  <2>2. Reachable(entries) /\ \A s \in Occupied(entries) : Records'[s] = Records[s]
    BY <1>8, CallTypes DEF Occupied
  <2> QED
    BY <2>1, <2>2, StoreSame, StoreViewIs
<1>10. AnswerOf(pc'[p], call[p], reply'[p]) = Answered(p)
  BY <1>1, <1>2, AnswerCases DEF Answered
<1> QED
  BY <1>1, <1>9, <1>10, Stutters DEF KVStep

LEMMA UpdateProbeMaps ==
  ASSUME ViewInv, NEW p \in Procs, UpdateProbe(p)
  PROVE  KVStep
<1> DEFINE k == call[p].key
           s == FindKey(entries, k)
           expired == s # NoSlot /\ Expired(entries[s], now)
           refused == s = NoSlot \/ expired
<1>1. /\ pc[p] = "search" /\ call[p].op = "UPDATE" /\ OthersKept(p) /\ call' = call
      /\ pc'[p] = IF refused THEN "wr_unlock" ELSE "store"
      /\ reply'[p] = IF refused THEN No ELSE reply[p]
      /\ entries' = IF expired THEN Remove(entries, s) ELSE entries
  BY CallTypes DEF UpdateProbe, At, Goto, Answer, OthersKept
<1>2. k \in Keys /\ reply[p] = Pending /\ HoldsWrite(p)
  BY <1>1, CallKey DEF ViewInv, ReplyInv, HoldsWrite, ReadOps
<1>3. s \in Slots \cup {NoSlot} /\ (s # NoSlot => Holds(entries[s], k))
  BY <1>2, FindKeyType, FindKeyFinds
<1>4. pc'[p] \notin {"idle", "stamp"}
  BY <1>1
<1>5. /\ KV!Waits(p, "UPDATE") /\ Requests[p] = call[p]
      /\ KV!Give(p, AnswerOf(pc'[p], call[p], reply'[p]))
  <2> HIDE DEF refused, expired, k
  <2> QED
    BY <1>1, <1>4, Gives DEF Undecided
<1>6. CASE s = NoSlot
  <2>1. StoreView' = StoreView
    BY <1>1, <1>4, <1>6, NoRemovalView
  <2>2. AnswerOf(pc'[p], call[p], reply'[p]) = KV!No
    BY <1>1, <1>6, AnswerCases
  <2>3. k \notin KV!Present
    <3>1. StoreView[k] = Absent
      BY <1>2, <1>6, NotFound, ViewLacks
    <3> QED
      BY <3>1 DEF KV!Present
  <2>4. KV!UpdateAbsent(p)
    BY <1>5, <2>1, <2>2, <2>3 DEF KV!UpdateAbsent, Requests
  <2> QED
    BY <2>4 DEF KVStep, KV!Next
<1>7. CASE expired
  <2>1. s \in Slots /\ Holds(entries[s], k) /\ entries[s].ttl > 0 /\ entries' = Remove(entries, s)
    BY <1>1, <1>3, <1>7 DEF Expired
  <2>2. StoreView' = [StoreView EXCEPT ![k] = Absent]
    <3> HIDE DEF s, k, expired, refused
    <3> QED
      BY <1>1, <1>2, <1>4, <2>1, RemoveOneView
  <2>3. StoreView[k] = Entry(entries[s]) /\ StoreView[k] # Absent
    BY <1>1, <1>2, <2>1, InsideView, ViewHolds
  <2>4. k \in KV!Expirable
    <3>1. StoreView[k].ttl > 0
      BY <2>1, <2>3 DEF Entry
    <3> QED
      BY <1>2, <2>3, <3>1 DEF KV!Expirable, KV!Present
  <2>5. AnswerOf(pc'[p], call[p], reply'[p]) = KV!No
    <3>1. pc'[p] = "wr_unlock" /\ reply'[p] = No
      BY <1>1, <1>7
    <3> QED
      BY <3>1, AnswerCases
  <2>6. KV!UpdateExpired(p)
    <3> HIDE DEF s, expired, refused
    <3> QED
      BY <1>5, <2>2, <2>4, <2>5 DEF KV!UpdateExpired, Requests
  <2> QED
    BY <2>6 DEF KVStep, KV!Next
<1>8. CASE ~refused
  <2>1. StoreView' = StoreView
    BY <1>1, <1>4, <1>8, NoRemovalView
  <2>2. AnswerOf(pc'[p], call[p], reply'[p]) = Answered(p)
    <3>1. pc'[p] = "store" /\ reply'[p] = Pending
      BY <1>1, <1>2, <1>8
    <3> QED
      BY <1>1, <1>2, <3>1, AnswerCases DEF Answered, Undecided
  <2> HIDE DEF refused, expired
  <2> QED
    BY <1>1, <1>4, <2>1, <2>2, Stutters DEF KVStep
<1> QED
  BY <1>6, <1>7, <1>8

LEMMA UpdateStoreMaps ==
  ASSUME ViewInv, NEW p \in Procs, UpdateStore(p), Reachable(entries')
  PROVE  KVStep
<1> DEFINE k == call[p].key
           t == slot[p]
           v == call[p].value
<1>1. /\ pc[p] = "store" /\ pc'[p] = "stamp" /\ OthersKept(p) /\ call' = call
      /\ reply' = reply /\ call[p].op = "UPDATE"
  BY CallTypes DEF UpdateStore, At, Goto, OthersKept
<1>2. t \in Slots /\ reply[p] = Pending /\ HoldsWrite(p) /\ Holds(entries[t], k)
  BY <1>1 DEF ViewInv, TypeInv, CallInv, OwnInv, ReplyInv, HoldsWrite
<1>3. k \in Keys
  BY <1>1, CallKey
<1>4. entries[t] \in EntryType /\ entries \in TableType
  BY <1>2, CallTypes DEF TableType
<1>5. /\ entries'[t].state = entries[t].state /\ entries'[t].key = entries[t].key
      /\ entries'[t].value = v /\ entries'[t].ttl = entries[t].ttl
  BY <1>2, <1>4 DEF UpdateStore, TableType, EntryType
<1>6. \A s \in Slots \ {t} : entries'[s] = entries[s]
  BY <1>4 DEF UpdateStore, TableType
<1>7. \A s \in Slots : Records'[s] = Entry(entries'[s]) /\ Records[s] = Entry(entries[s])
  <2>1. \A q \in Procs : ~(pc'[q] = "stamp" /\ call'[q].op = "PUT")
    BY <1>1, <1>2, NoOtherStamps DEF OthersKept
  <2> QED
    BY <1>1, <1>2, <2>1, RecordUnstampedNext, InsideView
<1>8. StoreView[k] = Entry(entries[t]) /\ StoreView[k] # Absent
  BY <1>2, <1>3, <1>7, ViewHolds
<1>9. StoreView' = [StoreView EXCEPT ![k] = Entry(entries'[t])]
  <2>1. \A s \in Slots \ {t} : entries'[s] = entries[s] /\ Records'[s] = Records[s]
    BY <1>6, <1>7
  <2>2. Holds(entries'[t], k) /\ Records'[t] = Entry(entries'[t])
    BY <1>2, <1>5, <1>7 DEF Holds
  <2> HIDE DEF k, t
  <2> QED
    BY <1>2, <1>3, <2>1, <2>2, WriteView
<1>10. Entry(entries'[t]) = [StoreView[k] EXCEPT !.value = v]
  BY <1>5, <1>8 DEF Entry
<1>11. KV!Waits(p, "UPDATE") /\ Requests[p] = call[p] /\ KV!Give(p, KV!Yes)
  <2>1. AnswerOf("stamp", call[p], reply'[p]) = KV!Yes
    BY <1>1, <1>2, AnswerCases
  <2> QED
    BY <1>1, <2>1, Gives DEF Undecided
<1>12. k \in KV!Present
  BY <1>3, <1>8 DEF KV!Present
<1>13. StoreView' = [StoreView EXCEPT ![k].value = v]
  BY <1>9, <1>10
<1>14. KV!Update(p)
  BY <1>11, <1>12, <1>13 DEF KV!Update, Requests
<1> QED
  BY <1>14 DEF KVStep, KV!Next

LEMMA DeleteProbeMaps ==
  ASSUME ViewInv, NEW p \in Procs, DeleteProbe(p)
  PROVE  KVStep
<1> DEFINE k == call[p].key
           s == FindKey(entries, k)
<1>1. /\ pc[p] = "search" /\ pc'[p] = "wr_unlock" /\ call[p].op = "DELETE" /\ OthersKept(p)
      /\ call' = call /\ reply'[p] = IF s # NoSlot THEN Yes ELSE No
      /\ entries' = IF s # NoSlot THEN Remove(entries, s) ELSE entries
  BY CallTypes DEF DeleteProbe, At, Goto, Answer, OthersKept
<1>2. k \in Keys /\ HoldsWrite(p)
  BY <1>1, CallKey DEF HoldsWrite, ReadOps
<1>3. s \in Slots \cup {NoSlot} /\ (s # NoSlot => Holds(entries[s], k))
  BY <1>2, FindKeyType, FindKeyFinds
<1>4. /\ KV!Waits(p, "DELETE") /\ Requests[p] = call[p]
      /\ KV!Give(p, IF s # NoSlot THEN KV!Yes ELSE KV!No)
  <2>1. AnswerOf(pc'[p], call[p], reply'[p]) = IF s # NoSlot THEN KV!Yes ELSE KV!No
    BY <1>1, AnswerCases
  <2> HIDE DEF s, k
  <2> QED
    BY <1>1, <2>1, Gives DEF Undecided
<1>5. k \in KV!Present <=> s # NoSlot
  <2>1. CASE s = NoSlot
    BY <1>2, <2>1, NotFound, ViewLacks DEF KV!Present
  <2>2. CASE s # NoSlot
    BY <1>2, <1>3, <2>2, ViewHolds DEF KV!Present
  <2> QED
    BY <2>1, <2>2
<1>6. StoreView' = [StoreView EXCEPT ![k] = Absent]
  <2>1. CASE s = NoSlot
    <3>1. StoreView[k] = Absent
      BY <1>2, <2>1, NotFound, ViewLacks
    <3>2. StoreView' = StoreView
      BY <1>1, <2>1, NoRemovalView
    <3>3. StoreView = [j \in Keys |-> StoreView[j]]
      BY DEF StoreView
    <3> HIDE DEF k, s
    <3> QED
      BY <3>1, <3>2, <3>3
  <2>2. CASE s # NoSlot
    <3>1. s \in Slots /\ Holds(entries[s], k) /\ entries' = Remove(entries, s)
      BY <1>1, <1>3, <2>2
    <3> HIDE DEF k, s
    <3> QED
      BY <1>1, <1>2, <3>1, RemoveOneView
  <2> QED
    BY <2>1, <2>2
<1>7. KV!Delete(p)
  <2>1. (IF k \in KV!Present THEN KV!Yes ELSE KV!No) = (IF s # NoSlot THEN KV!Yes ELSE KV!No)
    BY <1>5
  <2> HIDE DEF s
  <2> QED
    BY <1>4, <1>6, <2>1 DEF KV!Delete, Requests
<1> QED
  BY <1>7 DEF KVStep, KV!Next

-----------------------------------------------------------------------------
\* The refinement.

LEMMA EngineStepMaps ==
  ASSUME ViewInv, [Next]_vars, FoundInv'
  PROVE  KVStep
<1>1. Reachable(entries')
  BY DEF FoundInv
<1>2. ASSUME NEW p \in Procs, NEW c \in Calls, Invoke(p, c) PROVE KVStep
  BY <1>2, InvokeMaps
<1>3. ASSUME NEW p \in Procs, Step(p) PROVE KVStep
  BY <1>1, <1>3, LockStepMaps, ReturnMaps, GetProbeMaps, GetCopyMaps, RemoveExpiredMaps,
     PutReclaimMaps, PutEvictMaps, PutStoreMaps, StampMaps, UpdateProbeMaps, UpdateStoreMaps,
     DeleteProbeMaps, ReadersMap
  DEF Step
<1>4. ASSUME NEW p \in Procs, LockFails(p) PROVE KVStep
  BY <1>4, LockFailsMaps
<1>5. CASE (\E p \in Procs : Crash(p)) \/ Tick \/ StepBack \/ UNCHANGED vars
  <2>1. /\ entries' = entries /\ pc' = pc /\ call' = call /\ slot' = slot /\ reply' = reply
    BY <1>5 DEF Crash, Tick, StepBack, vars, local
  <2>2. StoreView' = StoreView
    BY <2>1, StoreKept
  <2>3. Requests' = Requests
    BY <2>1 DEF Requests
  <2>4. Answers' = Answers
    BY <2>1 DEF Answers, AnswerView
  <2> QED
    BY <2>2, <2>3, <2>4, ViewVars DEF KVStep
<1> QED
  BY <1>2, <1>3, <1>4, <1>5 DEF Next

LEMMA EngineInitMaps == Init => KV!Init
<1> SUFFICES ASSUME Init PROVE KV!Init
  OBVIOUS
<1>1. \A k \in Keys, s \in Slots : ~Holds(entries[s], k)
  BY DEF Init, EmptyTable, Blank, Holds
<1>2. \A k \in Keys : StoreView[k] = Absent
  BY <1>1, ViewLacks
<1>3. StoreView = [k \in Keys |-> Absent]
  <2>1. StoreView = [k \in Keys |-> StoreView[k]]
    BY DEF StoreView
  <2> QED
    BY <1>2, <2>1
<1>4. Requests = [p \in Procs |-> IdleRequest]
  BY DEF Init, Requests
<1>5. Answers = [p \in Procs |-> KV!Pending]
  <2>1. \A p \in Procs : Answers[p] = KV!Pending
    BY AnswerIs, AnswerCases DEF Init, Undecided
  <2> QED
    BY <2>1 DEF Answers
<1> QED
  BY <1>3, <1>4, <1>5 DEF KV!Init, Requests, Answers

(* The operations of cache_engine.cpp implement an atomic bounded map: every *)
(* call takes effect at one instant between its invocation and its return,   *)
(* whatever the other processes do meanwhile, and an entry goes away unasked *)
(* only if it has a TTL or if a put of a new key finds the table full.       *)
THEOREM EngineImplementsKVCache == Spec => ImplementsKVCache
<1>1. Init => TypeInv /\ LockInv /\ HitInv /\ FoundInv /\ FullInv /\ ReplyInv /\ OwnInv
  BY TypeInit, LockInit, HitInit, FoundInit, FullInit, ReplyInit, OwnInit
<1>2. ViewInv /\ [Next]_vars => ViewInv'
  BY TypeStep, LockStep, HitStep, FoundStep, FullStep, ReplyStep, OwnStep DEF ViewInv
<1>3. ViewInv /\ [Next]_vars /\ ViewInv' => [KV!Next]_(KV!vars)
  BY EngineStepMaps DEF ViewInv, KVStep
<1>4. Init => ViewInv
  BY <1>1 DEF ViewInv
<1> QED
  BY <1>2, <1>3, <1>4, EngineInitMaps, PTL DEF Spec, ImplementsKVCache, KV!Spec
=============================================================================

----------------------------- MODULE CacheEngine -----------------------------
(***************************************************************************)
(* The cache operations of cache_engine.cpp, run by processes that share   *)
(* one ready region: the header counters, the slot array, and the          *)
(* process-shared pthread_rwlock_t in the header.                          *)
(*                                                                         *)
(* A call is a sequence of steps.  Taking the lock, each piece of work     *)
(* done under it, and releasing it are steps of their own, so calls of     *)
(* several processes interleave wherever the code lets them: between the   *)
(* read unlock of a GET and the write lock that records it, between the    *)
(* GET that sees an expired entry and the GET that removes it, and, were   *)
(* the lock not to exclude, in the middle of a write.  A process may be    *)
(* killed between any two steps; the lock it holds then stays held,        *)
(* because the rwlock is not robust.                                       *)
(***************************************************************************)
EXTENDS CacheTable

CONSTANTS
    Procs,              \* processes (or threads) attached to the region
    NoProc,             \* "no process": the lock has no writer
    Calls,              \* the calls a process may make
    CounterMod,         \* total_* counters wrap at this (2^64 in the code)
    MaxTime,            \* BOUND: last value of the clock
    ClockCanStepBack,   \* may std::time go backwards (a wall clock is set)
    LockCanFail,        \* may pthread_rwlock_rdlock/wrlock return an error
    MaxCrashes,         \* BOUND: processes that may be killed
    CallBudget,         \* BOUND: calls per process, when CallCost = 1
    CallCost            \* 1: programs of CallBudget calls; 0: endless clients

ASSUME NoProcAssumption   == NoProc \notin Procs
ASSUME CounterAssumption  == CounterMod \in Nat \ {0}
ASSUME MaxTimeAssumption  == MaxTime \in Nat
ASSUME SwitchAssumption   == {ClockCanStepBack, LockCanFail} \subseteq BOOLEAN
ASSUME BudgetAssumption   == /\ MaxCrashes \in Nat
                             /\ CallBudget \in Nat \ {0}
                             /\ CallCost \in {0, 1}

Ops == {"GET", "PUT", "UPDATE", "DELETE", "FIND", "SNAPSHOT"}

\* NoKey stands for the key arguments that valid_key_argument refuses: null,
\* empty, and 64 bytes or more.
CallType == [op : Ops, key : Keys \cup {NoKey}, value : Values, ttl : TTLs]

ASSUME CallsAssumption == Calls \subseteq CallType

VARIABLES
    entries,            \* the slot array
    entry_count,        \* header->entry_count
    total_hits,         \* header->total_hits
    total_misses,       \* header->total_misses
    total_collisions,   \* header->total_collisions
    readers,            \* processes that hold header->rwlock shared
    writer,             \* the process that holds it exclusively, or NoProc
    now,                \* what std::time(nullptr) returns
    dead,               \* processes that were killed
    budget,             \* calls each process may still make
    pc,                 \* where each process is in its call
    call,               \* the call in progress, or the last one
    slot,               \* slot_idx / curr_index of the call
    collisions,         \* the local `collisions' of cache_get
    reply,              \* what the call returns
    lookups,            \* history: valid GET calls made, modulo CounterMod
    inspected           \* history: extra slots inspected by the searches of
                        \*   cache operations, modulo CounterMod

header  == <<entry_count, total_hits, total_misses, total_collisions>>
lock    == <<readers, writer>>
region  == <<entries, header, lock>>
local   == <<pc, call, slot, collisions, reply>>
history == <<lookups, inspected>>
vars    == <<entries, header, lock, now, dead, budget, local, history>>

Pending   == [kind |-> "pending"]
Yes       == [kind |-> "yes"]
No        == [kind |-> "no"]
Hit(e)    == [kind |-> "hit", value |-> e.value, timestamp |-> e.timestamp]
Index(s)  == [kind |-> "index", index |-> s]
Snapshot(count, items) == [kind |-> "snapshot", count |-> count, items |-> items]

\* A call that its argument checks turn away never touches the region.
Valid(c) == c.op = "SNAPSHOT" \/ c.key \in Keys

-----------------------------------------------------------------------------
\* The lock.  glibc's default kind prefers readers: a reader is admitted
\* whenever no writer is inside, waiting writers or not.

CanRead_RecoversLock  == writer \in dead \cup {NoProc}
CanWrite_IgnoresReaders == writer = NoProc

CanRead  == writer = NoProc
CanWrite == writer = NoProc /\ readers = {}

At(p, l)   == p \notin dead /\ pc[p] = l
Goto(p, l) == pc' = [pc EXCEPT ![p] = l]

RdLock(p) == /\ CanRead
             /\ readers' = readers \cup {p}
             /\ UNCHANGED writer
WrLock(p) == /\ CanWrite
             /\ writer' = p
             /\ UNCHANGED readers

Count(counter, n) == (counter + n) % CounterMod

\* total_collisions += n for a search that inspected n slots past its home.
CountCollisions(n) ==
    /\ total_collisions' = Count(total_collisions, n)
    /\ inspected' = Count(inspected, n)

Answer(p, r) == reply' = [reply EXCEPT ![p] = r]

\* A process that is in no call: its locals do not exist.
NoCall == [op |-> "SNAPSHOT", key |-> NoKey, value |-> EmptyValue, ttl |-> 0]

Init ==
    /\ entries = EmptyTable
    /\ entry_count = 0 /\ total_hits = 0 /\ total_misses = 0 /\ total_collisions = 0
    /\ readers = {} /\ writer = NoProc
    /\ now = 0
    /\ dead = {}
    /\ budget = [p \in Procs |-> CallBudget]
    /\ pc = [p \in Procs |-> "idle"]
    /\ call = [p \in Procs |-> NoCall]
    /\ slot = [p \in Procs |-> NoSlot]
    /\ collisions = [p \in Procs |-> 0]
    /\ reply = [p \in Procs |-> Pending]
    /\ lookups = 0 /\ inspected = 0

-----------------------------------------------------------------------------
\* Calls, returns and the lock.

ReadOps == {"GET", "FIND", "SNAPSHOT"}

Invoke(p, c) ==
    /\ At(p, "idle") /\ budget[p] > 0
    /\ budget' = [budget EXCEPT ![p] = @ - CallCost]
    /\ call' = [call EXCEPT ![p] = c]
    /\ IF Valid(c) THEN Goto(p, "enter") /\ UNCHANGED reply
                   ELSE Goto(p, "done") /\ Answer(p, No)
    /\ lookups' = IF Valid(c) /\ c.op = "GET" THEN Count(lookups, 1) ELSE lookups
    /\ UNCHANGED <<entries, header, lock, now, dead, slot, collisions, inspected>>

\* The caller has its result.
Return(p) ==
    /\ At(p, "done")
    /\ Goto(p, "idle")
    /\ call' = [call EXCEPT ![p] = NoCall]
    /\ slot' = [slot EXCEPT ![p] = NoSlot]
    /\ collisions' = [collisions EXCEPT ![p] = 0]
    /\ Answer(p, Pending)
    /\ UNCHANGED <<entries, header, lock, now, dead, budget, history>>

\* lock_for_read and lock_for_write at the head of a call.
EnterRead_SnapshotUnlocked(p) ==
    /\ At(p, "enter") /\ call[p].op \in ReadOps
    /\ IF call[p].op = "SNAPSHOT" THEN UNCHANGED lock ELSE RdLock(p)
    /\ Goto(p, "search")
    /\ UNCHANGED <<entries, header, now, dead, budget, call, slot, collisions,
                   reply, history>>

EnterRead(p) ==
    /\ At(p, "enter") /\ call[p].op \in ReadOps
    /\ RdLock(p)
    /\ Goto(p, "search")
    /\ UNCHANGED <<entries, header, now, dead, budget, call, slot, collisions,
                   reply, history>>

EnterWrite(p) ==
    /\ At(p, "enter") /\ call[p].op \notin ReadOps
    /\ WrLock(p)
    /\ Goto(p, "search")
    /\ UNCHANGED <<entries, header, now, dead, budget, call, slot, collisions,
                   reply, history>>

\* The lock call returns an error.  A GET that has its answer still delivers
\* it (add_get_metrics's result is ignored); any other call returns false.
LockFails(p) ==
    /\ LockCanFail
    /\ p \notin dead /\ pc[p] \in {"enter", "metrics_lock", "expired_lock"}
    /\ IF pc[p] = "metrics_lock" THEN UNCHANGED reply ELSE Answer(p, No)
    /\ Goto(p, "done")
    /\ UNCHANGED <<entries, header, lock, now, dead, budget, call, slot,
                   collisions, history>>

RdUnlock_ForgetsOnExpiry(p) ==
    /\ At(p, "rd_unlock")
    /\ readers' = IF reply[p] = Pending THEN readers ELSE readers \ {p}
    /\ Goto(p, IF call[p].op # "GET"     THEN "done"
               ELSE IF reply[p] = Pending THEN "expired_lock"
                                          ELSE "metrics_lock")
    /\ UNCHANGED <<entries, header, writer, now, dead, budget, call, slot,
                   collisions, reply, history>>

\* unlock_cache by a reader.  A GET goes on without the lock: to record its
\* hit or miss, or to remove the expired entry it found.
RdUnlock(p) ==
    /\ At(p, "rd_unlock")
    /\ readers' = readers \ {p}
    /\ Goto(p, IF call[p].op # "GET"     THEN "done"
               ELSE IF reply[p] = Pending THEN "expired_lock"
                                          ELSE "metrics_lock")
    /\ UNCHANGED <<entries, header, writer, now, dead, budget, call, slot,
                   collisions, reply, history>>

WrUnlock(p) ==
    /\ At(p, "wr_unlock")
    /\ writer' = NoProc
    /\ Goto(p, "done")
    /\ UNCHANGED <<entries, header, readers, now, dead, budget, call, slot,
                   collisions, reply, history>>

-----------------------------------------------------------------------------
\* cache_get.

\* The probe loop, with the clock read that decides expiry on a match.
GetProbe(p) ==
    /\ At(p, "search") /\ call[p].op = "GET"
    /\ LET k == call[p].key
           s == FindKey(entries, k)
           n == LastProbe(entries, k)
       IN  /\ slot' = [slot EXCEPT ![p] = s]
           /\ collisions' = [collisions EXCEPT ![p] = n]
           /\ inspected' = Count(inspected, n)
           /\ IF s # NoSlot /\ ~Expired(entries[s], now)
              THEN Goto(p, "copy") /\ UNCHANGED reply
              ELSE /\ Goto(p, "rd_unlock")
                   /\ Answer(p, IF s = NoSlot THEN No ELSE Pending)
    /\ UNCHANGED <<entries, header, lock, now, dead, budget, call, lookups>>

\* value_copy and timestamp_copy, still under the read lock.
GetCopy(p) ==
    /\ At(p, "copy")
    /\ Answer(p, Hit(entries[slot[p]]))
    /\ Goto(p, "rd_unlock")
    /\ UNCHANGED <<entries, header, lock, now, dead, budget, call, slot,
                   collisions, history>>

\* add_get_metrics: a second, exclusive acquisition of the lock.
MetricsLock(p) ==
    /\ At(p, "metrics_lock")
    /\ WrLock(p)
    /\ Goto(p, "metrics")
    /\ UNCHANGED <<entries, header, now, dead, budget, call, slot, collisions,
                   reply, history>>

AddGetMetrics(p) ==
    /\ At(p, "metrics")
    /\ IF reply[p] = No
       THEN total_misses' = Count(total_misses, 1) /\ UNCHANGED total_hits
       ELSE total_hits' = Count(total_hits, 1) /\ UNCHANGED total_misses
    /\ total_collisions' = Count(total_collisions, collisions[p])
    /\ Goto(p, "wr_unlock")
    /\ UNCHANGED <<entries, entry_count, lock, now, dead, budget, call, slot,
                   collisions, reply, history>>

ExpiredLock(p) ==
    /\ At(p, "expired_lock")
    /\ WrLock(p)
    /\ Goto(p, "remove")
    /\ UNCHANGED <<entries, header, now, dead, budget, call, slot, collisions,
                   reply, history>>

RemoveExpired_NoRecheck(p) ==
    /\ At(p, "remove")
    /\ LET s    == FindKey(entries, call[p].key)
           gone == s # NoSlot
       IN  /\ entries' = IF gone THEN Remove(entries, s) ELSE entries
           /\ entry_count' = RemoveCount(entry_count, IF gone THEN 1 ELSE 0)
    /\ total_misses' = Count(total_misses, 1)
    /\ total_collisions' = Count(total_collisions, collisions[p])
    /\ inspected' = Count(inspected, LastProbe(entries, call[p].key))
    /\ Answer(p, No)
    /\ Goto(p, "wr_unlock")
    /\ UNCHANGED <<total_hits, lock, now, dead, budget, call, slot, collisions,
                   lookups>>

RemoveExpired_MissOnlyIfRemoved(p) ==
    /\ At(p, "remove")
    /\ LET s    == FindKey(entries, call[p].key)
           gone == s # NoSlot /\ Expired(entries[s], now)
       IN  /\ entries' = IF gone THEN Remove(entries, s) ELSE entries
           /\ entry_count' = RemoveCount(entry_count, IF gone THEN 1 ELSE 0)
           /\ total_misses' = Count(total_misses, IF gone THEN 1 ELSE 0)
    /\ total_collisions' = Count(total_collisions, collisions[p])
    /\ inspected' = Count(inspected, LastProbe(entries, call[p].key))
    /\ Answer(p, No)
    /\ Goto(p, "wr_unlock")
    /\ UNCHANGED <<total_hits, lock, now, dead, budget, call, slot, collisions,
                   lookups>>

\* The table may have changed since the read unlock: find_key_locked searches
\* again and the entry goes only if it is (still, or again) expired.  The
\* miss and the collisions of the first search are recorded on the way.
RemoveExpired(p) ==
    /\ At(p, "remove")
    /\ LET s    == FindKey(entries, call[p].key)
           gone == s # NoSlot /\ Expired(entries[s], now)
       IN  /\ entries' = IF gone THEN Remove(entries, s) ELSE entries
           /\ entry_count' = RemoveCount(entry_count, IF gone THEN 1 ELSE 0)
    /\ total_misses' = Count(total_misses, 1)
    /\ total_collisions' = Count(total_collisions, collisions[p])
    /\ inspected' = Count(inspected, LastProbe(entries, call[p].key))
    /\ Answer(p, No)
    /\ Goto(p, "wr_unlock")
    /\ UNCHANGED <<total_hits, lock, now, dead, budget, call, slot, collisions,
                   lookups>>

-----------------------------------------------------------------------------
\* cache_put_ttl (cache_put is the call with ttl 0).

\* find_slot_internal on table es: its result, its cost, and what comes next.
PutSearch(p, es, otherwise) ==
    LET s == FindSlot(es, call[p].key)
    IN  /\ slot' = [slot EXCEPT ![p] = s]
        /\ CountCollisions(LastProbe(es, call[p].key))
        /\ Goto(p, IF s # NoSlot THEN "claim" ELSE otherwise)

PutProbe(p) ==
    /\ At(p, "search") /\ call[p].op = "PUT"
    /\ PutSearch(p, entries, "reclaim")
    /\ UNCHANGED <<entries, entry_count, total_hits, total_misses, lock, now,
                   dead, budget, call, collisions, reply, lookups>>

PutReclaim_NoSecondSearch(p) ==
    /\ At(p, "reclaim")
    /\ entries' = Reclaim(entries, now)
    /\ entry_count' = RemoveCount(entry_count, Cardinality(ExpiredSlots(entries, now)))
    /\ Goto(p, "evict")
    /\ UNCHANGED <<total_hits, total_misses, total_collisions, lock, now, dead,
                   budget, call, slot, collisions, reply, history>>

PutReclaim_CountsOne(p) ==
    /\ At(p, "reclaim")
    /\ entries' = Reclaim(entries, now)
    /\ entry_count' = RemoveCount(entry_count, 1)
    /\ PutSearch(p, entries', "evict")
    /\ UNCHANGED <<total_hits, total_misses, lock, now, dead, budget, call,
                   collisions, reply, lookups>>

\* No slot: expired entries of any key make room first.
PutReclaim(p) ==
    /\ At(p, "reclaim")
    /\ entries' = Reclaim(entries, now)
    /\ entry_count' = RemoveCount(entry_count, Cardinality(ExpiredSlots(entries, now)))
    /\ PutSearch(p, entries', "evict")
    /\ UNCHANGED <<total_hits, total_misses, lock, now, dead, budget, call,
                   collisions, reply, lookups>>

\* Still none: the oldest entry goes.  The call fails if there is nothing to
\* evict, or if a slot is still not found.
PutEvict(p) ==
    /\ At(p, "evict")
    /\ IF Occupied(entries) = {}
       THEN /\ Goto(p, "wr_unlock")
            /\ Answer(p, No)
            /\ UNCHANGED <<entries, entry_count, slot, total_collisions, inspected>>
       ELSE /\ entries' = Remove(entries, OldestSlot(entries))
            /\ entry_count' = RemoveCount(entry_count, 1)
            /\ PutSearch(p, entries', "wr_unlock")
            /\ IF slot'[p] = NoSlot THEN Answer(p, No) ELSE UNCHANGED reply
    /\ UNCHANGED <<total_hits, total_misses, lock, now, dead, budget, call,
                   collisions, lookups>>

\* The slot is filled in three writes: the count, the record, its stamp.
PutClaim(p) ==
    /\ At(p, "claim")
    /\ entry_count' = IF entries[slot[p]].state # "OCCUPIED" THEN entry_count + 1
                                                             ELSE entry_count
    /\ Goto(p, "store")
    /\ UNCHANGED <<entries, total_hits, total_misses, total_collisions, lock, now,
                   dead, budget, call, slot, collisions, reply, history>>

PutStore(p) ==
    /\ At(p, "store") /\ call[p].op = "PUT"
    /\ entries' = [entries EXCEPT ![slot[p]] =
                      [@ EXCEPT !.state = "OCCUPIED", !.key = call[p].key,
                                !.value = call[p].value]]
    /\ Goto(p, "stamp")
    /\ UNCHANGED <<header, lock, now, dead, budget, call, slot, collisions,
                   reply, history>>

PutStamp(p) ==
    /\ At(p, "stamp") /\ call[p].op = "PUT"
    /\ entries' = [entries EXCEPT ![slot[p]] =
                      [@ EXCEPT !.timestamp = now, !.ttl = call[p].ttl]]
    /\ Answer(p, Yes)
    /\ Goto(p, "wr_unlock")
    /\ UNCHANGED <<header, lock, now, dead, budget, call, slot, collisions,
                   history>>

-----------------------------------------------------------------------------
\* cache_update.

\* A missing key fails; an expired one is removed, and fails too.
UpdateProbe(p) ==
    /\ At(p, "search") /\ call[p].op = "UPDATE"
    /\ LET s       == FindKey(entries, call[p].key)
           expired == s # NoSlot /\ Expired(entries[s], now)
           refused == s = NoSlot \/ expired
       IN  /\ slot' = [slot EXCEPT ![p] = s]
           /\ entries' = IF expired THEN Remove(entries, s) ELSE entries
           /\ entry_count' = RemoveCount(entry_count, IF expired THEN 1 ELSE 0)
           /\ Goto(p, IF refused THEN "wr_unlock" ELSE "store")
           /\ IF refused THEN Answer(p, No) ELSE UNCHANGED reply
    /\ CountCollisions(LastProbe(entries, call[p].key))
    /\ UNCHANGED <<total_hits, total_misses, lock, now, dead, budget, call,
                   collisions, lookups>>

UpdateStore(p) ==
    /\ At(p, "store") /\ call[p].op = "UPDATE"
    /\ entries' = [entries EXCEPT ![slot[p]].value = call[p].value]
    /\ Goto(p, "stamp")
    /\ UNCHANGED <<header, lock, now, dead, budget, call, slot, collisions,
                   reply, history>>

\* A second read of the clock; the TTL duration is kept and starts again.
UpdateStamp(p) ==
    /\ At(p, "stamp") /\ call[p].op = "UPDATE"
    /\ entries' = [entries EXCEPT ![slot[p]].timestamp = now]
    /\ Answer(p, Yes)
    /\ Goto(p, "wr_unlock")
    /\ UNCHANGED <<header, lock, now, dead, budget, call, slot, collisions,
                   history>>

\* cache_delete: expiry is not looked at.
DeleteProbe(p) ==
    /\ At(p, "search") /\ call[p].op = "DELETE"
    /\ LET s == FindKey(entries, call[p].key)
       IN  /\ slot' = [slot EXCEPT ![p] = s]
           /\ entries' = IF s # NoSlot THEN Remove(entries, s) ELSE entries
           /\ entry_count' = RemoveCount(entry_count, IF s # NoSlot THEN 1 ELSE 0)
           /\ Answer(p, IF s # NoSlot THEN Yes ELSE No)
    /\ CountCollisions(LastProbe(entries, call[p].key))
    /\ Goto(p, "wr_unlock")
    /\ UNCHANGED <<total_hits, total_misses, lock, now, dead, budget, call,
                   collisions, lookups>>

-----------------------------------------------------------------------------
\* Readers that change nothing.

\* find_slot: the slot a put of the key would use.
FindProbe(p) ==
    /\ At(p, "search") /\ call[p].op = "FIND"
    /\ Answer(p, Index(FindSlot(entries, call[p].key)))
    /\ Goto(p, "rd_unlock")
    /\ UNCHANGED <<entries, header, lock, now, dead, budget, call, slot,
                   collisions, history>>

\* cache_print_telemetry, the bridge's "stats" and "list", the writer's read
\* of entry_count: header and slots read together, under one read lock.
ReadSnapshot(p) ==
    /\ At(p, "search") /\ call[p].op = "SNAPSHOT"
    /\ Answer(p, Snapshot(entry_count, {entries[s].key : s \in Occupied(entries)}))
    /\ Goto(p, "rd_unlock")
    /\ UNCHANGED <<entries, header, lock, now, dead, budget, call, slot,
                   collisions, history>>

-----------------------------------------------------------------------------
\* The environment.

\* Killed (the UI's bridge timeout, a signal, a fault) between two steps.
Crash(p) ==
    /\ p \notin dead /\ pc[p] # "idle"
    /\ Cardinality(dead) < MaxCrashes
    /\ dead' = dead \cup {p}
    /\ UNCHANGED <<entries, header, lock, now, budget, local, history>>

Tick     == /\ now < MaxTime /\ now' = now + 1
            /\ UNCHANGED <<entries, header, lock, dead, budget, local, history>>

StepBack == /\ ClockCanStepBack
            /\ now > 0 /\ now' = now - 1
            /\ UNCHANGED <<entries, header, lock, dead, budget, local, history>>

-----------------------------------------------------------------------------
\* What a live process does of itself once it has been called.
Step(p) ==
    \/ EnterRead(p) \/ EnterWrite(p) \/ RdUnlock(p) \/ WrUnlock(p) \/ Return(p)
    \/ GetProbe(p) \/ GetCopy(p) \/ MetricsLock(p) \/ AddGetMetrics(p)
    \/ ExpiredLock(p) \/ RemoveExpired(p)
    \/ PutProbe(p) \/ PutReclaim(p) \/ PutEvict(p) \/ PutClaim(p) \/ PutStore(p)
    \/ PutStamp(p)
    \/ UpdateProbe(p) \/ UpdateStore(p) \/ UpdateStamp(p)
    \/ DeleteProbe(p) \/ FindProbe(p) \/ ReadSnapshot(p)

Next ==
    \/ \E p \in Procs : Step(p) \/ LockFails(p) \/ Crash(p)
    \/ \E p \in Procs, c \in Calls : Invoke(p, c)
    \/ Tick \/ StepBack

Spec == Init /\ [][Next]_vars

\* The scheduler runs every live process; nothing makes clients call, time
\* pass, or processes die.
Fairness == \A p \in Procs : WF_vars(Step(p))

FairSpec == Spec /\ Fairness
-----------------------------------------------------------------------------
\* Properties.

Labels == {"idle", "enter", "search", "copy", "rd_unlock", "metrics_lock",
           "metrics", "expired_lock", "remove", "reclaim", "evict", "claim",
           "store", "stamp", "wr_unlock", "done"}

Replies ==
    {Pending, Yes, No}
    \cup [kind : {"hit"}, value : Values, timestamp : Nat]
    \cup [kind : {"index"}, index : Slots \cup {NoSlot}]
    \cup [kind : {"snapshot"}, count : Nat, items : SUBSET (Keys \cup {NoKey})]

Counter == 0 .. CounterMod - 1

\* Every variable keeps its type, the key a live call works on included; no
\* search inspects more extra slots than there are (the loops of cache_get,
\* cache_engine.cpp:486-498).
TypeOK ==
    /\ entries \in [Slots -> EntryType]
    /\ entry_count \in Nat
    /\ total_hits \in Counter /\ total_misses \in Counter /\ total_collisions \in Counter
    /\ readers \subseteq Procs
    /\ writer \in Procs \cup {NoProc}
    /\ now \in Nat
    /\ dead \subseteq Procs
    /\ budget \in [Procs -> Int]
    /\ pc \in [Procs -> Labels]
    /\ call \in [Procs -> CallType]
    /\ slot \in [Procs -> Slots \cup {NoSlot}]
    /\ collisions \in [Procs -> Probes]
    /\ reply \in [Procs -> Replies]
    /\ lookups \in Counter /\ inspected \in Counter

\* Between which steps the code of a call holds the lock, and how.
HoldsRead(p)  == \/ pc[p] \in {"copy", "rd_unlock"}
                 \/ pc[p] = "search" /\ call[p].op \in ReadOps
HoldsWrite(p) == \/ pc[p] \in {"metrics", "remove", "reclaim", "evict", "claim",
                               "store", "stamp", "wr_unlock"}
                 \/ pc[p] = "search" /\ call[p].op \notin ReadOps

\* The lock is held by exactly the calls between their acquisition and their
\* release, on every path of every call (early returns, the second
\* acquisition of cache_get, lock errors, processes killed): none leaks it,
\* none works without it.
LockMatchesCode ==
    /\ readers = {p \in Procs : HoldsRead(p)}
    /\ \A p \in Procs : writer = p <=> HoldsWrite(p)

\* A writer is alone: no call works on the table, reads it or copies from it
\* while another one changes it.
Exclusion ==
    \A p, q \in Procs : HoldsWrite(p) /\ p # q => ~HoldsWrite(q) /\ ~HoldsRead(q)

\* Whatever sequence of puts, deletions, expiries, reclaims and evictions led
\* here, probing for the key of an entry finds that entry: no key is stored
\* twice, and no removal cuts a probe path (remove_entry leaves a tombstone).
EveryEntryFound ==
    \A s \in Occupied(entries) : FindKey(entries, entries[s].key) = s

\* header->entry_count is the number of occupied slots, but for the slot a
\* put has counted and not filled yet.
CountExact ==
    entry_count =
        Cardinality(Occupied(entries)
                    \cup {slot[p] : p \in {q \in Procs : pc[q] = "store"}})

\* A PUT with valid arguments succeeds, however full the table is and
\* whatever it holds (lock errors apart).
PutAccepted ==
    \A p \in Procs :
        pc[p] \in {"wr_unlock", "done"} /\ call[p].op = "PUT" /\ Valid(call[p])
            => reply[p] = Yes

\* What cache_get has copied is one entry of its key as the table holds it:
\* never a value with the timestamp of another write, never a slot that was
\* given to another key between the probe and the copy.
HitIsCurrent ==
    \A p \in Procs :
        pc[p] = "rd_unlock" /\ reply[p].kind = "hit"
            => LET e == entries[slot[p]]
               IN  Holds(e, call[p].key) /\ reply[p] = Hit(e)

\* A listing and its statistics agree: the count in the header is the number
\* of keys listed, which are all different.
SnapshotConsistent ==
    \A p \in Procs : reply[p].kind = "snapshot"
                        => reply[p].count = Cardinality(reply[p].items)

\* Every valid GET is counted once, as a hit or as a miss, on each of the
\* paths of cache_get: the sum of the two counters is the number of GETs made
\* less those that have not recorded their result yet.
Unrecorded == {p \in Procs : /\ call[p].op = "GET"
                             /\ pc[p] \notin {"idle", "wr_unlock", "done"}}
TelemetryExact ==
    (total_hits + total_misses + Cardinality(Unrecorded)) % CounterMod = lookups

\* README: "The collision counter counts each extra slot inspected during
\* hash-table searches by cache operations; it excludes direct find_slot
\* helper calls."  With no call in progress the counter is the number of
\* extra slots inspected.
CollisionsCounted ==
    (\A p \in Procs : pc[p] \in {"idle", "done"}) => total_collisions = inspected

\* A live entry is lost in two ways only: a call deletes its key, or a PUT of
\* an absent key evicts the oldest entry of a table with no other slot to
\* give.  In particular the GET that removes an expired entry never takes one
\* that was written after it looked, and no clock that was set back makes an
\* entry expire.  A PUT decides to evict only when every slot holds an entry
\* that has not expired; what expires between this and the eviction is spared
\* (cache_engine.cpp:253-257, 425-447, 526-546).
Overdue(e, t) == e.ttl > 0 /\ t >= e.timestamp + e.ttl
Lost(s) == /\ s \in Occupied(entries) /\ ~Overdue(entries[s], now)
           /\ ~Holds(entries'[s], entries[s].key)
LiveEntryKept ==
    [][/\ \A s \in Slots : Lost(s) =>
            \E p \in Procs \ dead :
               \/ call[p].op = "DELETE" /\ call[p].key = entries[s].key
               \/ /\ call[p].op = "PUT" /\ pc[p] = "evict"
                  /\ \A r \in Slots : /\ entries[r].state = "OCCUPIED"
                                      /\ entries[r].key # call[p].key
                                      /\ entries[r].timestamp >= entries[s].timestamp
       /\ \A p \in Procs : pc[p] # "evict" /\ pc'[p] = "evict" =>
            \A r \in Slots : /\ entries'[r].state = "OCCUPIED"
                             /\ ~Overdue(entries'[r], now)
      ]_vars

\* A process killed while it holds the lock exclusively leaves the table, half
\* written or not, as it was: nobody reads or changes it again.
DeadHolderFreezesTable ==
    [][(writer \in dead) => (UNCHANGED region)]_vars

\* A call made returns, unless its process is killed or the lock is held for
\* ever by a process that was.
Busy(p) == pc[p] # "idle"
Orphaned == writer \in dead \/ readers \cap dead # {}
EveryCallReturns ==
    \A p \in Procs : Busy(p) ~> (~Busy(p) \/ p \in dead \/ Orphaned)

\* With clients that never stop calling, some call always returns: they cannot
\* block one another.
SomeCallReturns ==
    (\E p \in Procs : Busy(p)) ~> (\E p \in Procs : pc[p] = "done")
=============================================================================

# MemSync in TLA+

A specification of MemSync's shared-memory cache: what its operations do to the
slot table, how processes interleave on its reader-writer lock, how the region
is created, attached, lost and removed, and what clients may rely on. TLC checks
the modules on small instances; TLAPS proves the main safety properties for
every value of the constants.

Paths are relative to the repository root `src/`; `cache_engine.cpp` is
`src/src/cache_engine.cpp`.

## 1. The system

| Part | State | Operations | Interaction |
|---|---|---|---|
| Slot table (`cache_engine.cpp`) | array of `CacheEntry` (state, key, value, timestamp, ttl) | probe, find slot, remove, reclaim expired, evict oldest | pure functions of the array, called with the lock held |
| Cache operations (`cache_engine.cpp`) | header counters, `pthread_rwlock_t`, locals of each call | `cache_get`, `cache_put_ttl`, `cache_put`, `cache_update`, `cache_delete`, `find_slot`, telemetry | processes and threads share the region; one rwlock |
| Region lifecycle (`cache_engine.cpp`, `cleanup.cpp`) | the POSIX name, objects, descriptors, mappings | `cache_open_shared`, `cache_initialize_region`, `cache_validate_layout`, `cache_close_shared`, `shm_unlink` | several processes race on one name; the magic number publishes |
| UI bridge (`ui_bridge.cpp`) | none (one call per process) | `init`, `stats`, `list`, `get`, `put`, `update`, `delete` | opens the region, makes one call, closes |
| Writer, reader, demo | none | fixed scripts of calls | clients; the demo also unlinks the name |
| Benchmark (`bench/benchmark_measurement.cpp`, `cache_benchmark.cpp`) | the main thread's place, per worker its failures, a barrier of one mutex and one condition variable | `run_measurement`, `main`'s loop | its workers are clients of the engine or of the socket cache |
| Socket cache (`bench/benchmark_socket.cpp`) | a map, one mutex, per client a socket pair and a server thread | construction, `request`, `serve`, `shutdown_clients` | exists for one measurement; each worker uses its own client |
| Legacy manager (`legacy/`) | descriptor, mapping, semaphore, `is_owner` | `init_as_server`, `attach_as_client`, `lock`, `unlock`, `cleanup` | none (not built) |
| Streamlit UI (`ui/`) | session notices | runs the bridge, cleanup, tests and benchmark | kills a bridge after 30 s; judges a command by its exit code |

What is hard here, and what makes each part correct:

* **Table.** Open addressing with tombstones: correctness is a property of the
  whole history. Every entry must stay reachable by probing, no key may be stored
  twice, `entry_count` must agree with the slots, and a full table must still
  accept a put, evicting only the oldest live entry and only as a last resort.
* **Operations.** `cache_get` takes the lock twice (shared to look, exclusive to
  record or to remove an expired entry) and other processes act in between. Hits
  must be whole, the delayed removal must not hit a fresh entry, each GET must be
  counted once, and no path may leak the lock. The lock is not robust: a killed
  holder blocks everybody, but nobody may see what it left half done.
* **Lifecycle.** Creation is `shm_open`, `ftruncate`, `mmap`, initialization and
  publication, with failures and kills between any two; attachers look on. Nobody
  may use a region that is not complete, nobody may initialize one twice, and no
  failing process may take the name away from a cache in use.
* **Layout.** A slot's offset is computed in 32 bits from a capacity and an
  offset found in the header: what an open accepts must keep slots in the region,
  off the header and off each other.
* **Programs.** They overlap, fail and are killed in the middle of calls. What
  their messages and exit codes tell of the cache must be true, none may take the
  region away from another, and cleanup and initialization must bring the cache
  back after trouble, although these can fail as well.
* **Legacy manager.** Two names, opened and unlinked one after the other by
  managers that do not ask whose they are: a memory must not end up with two
  locks, nor a ready server without its names.
* **Benchmark.** Workers and the main thread wait for two conditions on one
  condition variable, so each arrival wakes the others. Only operations between
  the two readings of the clock may be timed, failures must reach the row and the
  exit code and stay with those whom they hit, although a worker goes on with a
  stream that a failing transfer has left out of step, and the socket cache must
  end with no thread or socket left over, also when sockets or threads fail.

`PROJECT.json` lists the hazards line by line with the properties that guard them,
or with the reason why none does. Five are not guarded, because the code gives no
guarantee there: unlinking a region under its clients, a `get` whose lock failed, a
semaphore left taken by a dead holder, the unwinding of a half-made set of
workers, and `SIGPIPE` after a failed write.

## 2. Modules

| Module | Models |
|---|---|
| `CacheTable` | the slot array as pure operators: `Stops`/`LastProbe` (the probe at which a loop stops, which is also its collision cost), `FindKey` (`find_key_locked` and the loops of get, update, delete), `FindSlot` (`find_slot_internal`), `Remove`, `Reclaim`, `OldestSlot`, `Expired` |
| `CacheEngine` | all operations on one ready region, step by step, by processes sharing the rwlock |
| `KVCache` | the contract: an atomic bounded map without slots, lock or clock |
| `CacheEngineRefinement` | the mapping under which `CacheEngine` implements `KVCache` |
| `SharedRegion` | the named object: create, size, initialize, publish, attach, validate, fail, die, unlink |
| `NamedRegion` | its contract: one region, absent, creating or ready, that goes away only while nobody is attached |
| `Layout` | header and slots byte by byte, with 32-bit offsets, over any header found in the region |
| `Programs` | writer, reader, demo, cleanup, bridge and the operator, composed over `NamedRegion`'s life cycle, a lock, and `KVCache`'s map |
| `LegacyManager` | `SharedMemoryManager`, one action per system call |
| `SocketCache` | the benchmark's socket cache: clients, server threads, the mutex, the messages |
| `Benchmark` | composes `SocketCache` with the shared cache (`KVCache`'s map), `run_measurement` and `main`'s loop |
| `CacheTableProofs` | what the table's operators return and preserve |
| `CacheEngineProofs` | types, the lock, hits, the frozen table; then entries, counts, puts, live entries, listings, telemetry |
| `CacheRefinementProofs` | `CacheEngine` implements `KVCache` |
| `SharedRegionProofs`, `ProgramsProofs`, `LayoutProofs`, `BenchmarkProofs`, `LegacyManagerProofs` | the lifecycle and its contract; the programs under it; the layout; the benchmark; the legacy manager |
| `MCCacheEngine`, `MCCacheEngineRefinement`, `MCSharedRegion`, `MCLayout`, `MCPrograms`, `MCLegacyManager`, `MCBenchmark` | instances for TLC: hash values, call sets, symmetry |

A definition named `<Definition>_<Mistake>` is not part of a model. It is the
definition with a plausible bug; `PROJECT.json` lists, for each checked property,
the one that makes TLC report that property violated.

### CacheEngine and the code

A call starts with `Invoke` (argument checks) and ends with `Return`. `pc[p]` is
its place in the code; `slot`, `collisions`, `reply` are its locals. Taking the
lock (`EnterRead`, `EnterWrite`, `MetricsLock`, `ExpiredLock`), releasing it
(`RdUnlock`, `WrUnlock`) and every piece of work under it are separate steps.

| Code | Actions |
|---|---|
| `cache_get` | `EnterRead`, `GetProbe`, then a hit: `GetCopy`, `RdUnlock`, `MetricsLock`, `AddGetMetrics`, `WrUnlock`; a miss: the same without the copy; an expired entry: `RdUnlock`, `ExpiredLock`, `RemoveExpired`, `WrUnlock` |
| `cache_put_ttl` | `EnterWrite`, `PutProbe`, if needed `PutReclaim` and `PutEvict`, then `PutClaim`, `PutStore`, `PutStamp`, `WrUnlock` |
| `cache_update` | `EnterWrite`, `UpdateProbe` (removes an expired entry), `UpdateStore`, `UpdateStamp`, `WrUnlock` |
| `cache_delete` | `EnterWrite`, `DeleteProbe`, `WrUnlock` |
| `find_slot` | `EnterRead`, `FindProbe`, `RdUnlock` |
| telemetry, bridge `list` and `stats`, writer's count | `EnterRead`, `ReadSnapshot`, `RdUnlock` |
| `pthread_rwlock_*` returning an error | `LockFails` |
| a kill (the UI's timeout, a signal) | `Crash`: the process stays where it was and its lock stays held |
| `std::time` | `Tick`, `StepBack`; each call of `time` reads `now` in its own step |

The probe loop under a lock is one step: other processes cannot change the table
meanwhile (`Exclusion`, proved), so splitting it would add states and no
behaviour. The writes of a put are three steps and those of an update two, so
that a torn record exists whenever a reader could be let in on it.

Abstractions: a key is a model value with a `Hash` in the naturals, reduced
modulo `Capacity` as `hash_key` does; `NoKey` stands for every key argument that
`valid_key_argument` refuses; counters wrap at `CounterMod` instead of 2^64.
`lookups` and `inspected` are history variables that no action reads.

### SharedRegion and the code

Objects are numbered in order of creation; `name` is the object the name refers
to. An object is reduced to `sized`, `fields`, `lock`, `magic`, the holders of
its lock, and a count of operations. Failures of `ftruncate`, `fstat`, `mmap` and
of the lock's initialization lead to `Close` and, for a creator, to
`UnlinkCreated`, which removes the *name*, whatever it refers to by then, or to
`UnlinkFails`, after which an object that nobody will publish keeps it. A
killed process's descriptors are closed, its lock is held by `Ghost` for ever,
and a new process takes its place. `CheckCount` has one outcome: the branch of
`validate_ready_header` for `entry_count > capacity` is not taken, because
`CountIsExact` bounds the count, and where a dead writer has left it wrong its lock
is never granted.

The contract sees less: `NamedRegion`'s `life` is "absent" without a name,
"ready" when the named object has its magic number, and "creating" in between;
`attached` are the processes past a successful open; `work` counts operations.
Every step before the publication, and whatever happens to objects that have lost
their name, is invisible to it.

### Layout and the code

`valid_capacity`, `cache_initialize_region`, `cache_validate_layout` and
`get_entry_ptr` have the source's names. `Init` puts any header into the region;
`Write` is what an operation does to the slot it has found. `Word` stands for
2^32; `i * EntrySize` is a 64-bit product in the code and its sum with
`data_offset` is cut to 32 bits, which the `%` of `get_entry_ptr` is.

### Programs and the code

A program is a script of calls between `cache_open_shared` and
`cache_close_shared`; the writer, the reader and the demo have the scripts of
their `main`, the bridge has one call, `init` has none, and cleanup is one unlink.

| Code | Actions |
|---|---|
| starting a command (`call_bridge`, `cleanup_cache`, a shell) | `Start`; the demo and cleanup only when nothing else runs, as the README and the sidebar's confirmation demand |
| `cache_open_shared` | `Create`, `Publish`, `PublishFails`; `Attach`, `Validate`, `AttachFails` |
| a call | `Enter`, then `ReadInside`, `EnterRecord`, `Record` (a get), `ReadInside` (list, stats, the reader's report, the writer's count) or `WriteInside` (put, update, delete) |
| `pthread_rwlock_*` returning an error | `LockFails`, with what each program makes of it |
| "Invalid command or arguments.", a bad TTL | `Refuse` |
| `cache_close_shared` and exit | `Close`; its code reaches the caller there |
| `shm_unlink` in `cleanup.cpp` and at the demo's end; at its start | `Unlink`; `Reset`; `UnlinkFails` |
| a kill; `run_command`'s 30 seconds for a program that waits for a dead holder | `Kill`; `TimeOut` |
| the operator, after a failed open or a time-out | `alarm`: only cleanup may start, and then only `init`, when all else is gone; if that `init` is killed or fails, cleanup again |

The demo's last `shm_unlink` (`main.cpp:68`) does not meet `ENOENT`, because the demo
runs alone; that the call fails for another reason is `UnlinkFails`.

`code` is `result` of `run_command`. `possible` is history: per key, the contents
that someone who has seen every message and exit code must reckon with. A
successful write sets it to what the write leaves (and what overlapping writes
have reported), a killed one adds to it, a failed one leaves it alone. The bridge
reports when it exits, so a kill after its call leaves both outcomes open.

### LegacyManager and the code

`Begin` is a call of `init_as_server` (`is_owner` set first) or of
`attach_as_client`; then `Open`, `Size` (a server's `ftruncate`), `Map`,
`OpenSemaphore`, or a failure: `OpenFails` returns without cleanup, `LaterFails`
with. `Lock`, `Acquire`, `AcquireFails` and `Unlock` are `lock` and `unlock`.
`Cleanup` is called by the user or by the destructor (`ending`), also of an object
that was closed before; then `Close`, and for owners `UnlinkMemory` and
`UnlinkSemaphore`, which remove whatever has the names. A failing
`shm_open(O_CREAT)` leaves `is_owner` set, so its destructor unlinks as well. A
second `init_as_server` or `attach_as_client` of an object that is ready, which
would overwrite what it has open, is not modelled. The semaphore of a killed
holder is not freed; the next server finds it taken (`LockAccounted` counts it as
lost with the dead, and promises no more).

### Benchmark and the code

| Code | Actions |
|---|---|
| `cache_open_shared` at the start; the end of `main` | `OpenCache`, `OpenCacheFails`; `Exit`, `UnlinkFails` |
| `main`'s loop: shared, then socket, with the same workload, payload and threads | `NextMeasurement`, `Report` |
| `LocalSocketCache::LocalSocketCache` | `ConnectClient`; throwing: `ConnectFails` |
| `prepare_shared`, `prepare_socket`, warm-up | `MainShared`, or `MainSend` and `MainReceive` |
| creating the workers | `Spawn`, `SpawnFails` |
| a worker at the barrier | `Arrive`, `Park`, `Recheck` |
| the main thread at the barrier | `Gather`, `TakeBegin`, `SetStart`, `NotifyWorkers`, `JoinWorkers`; then `Tally`, a worker at a time |
| `wait` returns although nobody has notified | `WakeUp` |
| a worker's timed operations | `WorkerShared`, or `WorkerSend` and `WorkerReceive` |
| `serve` | `Serve` (`Handle`, `Respond`, `EndServing`) |
| `~LocalSocketCache`, `shutdown_clients` | `SayQuit`, `CloseClient`, a client at a time, then `Destroy` |
| a lock error in an operation on the shared cache | `MainLockFails`, `WorkerLockFails` |
| a failing `write` of a request, of a response, of `Q` | `MainSendFails`, `WorkerSendFails`; `ServeFails`; `SayQuitFails` |
| a failing `read` of a response, of a request | `MainReceiveFails`, `WorkerReceiveFails`; `ServeFails` |
| `SIGPIPE`: nothing in `bench/` handles it or sets `MSG_NOSIGNAL` | `MainBrokenPipe`, `WorkerBrokenPipe`, `ServerBrokenPipe` |

A stream is the sequence of messages that its reader will find. As long as no
transfer fails it holds at most one. A failing transfer may stop at any byte, and
neither side puts the stream right afterwards:

* `WriteFails`: nothing of the message is sent, or its beginning is left in `torn`,
  or it ends one begun before. The server reads that beginning with the bytes of
  the next message: an operation with another value, or with a key that is put
  together from two (`Mangled`). What it reads after that starts in the middle of
  a key or value, where no operation's letter stands (`Junk`, status -1).
* `ReceiveFails`: the response stays in the stream, whole or without its beginning
  (`Rest`), and each later operation of the client reads the response before its
  own, or a status from the middle of two, which is never 1.
* `RespondFails` may leave half a response, `ServeReadFails` ends the server at any
  byte of a request. Both close its socket, after which a client reads to the end
  and then end of file, and a write raises `SIGPIPE`.

The worker counts the failure and goes on (`benchmark_measurement.cpp:205-215`),
the main thread gives up the measurement. Not modelled: a write that waits for
room, since the responses left unread are as many as failing reads, and a socket's
buffer holds hundreds; and that a socket closed with unread data gives its peer
`ECONNRESET` instead of an end of file, on which `serve` leaves its loop as well.

`spoilt` and `hurt` are history, which the code does not keep: the clients and
workers that a failing call of the measurement has hit, and how many of their
operations had to fail for it. A lock error need not make an operation fail: it
returns false, as a miss does that is expected to. `trouble` says that an
operation, a set-up or the last unlink has failed, `window` whether `begin` and
`end` have been taken. `SpawnFails` after the first worker unwinds a condition
variable with waiters and a joinable thread: both outcomes the platform allows, a
block and `std::terminate`, are choices of the action. An operation on the shared
cache is one step on `KVCache`'s map, which `CacheEngine` implements; its three keys
have no TTL and fit, so the map never drops one.

## 3. What is checked

| Run | Instance | Shows |
|---|---|---|
| `table` | 1 client, 4 keys (3 share a home slot), 3 slots, TTL 0 or 1, clock 0..2 that may step back, no call limit | `EveryEntryFound`, `CountExact`, `PutAccepted`, `LiveEntryKept` over every history of operations and clock steps |
| `race` | 2 clients, 3 keys, 2 slots, 2 values, clock 0..2, no call limit | `TypeOK` (with the cost of a probe),  `Exclusion`, `HitIsCurrent`, `SnapshotConsistent`, `LiveEntryKept` |
| `crash` | 3 clients of 1 call, lock errors, 1 kill | `LockMatchesCode`, `DeadHolderFreezesTable`, `EveryCallReturns` |
| `progress` | 2 clients, 2 keys in 1 slot, counters modulo 5, no call limit | `TelemetryExact`, `SomeCallReturns` |
| `refinement` | 2 clients, 3 keys, 2 slots, every operation, lock errors, clock that steps back | `ImplementsKVCache` |
| `region_shared` | 3 processes of 2 opens, 3 objects, 1 kill, failing system calls; cleanup waits for clients | `TypeOK`, `OneRegion`, `ImplementsNamedRegion` |
| `region_cleanup` | 2 processes of 2 opens, 2 objects, 1 kill, failing system calls; cleanup at any time | `AttachedIsComplete`, `NeverReset`, `OpenReturns` |
| `layout` | regions of 0..16 bytes, words of 16, header 3, entries 2, every capacity up to 8 and offset up to 4 in the header found | `Intact` |
| `programs` | 2 places for programs, 1 key, 2 values, 5 bridge calls, 2 kills, 1 failing call, any number of time-outs | `TypeOK`, `OutcomesTell`, `KeepsContract`, `Recovers`, `TroubleIsOver` |
| `legacy` | 3 managers, 2 memories, 2 semaphores, 1 kill, 1 failing call | `TypeOK`, `MatchedPairs`, `LockAccounted`, `Served`, `SizedFirst`, `NothingLeftBehind` |
| `benchmark` | 3 measurements, 1 or 3 workers, workloads `put_update` and `mixed`, 1 warm-up and 2 timed operations per worker, 2 payloads, 2 upsets (failing calls or spurious wake-ups) | `TypeOK`, `TimedInWindow`, `FailuresTold`, `ExitCodeTells`, `NothingLeft`, `NobodyWaitsInVain`, `BenchmarkEnds` |
| `collisions` | 1 client of 4 calls | violates `CollisionsCounted` (see Findings) |

**Bounds.** Three slots and three colliding keys are the least table in which a
probe path has a middle, and a fourth key makes it overflow; two slots suffice
where the question is the interleaving. Time 0..2 lets an entry be written,
expire, and be rewritten and expire again. Two processes are enough for every
race between one call's two lock acquisitions and another whole call; three are
used where one of them dies. Clients without a call limit make the runs cover
histories of any length, because the state space is finite without it.
The benchmark needs three workers for one to be woken by another's arrival while
a third has not come, two timed operations for a worker to be past its first when
another begins, and three measurements for the shared cache to be used again
after a payload has changed; `mixed` has all the operations of the workloads left
out. Two upsets let one hit the cleanup of the other, or half a message follow
another; that more change nothing is proved, for every safety property of the run.
In `programs`, two places let any two programs overlap, and programs follow each
other without end; one kill leaves a held lock behind, and the other, or the fault,
hits anything after it, the cleanup and the initialization included. All programs
use one key, since keys do not interact. In `legacy`, a third manager can attach
while one cleans up and another is attached; two memories and two semaphores are
enough, because a server starts only when nothing refers to earlier ones. In
`layout` the least region has no room for an entry and the largest fills a word.

**The operator's rules** are guards, and each is needed: without waiting for the
clients `OneRegion` and `ImplementsNamedRegion` are violated (`region_cleanup`
therefore checks neither). In `legacy`, a server that starts while clients of an
earlier one live violates `MatchedPairs`, and one that starts while a closed
server object is yet to be destroyed violates `Served`: the destructor unlinks the
new server's names. In `programs`, an operator who only repeats an `init` that was
killed (and does not clean up before, as the README asks after a crash) violates
`Recovers` and `TroubleIsOver` with two kills: the second `init` dies while it
validates, and the third succeeds beside the dead reader's lock, which no writer
will ever get past.

**Kills and the refinement.** `Crash` changes only `dead`, which the mapping does
not read, so it is a stuttering step of `KVCache` by definition; the refinement
run leaves it out and the crash run has it.

**Deadlock** is checked in `table`, `race`, `progress` and `programs`.
The others bound calls, kills or objects, so their behaviours end.

### Fairness

`FairSpec` of `CacheEngine` is weak fairness of each live process's steps: the
operating system runs every runnable process, and a lock that stays free is
eventually granted. Nothing forces clients to call, time to pass, the lock to
fail or processes to die. glibc's rwlock admits readers before writers, and weak
fairness promises no order among waiters, so under endless traffic we claim only
that *some* call returns (`SomeCallReturns`); that *each* returns is claimed for
programs of finitely many calls (`EveryCallReturns`). Both except a lock held by
a dead process, as the repository's README does. `FairSpec` of `SharedRegion` is
the same for a begun `cache_open_shared` and for an operation on the cache, whose
number is bounded (`MaxUses`), so writers cannot keep an attacher out for ever.
`FairSpec` of `Benchmark` is weaker: as long as some thread of the process can run,
one does. That suffices, because every thread makes finitely many steps in a
measurement, and the measurements are finitely many. Nothing obliges a system call
to fail or a waiter to wake by itself.
`FairSpec` of `Programs` is weak fairness of each program and of the time-out (the
operator's interrupt, for programs that the UI does not run), and of `Repair`: after
trouble the operator goes on to clean up and to initialize, which the README asks
of him. `Recovers` needs kills and faults to end, which their bounds say; while
the alarm lasts no other program starts, so those that wait for the lock are not
overtaken for ever.

### The contract

`KVCache` allows a GET to miss a key that is present only if the entry has a TTL,
and lets an entry vanish only if it has one or if a put of a new key finds the map
full. It has no clock: *when* an entry may expire is `LiveEntryKept`'s subject.
A call takes effect at one step between its invocation and its return; the table
at the head of `CacheEngineRefinement` says which.

## 4. What is proved

All theorems hold for any processes, keys, values, hash, capacity, counter width
and bounds, from the named assumptions on the constants only.

* `TypeCorrect` (`TypeOK`). Inductive invariant `TypeInv`: `TypeOK` with
  `CallInv`, which says what a process's place in the code implies about its call
  (past the argument checks the key is valid; in `copy` the call is a GET and
  `slot` is a slot; and so on). Without it `entries[slot[p]]` has no type. The
  table lemmas (`FindKeyType`, `FindSlotType`, `LastProbeType`) rest on the lemma
  `LeastExists`: a non-empty set of naturals has the element `Least` chooses. The
  local `collisions` is below the capacity, as a probe loop counts it before each
  step but the first (`cache_engine.cpp:486-498`).
* `LockAlwaysMatchesCode`, `MutualExclusion`. `LockInv` adds to `LockMatchesCode`
  that a held write lock means no readers; `Exclusion` follows.
* `HitsAreCurrent`. `HitInv` adds that from the probe to the copy the slot holds
  the key. Steps that change the table need the write lock, so by `Exclusion` no
  GET is between its probe and its unlock.
* `DeadHolderFreezes`. With a dead writer no live process is where the code works
  under the lock, and no lock step is enabled.
* `EveryEntryIsFound`. `FoundInv`: every entry is where its probe path leads
  (`Reachable`), and the slot in which a put is about to store is the one
  `FindSlot` gives for the table as it now is. It is preserved because a removal
  leaves a tombstone (`ReachableAfterRemove`, `ReachableAfterReclaim`) and a store
  goes to a slot on the key's own path when the key is nowhere further on
  (`FindSlotOnPath`, `ReachableAfterStore`).
* `CountIsExact`. `CountInv`: the count, with the slots being filled (`Filling`),
  is the cardinality of the occupied slots, and only the writer fills one.
* `EveryPutAccepted`. `FullInv`: in `evict` the search has just failed, so every
  slot holds another key (`NoSlotWhenFull`), hence there is an oldest one, and
  after its removal the search succeeds (`EvictionMakesRoom`). Assumes
  `~LockCanFail`: a lock error does refuse a put.
* `LiveEntriesKept`, an action property: one step per action, on the invariants
  above. It says what "live" means by itself (`Overdue`), so that an underflow in
  the code's `cache_entry_expired` is no excuse; `ExpiredIsOverdue` relates the two.
  `LostExcused` has the entries that go: by a delete, or by an eviction from a table
  full of other keys. `EvictionOfLiveOnly` has the decision to evict: the reclaim
  before it leaves a free slot if anything has expired. Between the two the clock
  may move on, so the theorem does not say that none expires before the eviction.
  `SnapshotsAreConsistent` follows from `CountInv` and `FoundInv`.
* `EveryGetCounted`: the counters modulo `CounterMod` against the history
  variable `lookups` and the calls that have not recorded yet. Assumes finitely many processes (so that the calls between their outcome
  and its record can be counted) and no lock errors, which lose a record.
* `EngineImplementsKVCache`: `CacheEngine` implements `KVCache`, kills and lock
  errors included. One lemma per action names the step of the contract it maps to:
  the store of a put or update is `Put` or `Update`, an eviction `Evict`; a
  reclaim, and the removal of an expired entry by a get, `Expire`; the steps of the
  lock, the stamp, the bookkeeping and `Crash` stutter. Besides the
  invariants above it needs `ReplyInv` (an
  answer is pending until it is decided) and `OwnInv` (an update about to store,
  and any call about to stamp, is in its key's slot), so that the record shown
  between a put's two writes is the record it leaves. `FoundInv` makes the map of
  the table well defined, `FullInv` makes an eviction one from a full map.
  `AbsentAssumption` says that "no entry" is not a record.
* `RegionTypeCorrect`, `AttachedOnlyComplete`, `NeverInitializedTwice`.
  `RegionInv` says what a process's place implies about its role as creator
  (`PlaceInv`), that an object under construction has one creator
  (`CreatorInv`), how far it must be (`ProgressInv`), and that a magic number
  means all the rest (`PublishInv`).
* `AllShareOneRegion`. `NameInv`: a published object keeps the name as long as
  someone is attached. Assumes `CleanupWaits`, the operator's rule.
* `RegionImplementsContract`: `SharedRegion` implements `NamedRegion`
  (`RegionMapsInit`, `RegionMapsStep`: one step of the contract or a stutter per
  action). Besides `NameInv` it needs `UnusedInv`: objects that have not been
  created carry nothing, so that a fresh one is not "ready" at once. Assumes
  `CleanupWaits`.
* `ProgramsKeepContract`: `Programs` implements `NamedRegion`, for any number of
  programs, any scripts, kills and faults. `AloneInv`: the demo and cleanup have
  no company and only they unlink; `LifeInv`: one creator, of a region not yet
  published, and clients only in a ready one. Most actions are `Plain`: one program
  moves and the region's life stays, which is an attachment, a departure or a
  stutter of the contract.
* `ProgramsTypes`, `OutcomesAreTrue`: `TypeOK` and `OutcomesTell` of `Programs`. By
  itself `OutcomesTell` is not inductive: while a bridge's call has taken effect and
  the bridge has not exited, the map is ahead of what was told. `OutcomeInv` has
  this: what is under a key (or will be, once its TTL is over) was told or is what
  such a bridge is about to tell (`Done`, `Sure`), and none of them, when it tells,
  will deny what another has left. `ScriptOK` gives each program the call its place
  needs, and a bridge that has not written an exit code of its own. Steps that say
  nothing only fade what is there (`KeyFades`); the others are `KeyTold` (a message,
  an exit) and `KeyDone` (a bridge's write). `CallsAssumption`: users' calls are
  calls of the API, their TTLs natural numbers; `AbsentAssumption`: "no entry" is
  neither a value nor an entry.
* `OperatorIsTold` (`TroubleIsOver`): the operator who has seen cleanup and `init`
  succeed has a cache without a dead holder, for any number of kills and faults. It
  is the part of `Recovers` that is not fairness. `RepairInv`: nobody dead is in the
  lock of a cache made after the cleanup, since only a dying program leaves its ghost
  there (`GhostsAreOfTheDead`) and each death sends the operator back; with
  `LifeInv` an `init` that closes has a ready region.
* `LayoutIntact`, `LayoutTypes` (`TypeOK`, which no run checks). `OffsetIsExact`: below an accepted capacity the
  32-bit sum does not wrap (`EntriesFit` turns `valid_capacity`'s division into a
  product); hence slots are apart (`SlotsApart`), and a write spoils no other.
  Assumes `SizesAssumption`: regions of at most 2^32 bytes. `valid_capacity` admits
  larger ones, in which slots would overlap; the programs make regions of 4 MiB.
* `OperationsAreTimed`. `BarrierInv`: only workers of this measurement have
  begun, the place of the main thread determines the window, and `start` is set
  only after `begin`.
* `BenchmarkTypes`. `TypeInv`: `TypeOK` with `OrderInv`, which bounds every loop:
  `ready_count` is the number of workers that have arrived, failures do not exceed
  the operations done, and an operation of the main thread is for one of its
  clients (`MainClientIsWorker`, the arithmetic of the warm-up loop); and with
  `SendingInv`: a server about to write has something to write.
* `NothingIsLeft`. `LeftInv`: clients are made and closed in order, the mutex is
  held exactly by the server that is sending, and a measurement of the shared cache
  finds everything gone. Servers that end by themselves keep it too.
* `FailuresAreTold`. `ResultInv` has the maps and the streams. The maps
  (`MapInv`, `PreparingInv`): key `miss` is never stored, `hit` keeps the payload,
  `update` is present once it is prepared. A client that nothing has hit is in step
  (`InStep`): what it waits for, if anything, is its request, the answer its
  operation expects, or neither and a closed peer. The stream of a client that
  has been hit carries only messages that leave the maps prepared (`Harmless`,
  `Tearable`): whatever two requests of its own make up, it does not store `miss`,
  and `hit` only with the payload, since a torn preparation ends the measurement. So
  an operation fails only for a call on its own way (`MainIsRight`,
  `WorkerIsRight`), and `FaultInv` carries this, with the counts, to the row.
* `ExitCodeIsRight`. `OutcomeInv`: how `failed` stands to the failures at each place
  of the main thread, and that a measurement has failed only after a failing call.
  `PipesBreak`: who writes to a closed peer does so after a failing call.
* `BenchmarkNeverWaitsInVain` (`NobodyWaitsInVain`): whatever a thread of the
  benchmark waits for, some thread can bring about. It is the part of
  `BenchmarkEnds` that is not fairness, for any number of workers. `WakeInv`: a
  waiter that sleeps waits for a condition that is false, because `start` changes
  under the mutex that the waiters check it under, and because each arrival and the
  start notify *all*. `OpenInv`: the clients that the main thread and the workers
  are to use are connected. `Playing`, of `ResultInv`, gives everybody who waits for
  a response one, in step or not, or an end of file, or a server that will write
  one. `MadeInv`: the destructor joins only servers whose clients it has closed.
* `LegacyInvariant`, and from it all that the `legacy` run checks: `LegacyTypes`,
  `MemoryHasOneLock`, `LockIsAccounted`, `ReadyServerIsServed`, `SizedBeforeUse`,
  `NothingOfManagersIsLeft` (`NothingLeftBehind`), for any number of managers, memories, semaphores,
  kills and failing system calls. The invariant turns on `OwnerInv`: there is one
  owner (a server not yet destroyed) at a time. Everything that is open is one
  memory and one semaphore (`ObjectInv`), because a server starts alone. The names
  lead to these or nowhere, and to what the owner has open until its cleanup
  (`NameInv`). `LockInv`: a semaphore that somebody can take is free, held by one
  manager, or lost with one killed. `SizeInv`: unless a process was killed, what
  is open while there is a semaphore has its size, and each name has an owner that
  will remove it. TLC has checked the invariant on the `legacy` instance.

Checked by TLC only: liveness (`EveryCallReturns`, `SomeCallReturns`,
`OpenReturns`, `BenchmarkEnds`, `Recovers`). The prover expresses neither fairness
nor ENABLED.

## 5. Findings

`CollisionsCounted` is the repository's README (line 102): "The collision counter
counts each extra slot inspected during hash-table searches by cache operations;
it excludes direct `find_slot` helper calls." When `cache_get` finds an expired
entry, it searches for the key again under the write lock
(`cache_engine.cpp:530`), and the slots that this second search inspects are not
added to `total_collisions` (`:543` adds those of the first). The `collisions`
run shows it with two colliding keys.

## 6. Plan

Every safety property that a passing run checks is proved, and the safety core of two
liveness properties (`NobodyWaitsInVain` of `BenchmarkEnds`, `TroubleIsOver` of
`Recovers`). Next: `SocketCache` as an implementation of `KVCache`, so that both caches
that the benchmark compares keep one contract.

Not modelled: percentiles, the CPU's name, option parsing and the CSV of the
benchmark, JSON escaping, the Streamlit pages with their charts: no state whose
correctness a model could decide. The memory model below the lock is not modelled
either; the magic number's release store is the last step of the initialization
and its acquire load is atomic.

---------------------------- MODULE SharedRegion ----------------------------
(***************************************************************************)
(* The life of the named POSIX shared-memory object that holds the cache:  *)
(* cache_open_shared and cache_close_shared run by several processes,      *)
(* memsync_cleanup, failing system calls, and processes that are killed    *)
(* and started again.                                                      *)
(*                                                                         *)
(* A name refers to at most one object; an object lives on for those that  *)
(* have it open after the name is gone.  The object's contents are reduced *)
(* to what decides whether it may be used: its size, its header fields,    *)
(* its lock, the magic number that publishes it, and a count of the        *)
(* operations done on it, which a second initialization would wipe.        *)
(* <Definition>_<Mistake> is <Definition> with a plausible mistake, as in  *)
(* CacheTable.                                                             *)
(***************************************************************************)
EXTENDS Naturals, FiniteSets

CONSTANTS
    Procs,          \* processes that open the cache
    NoProc,         \* "no process"
    Ghost,          \* a process that died holding the lock
    NoObject,       \* "no object"
    MaxObjects,     \* BOUND: objects ever created
    MaxUses,        \* BOUND: operations counted per object
    MaxCrashes,     \* BOUND: processes killed
    MaxOpens,       \* BOUND: calls of cache_open_shared per process
    CallsCanFail,   \* may ftruncate, fstat, mmap, the lock's init fail
    CleanupWaits    \* cleanup runs "only after all clients have exited"

ASSUME ProcsAssumption   == NoProc \notin Procs /\ Ghost \notin Procs /\ Ghost # NoProc
ASSUME ObjectsAssumption == MaxObjects \in Nat \ {0} /\ NoObject \notin 1 .. MaxObjects
ASSUME BoundsAssumption  == /\ MaxUses \in Nat /\ MaxCrashes \in Nat
                            /\ MaxOpens \in Nat \ {0}
ASSUME FlagsAssumption   == {CallsCanFail, CleanupWaits} \subseteq BOOLEAN

Objects == 1 .. MaxObjects

VARIABLES
    name,           \* the object that cache_shared_memory_name() refers to
    fresh,          \* objects not created yet are fresh, fresh + 1, ...
    object,         \* what each object holds
    pc, fd,         \* per process: place in the code, object it has open
    created,        \* per process: `created' of cache_open_shared
    opens,          \* per process: calls it may still make
    crashes         \* processes killed so far

vars == <<name, fresh, object, pc, fd, created, opens, crashes>>

\* Just created by shm_open: size zero, hence no contents.
Raw == [sized |-> FALSE, fields |-> FALSE, lock |-> FALSE, magic |-> FALSE,
        uses |-> 0, writer |-> NoProc, readers |-> {}]

\* What an attacher relies on.
Complete(o) == object[o].sized /\ object[o].fields /\ object[o].lock

At(p, l)   == pc[p] = l
Goto(p, l) == pc' = [pc EXCEPT ![p] = l]

Init == /\ name = NoObject
        /\ fresh = 1
        /\ object = [o \in Objects |-> Raw]
        /\ pc = [p \in Procs |-> "idle"]
        /\ fd = [p \in Procs |-> NoObject]
        /\ created = [p \in Procs |-> FALSE]
        /\ opens = [p \in Procs |-> MaxOpens]
        /\ crashes = 0

-----------------------------------------------------------------------------
\* shm_open.

\* create_if_missing: O_CREAT | O_EXCL makes the object or reports that the
\* name exists; the plain open is a second call.
OpenExclusive_NotExclusive(p) ==
    /\ At(p, "idle") /\ opens[p] > 0
    /\ opens' = [opens EXCEPT ![p] = @ - 1]
    /\ IF name = NoObject
       THEN /\ fresh <= MaxObjects
            /\ name' = fresh /\ fresh' = fresh + 1
            /\ fd' = [fd EXCEPT ![p] = fresh]
       ELSE fd' = [fd EXCEPT ![p] = name] /\ UNCHANGED <<name, fresh>>
    /\ created' = [created EXCEPT ![p] = TRUE]
    /\ Goto(p, "ftruncate")
    /\ UNCHANGED <<object, crashes>>

OpenExclusive(p) ==
    /\ At(p, "idle") /\ opens[p] > 0
    /\ opens' = [opens EXCEPT ![p] = @ - 1]
    /\ IF name = NoObject
       THEN /\ fresh <= MaxObjects
            /\ name' = fresh /\ fresh' = fresh + 1
            /\ fd' = [fd EXCEPT ![p] = fresh]
            /\ created' = [created EXCEPT ![p] = TRUE]
            /\ Goto(p, "ftruncate")
       ELSE Goto(p, "open") /\ UNCHANGED <<name, fresh, fd, created>>
    /\ UNCHANGED <<object, crashes>>

\* create_if_missing = false.
Attach(p) ==
    /\ At(p, "idle") /\ opens[p] > 0
    /\ opens' = [opens EXCEPT ![p] = @ - 1]
    /\ Goto(p, "open")
    /\ UNCHANGED <<name, fresh, object, fd, created, crashes>>

\* The plain shm_open.  The name may be gone, even for a caller that was told
\* a moment ago that it exists.
Open(p) ==
    /\ At(p, "open")
    /\ fd' = [fd EXCEPT ![p] = name]
    /\ Goto(p, IF name = NoObject THEN "idle" ELSE "fstat")
    /\ UNCHANGED <<name, fresh, object, created, opens, crashes>>

-----------------------------------------------------------------------------
\* The creator sizes, maps, initializes and publishes.

Ftruncate(p) ==
    /\ At(p, "ftruncate")
    /\ object' = [object EXCEPT ![fd[p]].sized = TRUE]
    /\ Goto(p, "mmap")
    /\ UNCHANGED <<name, fresh, fd, created, opens, crashes>>

Mmap(p) ==
    /\ At(p, "mmap")
    /\ Goto(p, IF created[p] THEN "memset" ELSE "validate")
    /\ UNCHANGED <<name, fresh, object, fd, created, opens, crashes>>

\* cache_initialize_region: all zero, then the header fields, then the lock.
Memset(p) ==
    /\ At(p, "memset")
    /\ object' = [object EXCEPT ![fd[p]] = [Raw EXCEPT !.sized = TRUE]]
    /\ Goto(p, "fields")
    /\ UNCHANGED <<name, fresh, fd, created, opens, crashes>>

WriteFields_MagicFirst(p) ==
    /\ At(p, "fields")
    /\ object' = [object EXCEPT ![fd[p]] = [@ EXCEPT !.fields = TRUE, !.magic = TRUE]]
    /\ Goto(p, "initlock")
    /\ UNCHANGED <<name, fresh, fd, created, opens, crashes>>

WriteFields(p) ==
    /\ At(p, "fields")
    /\ object' = [object EXCEPT ![fd[p]].fields = TRUE]
    /\ Goto(p, "initlock")
    /\ UNCHANGED <<name, fresh, fd, created, opens, crashes>>

InitLock(p) ==
    /\ At(p, "initlock")
    /\ object' = [object EXCEPT ![fd[p]].lock = TRUE]
    /\ Goto(p, "publish")
    /\ UNCHANGED <<name, fresh, fd, created, opens, crashes>>

\* The release store of the magic number, last.
Publish(p) ==
    /\ At(p, "publish")
    /\ object' = [object EXCEPT ![fd[p]].magic = TRUE]
    /\ Goto(p, "attached")
    /\ UNCHANGED <<name, fresh, fd, created, opens, crashes>>

-----------------------------------------------------------------------------
\* The attacher checks the size, then the header, then takes the lock.

Fstat(p) ==
    /\ At(p, "fstat")
    /\ Goto(p, IF object[fd[p]].sized THEN "mmap" ELSE "close")
    /\ UNCHANGED <<name, fresh, object, fd, created, opens, crashes>>

Validate_Waits(p) ==
    /\ At(p, "validate")
    /\ object[fd[p]].magic
    /\ Goto(p, IF object[fd[p]].fields THEN "rdlock" ELSE "close")
    /\ UNCHANGED <<name, fresh, object, fd, created, opens, crashes>>

\* cache_validate_layout: no waiting for an initialization in progress.
Validate(p) ==
    /\ At(p, "validate")
    /\ Goto(p, IF object[fd[p]].magic /\ object[fd[p]].fields THEN "rdlock"
                                                              ELSE "close")
    /\ UNCHANGED <<name, fresh, object, fd, created, opens, crashes>>

\* validate_ready_header reads entry_count under the lock, so an attacher waits
\* for a writer, and for ever if that writer is dead.
RdLock(p) ==
    /\ At(p, "rdlock")
    /\ object[fd[p]].writer = NoProc
    /\ object' = [object EXCEPT ![fd[p]].readers = @ \cup {p}]
    /\ Goto(p, "count")
    /\ UNCHANGED <<name, fresh, fd, created, opens, crashes>>

\* The count is at most the capacity of the table it counts (CacheEngine's
\* CountExact), or a dead writer's lock is in the way: the check of
\* entry_count succeeds.
CheckCount(p) ==
    /\ At(p, "count")
    /\ object' = [object EXCEPT ![fd[p]].readers = @ \ {p}]
    /\ Goto(p, "attached")
    /\ UNCHANGED <<name, fresh, fd, created, opens, crashes>>

-----------------------------------------------------------------------------
\* Failure: unmap and close, then unlink the name if this call created it.

\* The exclusive shm_open may fail for another reason than EEXIST, too; that
\* call is over at once and has done nothing.
SysCallFails(p) ==
    /\ CallsCanFail
    /\ \/ /\ pc[p] \in {"ftruncate", "fstat", "mmap", "initlock", "rdlock"}
          /\ Goto(p, "close")
       \/ At(p, "open") /\ Goto(p, "idle")
    /\ UNCHANGED <<name, fresh, object, fd, created, opens, crashes>>

Close_AlwaysUnlinks(p) ==
    /\ At(p, "close")
    /\ fd' = [fd EXCEPT ![p] = NoObject]
    /\ Goto(p, "unlink")
    /\ UNCHANGED <<name, fresh, object, created, opens, crashes>>

Close(p) ==
    /\ At(p, "close")
    /\ fd' = [fd EXCEPT ![p] = NoObject]
    /\ Goto(p, IF created[p] THEN "unlink" ELSE "idle")
    /\ UNCHANGED <<name, fresh, object, created, opens, crashes>>

\* unlink_created_object: whatever the name refers to by now.
UnlinkCreated(p) ==
    /\ At(p, "unlink")
    /\ name' = NoObject
    /\ created' = [created EXCEPT ![p] = FALSE]
    /\ Goto(p, "idle")
    /\ UNCHANGED <<fresh, object, fd, opens, crashes>>

\* It prints why, and the name stays with an object that nobody will publish.
UnlinkFails(p) ==
    /\ CallsCanFail
    /\ At(p, "unlink")
    /\ created' = [created EXCEPT ![p] = FALSE]
    /\ Goto(p, "idle")
    /\ UNCHANGED <<name, fresh, object, fd, opens, crashes>>

-----------------------------------------------------------------------------
\* Clients.

\* An operation on the cache; CacheEngine says what it does.
BeginUse(p) ==
    /\ At(p, "attached") /\ object[fd[p]].uses < MaxUses
    /\ object[fd[p]].writer = NoProc /\ object[fd[p]].readers = {}
    /\ object' = [object EXCEPT ![fd[p]].writer = p]
    /\ Goto(p, "using")
    /\ UNCHANGED <<name, fresh, fd, created, opens, crashes>>

EndUse(p) ==
    /\ At(p, "using")
    /\ object' = [object EXCEPT ![fd[p]] = [@ EXCEPT !.writer = NoProc,
                                                     !.uses = object[fd[p]].uses + 1]]
    /\ Goto(p, "attached")
    /\ UNCHANGED <<name, fresh, fd, created, opens, crashes>>

CloseShared_CreatorUnlinks(p) ==
    /\ At(p, "attached")
    /\ fd' = [fd EXCEPT ![p] = NoObject]
    /\ created' = [created EXCEPT ![p] = FALSE]
    /\ name' = IF created[p] THEN NoObject ELSE name
    /\ Goto(p, "idle")
    /\ UNCHANGED <<fresh, object, opens, crashes>>

CloseShared_KeepsDescriptor(p) ==
    /\ At(p, "attached")
    /\ created' = [created EXCEPT ![p] = FALSE]
    /\ Goto(p, "idle")
    /\ UNCHANGED <<name, fresh, object, fd, opens, crashes>>

\* cache_close_shared: the name stays.
CloseShared(p) ==
    /\ At(p, "attached")
    /\ fd' = [fd EXCEPT ![p] = NoObject]
    /\ created' = [created EXCEPT ![p] = FALSE]
    /\ Goto(p, "idle")
    /\ UNCHANGED <<name, fresh, object, opens, crashes>>

-----------------------------------------------------------------------------
\* The environment.

\* memsync_cleanup.
Cleanup ==
    /\ name # NoObject
    /\ CleanupWaits => \A p \in Procs : At(p, "idle")
    /\ name' = NoObject
    /\ UNCHANGED <<fresh, object, pc, fd, created, opens, crashes>>

\* A process dies and another one takes its place.  The kernel closes what it
\* had open; a lock it held stays held.
Crash(p) ==
    /\ ~At(p, "idle") /\ crashes < MaxCrashes
    /\ crashes' = crashes + 1
    /\ object' = [o \in Objects |->
                    [object[o] EXCEPT
                       !.writer  = IF @ = p THEN Ghost ELSE @,
                       !.readers = IF p \in @ THEN (@ \ {p}) \cup {Ghost} ELSE @]]
    /\ fd' = [fd EXCEPT ![p] = NoObject]
    /\ created' = [created EXCEPT ![p] = FALSE]
    /\ Goto(p, "idle")
    /\ UNCHANGED <<name, fresh, opens>>

\* A call of cache_open_shared, once begun.
OpenStep(p) ==
    \/ Open(p) \/ Ftruncate(p) \/ Mmap(p) \/ Memset(p) \/ WriteFields(p)
    \/ InitLock(p) \/ Publish(p) \/ Fstat(p) \/ Validate(p) \/ RdLock(p)
    \/ CheckCount(p) \/ Close(p) \/ UnlinkCreated(p)

Next ==
    \/ \E p \in Procs :
          \/ OpenExclusive(p) \/ Attach(p) \/ OpenStep(p) \/ SysCallFails(p)
          \/ UnlinkFails(p)
          \/ BeginUse(p) \/ EndUse(p) \/ CloseShared(p) \/ Crash(p)
    \/ Cleanup

Spec == Init /\ [][Next]_vars

\* A call that was begun goes on, and an operation on the cache ends.
FairSpec == Spec /\ \A p \in Procs : WF_vars(OpenStep(p)) /\ WF_vars(EndUse(p))

-----------------------------------------------------------------------------
\* Properties.

ObjectType == [sized : BOOLEAN, fields : BOOLEAN, lock : BOOLEAN, magic : BOOLEAN,
               uses : Nat, writer : Procs \cup {NoProc, Ghost},
               readers : SUBSET (Procs \cup {Ghost})]

Opening == {"open", "ftruncate", "mmap", "memset", "fields", "initlock", "publish",
            "fstat", "validate", "rdlock", "count", "close", "unlink"}

\* A process has an object open exactly while its code holds a descriptor, and
\* that object exists.
TypeOK ==
    /\ fresh \in 1 .. MaxObjects + 1
    /\ name \in 1 .. fresh - 1 \cup {NoObject}
    /\ object \in [Objects -> ObjectType]
    /\ pc \in [Procs -> Opening \cup {"idle", "attached", "using"}]
    /\ fd \in [Procs -> Objects \cup {NoObject}]
    /\ \A p \in Procs : IF pc[p] \in {"idle", "open", "unlink"}
                        THEN fd[p] = NoObject
                        ELSE fd[p] \in 1 .. fresh - 1
    /\ created \in [Procs -> BOOLEAN]
    /\ opens \in [Procs -> 0 .. MaxOpens]
    /\ crashes \in 0 .. MaxCrashes

\* A process that has passed validation, or has published, works on an object
\* that is sized, laid out and has its lock initialized.
TrustsTheLock == {"rdlock", "count", "attached", "using"}
AttachedIsComplete ==
    \A p \in Procs : pc[p] \in TrustsTheLock => Complete(fd[p]) /\ object[fd[p]].magic

\* Once published, an object stays published, keeps its contents, and is never
\* initialized again by whoever opens or creates the cache later.
NeverReset ==
    [][\A o \in Objects : object[o].magic =>
          /\ object'[o].magic /\ Complete(o)'
          /\ object'[o].uses >= object[o].uses]_vars

\* As long as cleanup waits for the clients to be gone, all clients share the
\* object that the name refers to: no failing creator and no failing attacher
\* takes the name from a cache in use.
OneRegion ==
    \A p \in Procs : pc[p] \in TrustsTheLock => fd[p] = name

\* Seen from outside, one named region goes through absent, being created and
\* ready, and back only as NamedRegion allows: whatever fails or dies, and
\* whoever opens or creates the cache meanwhile.
Life     == IF name = NoObject THEN "absent"
            ELSE IF object[name].magic THEN "ready" ELSE "creating"
Attached == {p \in Procs : pc[p] \in {"attached", "using"}}
Work     == IF name = NoObject THEN 0 ELSE object[name].uses

Region == INSTANCE NamedRegion WITH
    life <- Life, attached <- Attached, work <- Work

ImplementsNamedRegion == Region!Spec

\* cache_open_shared returns, with a mapping or without, even when the creator
\* it races with was killed half way, unless the object's lock is held for
\* ever by a process that was.
OpenReturns ==
    \A p \in Procs :
        pc[p] \in Opening ~>
            (pc[p] \notin Opening \/ \E o \in Objects : object[o].writer = Ghost)
=============================================================================

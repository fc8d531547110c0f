---------------------------- MODULE LegacyManager ----------------------------
(***************************************************************************)
(* SharedMemoryManager of legacy/, the prototype that is not built: a      *)
(* named shared-memory object, a named semaphore as its lock, and the flag *)
(* is_owner, which decides who unlinks both names.  One action per system  *)
(* call.                                                                   *)
(*                                                                         *)
(* The prototype comes without rules of use; these are the ones that it    *)
(* needs.  A server starts when no other manager exists, objects that were *)
(* closed but not destroyed included; who locks, unlocks before closing.   *)
(* Clients come and go at any moment, and processes may be killed.         *)
(* <Definition>_<Mistake> is <Definition> with a plausible mistake.        *)
(***************************************************************************)
EXTENDS Naturals, FiniteSets

CONSTANTS
    Managers,   \* instances of the class, each in a process of its own
    Memories,   \* shared-memory objects
    Semaphores, \* semaphores; as Memories, reused once nothing refers to them
    None,       \* -1, nullptr, or an unused name
    MaxKills,   \* BOUND: processes killed
    MaxFaults   \* BOUND: failing system calls

ASSUME NoneAssumption   == None \notin Memories \cup Semaphores
ASSUME BoundsAssumption == MaxKills \in Nat /\ MaxFaults \in Nat

VARIABLES
    shm_name, sem_name,     \* what the two names lead to
    sized,                  \* memories that ftruncate has given their size
    count, lost,            \* per semaphore: its value, and how often a dead process took it
    pc, is_owner, shm_fd, mapped_ptr, semaphore,    \* per manager
    ending,                 \* per manager: it is being destroyed
    kills, faults

names  == <<shm_name, sem_name>>
fields == <<is_owner, shm_fd, mapped_ptr, semaphore, ending>>
locks  == <<count, lost>>
bounds == <<kills, faults>>
vars == <<names, sized, locks, pc, fields, bounds>>

At(m, l)   == pc[m] = l
Goto(m, l) == pc' = [pc EXCEPT ![m] = l]
Alone(m)   == \A n \in Managers \ {m} : At(n, "none")
Fault      == faults < MaxFaults /\ faults' = faults + 1

FreeMemory == {o \in Memories : o # shm_name /\ \A m \in Managers : o \notin {shm_fd[m], mapped_ptr[m]}}
FreeSemaphore == {s \in Semaphores : s # sem_name /\ \A m \in Managers : s # semaphore[m]}

Init == /\ shm_name = None /\ sem_name = None /\ sized = {}
        /\ count = [s \in Semaphores |-> 0] /\ lost = [s \in Semaphores |-> 0]
        /\ pc = [m \in Managers |-> "none"] /\ is_owner = [m \in Managers |-> FALSE]
        /\ shm_fd = [m \in Managers |-> None] /\ mapped_ptr = [m \in Managers |-> None]
        /\ semaphore = [m \in Managers |-> None] /\ ending = [m \in Managers |-> FALSE]
        /\ kills = 0 /\ faults = 0

-----------------------------------------------------------------------------
\* init_as_server and attach_as_client.

\* One of the two is called, for an object that is new or was closed: on a
\* ready one a second call would overwrite descriptor, mapping and semaphore.
Begin(m, server) ==
    /\ pc[m] \in {"none", "closed"}
    /\ server => Alone(m)
    /\ is_owner' = [is_owner EXCEPT ![m] = server]
    /\ ending' = [ending EXCEPT ![m] = FALSE]
    /\ Goto(m, "open")
    /\ UNCHANGED <<names, sized, locks, shm_fd, mapped_ptr, semaphore, bounds>>

\* The semaphore is made along with the memory.
Open_SemaphoreFirst(m) ==
    /\ At(m, "open")
    /\ IF shm_name = None
       THEN \E o \in FreeMemory :
               /\ is_owner[m]
               /\ shm_name' = o /\ sized' = sized \ {o}
               /\ shm_fd' = [shm_fd EXCEPT ![m] = o]
       ELSE shm_fd' = [shm_fd EXCEPT ![m] = shm_name] /\ UNCHANGED <<shm_name, sized>>
    /\ IF is_owner[m] /\ sem_name = None
       THEN \E s \in FreeSemaphore :
               /\ sem_name' = s
               /\ count' = [count EXCEPT ![s] = 1] /\ lost' = [lost EXCEPT ![s] = 0]
       ELSE UNCHANGED <<sem_name, locks>>
    /\ Goto(m, IF is_owner[m] THEN "size" ELSE "map")
    /\ UNCHANGED <<is_owner, mapped_ptr, semaphore, ending, bounds>>

\* shm_open: without O_EXCL, so a server takes over what has the name.
Open(m) ==
    /\ At(m, "open")
    /\ IF shm_name = None
       THEN \E o \in FreeMemory :
               /\ is_owner[m]
               /\ shm_name' = o /\ sized' = sized \ {o}
               /\ shm_fd' = [shm_fd EXCEPT ![m] = o]
       ELSE shm_fd' = [shm_fd EXCEPT ![m] = shm_name] /\ UNCHANGED <<shm_name, sized>>
    /\ Goto(m, IF is_owner[m] THEN "size" ELSE "map")
    /\ UNCHANGED <<sem_name, locks, is_owner, mapped_ptr, semaphore, ending, bounds>>

\* It returns without cleanup; a server's is_owner is set already.
OpenFails(m) ==
    /\ At(m, "open")
    /\ \/ ~is_owner[m] /\ shm_name = None /\ UNCHANGED faults
       \/ Fault
    /\ Goto(m, "closed")
    /\ UNCHANGED <<names, sized, locks, fields, kills>>

Size(m) ==
    /\ At(m, "size")
    /\ sized' = sized \cup {shm_fd[m]}
    /\ Goto(m, "map")
    /\ UNCHANGED <<names, locks, fields, bounds>>

\* mmap, which succeeds for a memory of any size.
Map(m) ==
    /\ At(m, "map")
    /\ mapped_ptr' = [mapped_ptr EXCEPT ![m] = shm_fd[m]]
    /\ Goto(m, "semaphore")
    /\ UNCHANGED <<names, sized, locks, is_owner, shm_fd, semaphore, ending, bounds>>

\* A server makes its semaphore anew, lest it be one that a dead process took.
OpenSemaphore_Anew(m) ==
    /\ At(m, "semaphore")
    /\ IF is_owner[m]
       THEN \E s \in FreeSemaphore :
               /\ sem_name' = s /\ semaphore' = [semaphore EXCEPT ![m] = s]
               /\ count' = [count EXCEPT ![s] = 1] /\ lost' = [lost EXCEPT ![s] = 0]
       ELSE /\ sem_name # None
            /\ semaphore' = [semaphore EXCEPT ![m] = sem_name] /\ UNCHANGED <<sem_name, locks>>
    /\ Goto(m, "ready")
    /\ UNCHANGED <<shm_name, sized, is_owner, shm_fd, mapped_ptr, ending, bounds>>

\* sem_open: its value, 1, counts only for a semaphore that is new.
OpenSemaphore(m) ==
    /\ At(m, "semaphore")
    /\ IF sem_name = None
       THEN \E s \in FreeSemaphore :
               /\ is_owner[m]
               /\ sem_name' = s /\ semaphore' = [semaphore EXCEPT ![m] = s]
               /\ count' = [count EXCEPT ![s] = 1] /\ lost' = [lost EXCEPT ![s] = 0]
       ELSE semaphore' = [semaphore EXCEPT ![m] = sem_name] /\ UNCHANGED <<sem_name, locks>>
    /\ Goto(m, "ready")
    /\ UNCHANGED <<shm_name, sized, is_owner, shm_fd, mapped_ptr, ending, bounds>>

LaterFails_NoCleanup(m) ==
    /\ \/ pc[m] \in {"size", "map", "semaphore"} /\ Fault
       \/ At(m, "semaphore") /\ ~is_owner[m] /\ sem_name = None /\ UNCHANGED faults
    /\ Goto(m, "closed")
    /\ UNCHANGED <<names, sized, locks, fields, kills>>

\* ftruncate, mmap or sem_open fails, and cleanup is called.
LaterFails(m) ==
    /\ \/ pc[m] \in {"size", "map", "semaphore"} /\ Fault
       \/ At(m, "semaphore") /\ ~is_owner[m] /\ sem_name = None /\ UNCHANGED faults
    /\ Goto(m, "cleanup")
    /\ UNCHANGED <<names, sized, locks, fields, kills>>

-----------------------------------------------------------------------------
\* lock and unlock.

Lock(m) ==
    /\ At(m, "ready")
    /\ Goto(m, "waiting")
    /\ UNCHANGED <<names, sized, locks, fields, bounds>>

\* An interrupted sem_wait counts as a success.
Acquire_Interrupted(m) ==
    /\ At(m, "waiting")
    /\ count' \in {[count EXCEPT ![semaphore[m]] = @ - 1], count}
    /\ count[semaphore[m]] = 0 => count' = count
    /\ Goto(m, "holding")
    /\ UNCHANGED <<names, sized, lost, fields, bounds>>

\* sem_wait, begun anew when it is interrupted.
Acquire(m) ==
    /\ At(m, "waiting") /\ count[semaphore[m]] > 0
    /\ count' = [count EXCEPT ![semaphore[m]] = @ - 1]
    /\ Goto(m, "holding")
    /\ UNCHANGED <<names, sized, lost, fields, bounds>>

\* sem_wait fails otherwise, and lock returns false.
AcquireFails(m) ==
    /\ At(m, "waiting") /\ Fault
    /\ Goto(m, "ready")
    /\ UNCHANGED <<names, sized, locks, fields, kills>>

\* By somebody whose lock has failed.
Unlock_Unheld(m) ==
    /\ pc[m] \in {"holding", "ready"}
    /\ count' = [count EXCEPT ![semaphore[m]] = @ + 1]
    /\ Goto(m, "ready")
    /\ UNCHANGED <<names, sized, lost, fields, bounds>>

Unlock(m) ==
    /\ At(m, "holding")
    /\ count' = [count EXCEPT ![semaphore[m]] = @ + 1]
    /\ Goto(m, "ready")
    /\ UNCHANGED <<names, sized, lost, fields, bounds>>

-----------------------------------------------------------------------------
\* cleanup: called after failures, by the user, and by the destructor.

\* By the user, or by the destructor, after which the object is no more.
Cleanup(m, last) ==
    /\ At(m, "ready") \/ (At(m, "closed") /\ last)
    /\ Goto(m, "cleanup")
    /\ ending' = [ending EXCEPT ![m] = last]
    /\ UNCHANGED <<names, sized, locks, is_owner, shm_fd, mapped_ptr, semaphore, bounds>>

\* Where cleanup ends.
Finish(m) == Goto(m, IF ending[m] THEN "none" ELSE "closed")

Close_EveryoneUnlinks(m) ==
    /\ At(m, "cleanup")
    /\ mapped_ptr' = [mapped_ptr EXCEPT ![m] = None]
    /\ shm_fd' = [shm_fd EXCEPT ![m] = None]
    /\ semaphore' = [semaphore EXCEPT ![m] = None]
    /\ Goto(m, "unlink")
    /\ UNCHANGED <<names, sized, locks, is_owner, ending, bounds>>

\* munmap, close and sem_close of what is open.
Close(m) ==
    /\ At(m, "cleanup")
    /\ mapped_ptr' = [mapped_ptr EXCEPT ![m] = None]
    /\ shm_fd' = [shm_fd EXCEPT ![m] = None]
    /\ semaphore' = [semaphore EXCEPT ![m] = None]
    /\ IF is_owner[m] THEN Goto(m, "unlink") ELSE Finish(m)
    /\ UNCHANGED <<names, sized, locks, is_owner, ending, bounds>>

UnlinkMemory(m) ==
    /\ At(m, "unlink")
    /\ shm_name' = None
    /\ Goto(m, "unlink_semaphore")
    /\ UNCHANGED <<sem_name, sized, locks, fields, bounds>>

UnlinkSemaphore(m) ==
    /\ At(m, "unlink_semaphore")
    /\ sem_name' = None
    /\ Finish(m)
    /\ UNCHANGED <<shm_name, sized, locks, fields, bounds>>

\* The kernel closes what the process had open; nobody unlinks, and a lock that
\* it held stays taken.
Kill(m) ==
    /\ ~At(m, "none") /\ kills < MaxKills
    /\ kills' = kills + 1
    /\ mapped_ptr' = [mapped_ptr EXCEPT ![m] = None]
    /\ shm_fd' = [shm_fd EXCEPT ![m] = None]
    /\ semaphore' = [semaphore EXCEPT ![m] = None]
    /\ lost' = IF At(m, "holding") THEN [lost EXCEPT ![semaphore[m]] = @ + 1] ELSE lost
    /\ Goto(m, "none")
    /\ UNCHANGED <<names, sized, count, is_owner, ending, faults>>

Next == \E m \in Managers :
    \/ \E b \in BOOLEAN : Begin(m, b) \/ Cleanup(m, b)
    \/ Open(m) \/ OpenFails(m) \/ Size(m) \/ Map(m) \/ OpenSemaphore(m) \/ LaterFails(m)
    \/ Lock(m) \/ Acquire(m) \/ AcquireFails(m) \/ Unlock(m)
    \/ Close(m) \/ UnlinkMemory(m) \/ UnlinkSemaphore(m) \/ Kill(m)

Spec == Init /\ [][Next]_vars

-----------------------------------------------------------------------------
\* Properties.

Attached(m) == pc[m] \in {"ready", "waiting", "holding"}

TypeOK ==
    /\ shm_name \in Memories \cup {None} /\ sem_name \in Semaphores \cup {None}
    /\ sized \subseteq Memories
    /\ count \in [Semaphores -> 0 .. 1] /\ lost \in [Semaphores -> 0 .. MaxKills]
    /\ pc \in [Managers -> {"none", "open", "size", "map", "semaphore", "closed", "ready",
                            "waiting", "holding", "cleanup", "unlink", "unlink_semaphore"}]
    /\ \A m \in Managers :
          /\ At(m, "size") => is_owner[m]
          /\ Attached(m) => None \notin {shm_fd[m], mapped_ptr[m], semaphore[m]}
    /\ kills \in 0 .. MaxKills /\ faults \in 0 .. MaxFaults

\* The semaphore of a memory is its lock: managers that work on the same memory
\* use the same semaphore, whatever objects the names led to when each of the
\* two was opened.
MatchedPairs ==
    \A m, n \in Managers :
        Attached(m) /\ Attached(n) =>
            (mapped_ptr[m] = mapped_ptr[n] <=> semaphore[m] = semaphore[n])

\* A lock is free, held by one manager, or lost with a dead one: there are never
\* two holders, and nobody waits for a lock that nobody has.
LockAccounted ==
    \A s \in Semaphores :
        (s = sem_name \/ \E m \in Managers : semaphore[m] = s) =>
            count[s] + lost[s]
                + Cardinality({m \in Managers : At(m, "holding") /\ semaphore[m] = s}) = 1

\* Who attaches while a server is ready joins that server, although managers
\* unlink both names without asking whose they are.
Served ==
    \A m \in Managers :
        is_owner[m] /\ Attached(m) => shm_name = mapped_ptr[m] /\ sem_name = semaphore[m]

\* Unless a process was killed: the semaphore comes last, so nobody who has it
\* has a memory without its size (nobody checks that); and once all managers are
\* gone, failed ones included, there is nothing left of them, not even a name.
SizedFirst == kills = 0 => \A m \in Managers : Attached(m) => mapped_ptr[m] \in sized

NothingLeftBehind ==
    /\ \A m \in Managers :
          pc[m] \in {"none", "closed"} => {shm_fd[m], mapped_ptr[m], semaphore[m]} = {None}
    /\ kills = 0 /\ (\A m \in Managers : At(m, "none")) => shm_name = None /\ sem_name = None
=============================================================================

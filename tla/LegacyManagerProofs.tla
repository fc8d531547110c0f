------------------------- MODULE LegacyManagerProofs -------------------------
(***************************************************************************)
(* Theorems about LegacyManager, for any number of managers, memories,     *)
(* semaphores, kills and failing system calls: a memory has one lock, a    *)
(* ready server keeps its names, and what fails leaves nothing behind.     *)
(***************************************************************************)
EXTENDS LegacyManager, FiniteSetTheorems, TLAPS

USE DEF At, Goto, names, fields, locks, bounds

-----------------------------------------------------------------------------
\* The inductive invariant.

\* The places in the code.
Stages == {"none", "open", "size", "map", "semaphore", "closed", "ready",
           "waiting", "holding", "cleanup", "unlink", "unlink_semaphore"}

TypeInv ==
    /\ shm_name \in Memories \cup {None} /\ sem_name \in Semaphores \cup {None}
    /\ sized \subseteq Memories
    /\ count \in [Semaphores -> 0 .. 1] /\ lost \in [Semaphores -> 0 .. MaxKills]
    /\ pc \in [Managers -> Stages]
    /\ is_owner \in [Managers -> BOOLEAN] /\ ending \in [Managers -> BOOLEAN]
    /\ shm_fd \in [Managers -> Memories \cup {None}]
    /\ mapped_ptr \in [Managers -> Memories \cup {None}]
    /\ semaphore \in [Managers -> Semaphores \cup {None}]
    /\ kills \in 0 .. MaxKills /\ faults \in 0 .. MaxFaults

\* What a manager has open at its place in the code.
PlaceOK(m) ==
    /\ pc[m] \in {"none", "closed", "open", "unlink", "unlink_semaphore"} =>
          shm_fd[m] = None /\ mapped_ptr[m] = None /\ semaphore[m] = None
    /\ pc[m] \in {"size", "map"} =>
          shm_fd[m] # None /\ mapped_ptr[m] = None /\ semaphore[m] = None
    /\ At(m, "semaphore") =>
          shm_fd[m] # None /\ mapped_ptr[m] = shm_fd[m] /\ semaphore[m] = None
    /\ Attached(m) =>
          shm_fd[m] # None /\ mapped_ptr[m] = shm_fd[m] /\ semaphore[m] # None
    /\ At(m, "cleanup") => mapped_ptr[m] \in {None, shm_fd[m]}
    /\ pc[m] \in {"size", "unlink", "unlink_semaphore"} => is_owner[m]

PlaceInv == \A m \in Managers : PlaceOK(m)

\* A server that has not been destroyed, even if its initialization failed or it
\* was closed: it will unlink both names.  There is never more than one.
Owner(m) == is_owner[m] /\ ~At(m, "none")

OwnerInv == \A m, n \in Managers : Owner(m) /\ Owner(n) => m = n

\* All that is open is one memory and one semaphore, and a name that leads
\* elsewhere leads nowhere.  So a server that is about to make an object, because
\* the name is free, makes the first that anybody has.
ObjectInv ==
    /\ \A m \in Managers : shm_fd[m] # None => shm_name \in {None, shm_fd[m]}
    /\ \A m \in Managers : semaphore[m] # None => sem_name \in {None, semaphore[m]}
    /\ \A m, n \in Managers :
          shm_fd[m] # None /\ shm_fd[n] # None => shm_fd[m] = shm_fd[n]
    /\ \A m, n \in Managers :
          semaphore[m] # None /\ semaphore[n] # None => semaphore[m] = semaphore[n]
    /\ \A m \in Managers :
          Owner(m) /\ At(m, "open") /\ shm_name = None =>
              \A n \in Managers : shm_fd[n] = None
    /\ \A m \in Managers :
          Owner(m) /\ pc[m] \in {"open", "size", "map", "semaphore"} /\ sem_name = None =>
              \A n \in Managers : semaphore[n] = None

\* From its shm_open to its cleanup, the names lead to what the server has open.
NameInv ==
    \A m \in Managers :
        Owner(m) =>
            /\ pc[m] \in {"size", "map", "semaphore"} \/ Attached(m) => shm_name = shm_fd[m]
            /\ Attached(m) => sem_name = semaphore[m]

\* A semaphore that somebody can take is free, lost, or held by one manager.
InUse(s)     == s = sem_name \/ \E m \in Managers : semaphore[m] = s
Holder(m, s) == At(m, "holding") /\ semaphore[m] = s

LockInv ==
    \A s \in Semaphores :
        InUse(s) =>
            \/ count[s] = 1 /\ lost[s] = 0 /\ \A m \in Managers : ~Holder(m, s)
            \/ count[s] = 0 /\ lost[s] = 1 /\ \A m \in Managers : ~Holder(m, s)
            \/ /\ count[s] = 0 /\ lost[s] = 0
               /\ \E m \in Managers : Holder(m, s) /\ \A n \in Managers : Holder(n, s) => n = m

\* Unless a process was killed: while there is a semaphore, what is open and what
\* the name leads to has its size, and each name has an owner that is to remove it.
SizeInv ==
    /\ \A m \in Managers : Owner(m) /\ pc[m] \in {"map", "semaphore"} => shm_fd[m] \in sized
    /\ kills = 0 =>
          /\ \A m \in Managers : Attached(m) => shm_fd[m] \in sized
          /\ sem_name # None =>
                /\ shm_name \in sized \cup {None}
                /\ \A m \in Managers : shm_fd[m] \in sized \cup {None}
                /\ \E m \in Managers :
                      /\ Owner(m)
                      /\ Attached(m) \/ pc[m] \in {"cleanup", "unlink", "unlink_semaphore"}
          /\ shm_name # None =>
                \E m \in Managers :
                    Owner(m) /\ pc[m] \notin {"open", "closed", "unlink_semaphore"}

IInv == TypeInv /\ PlaceInv /\ OwnerInv /\ ObjectInv /\ NameInv /\ LockInv /\ SizeInv

-----------------------------------------------------------------------------
\* It is inductive: one lemma for each part.

\* A step of the manager m.
StepOf(m, b) ==
    \/ Begin(m, b) \/ Cleanup(m, b)
    \/ Open(m) \/ OpenFails(m) \/ Size(m) \/ Map(m) \/ OpenSemaphore(m) \/ LaterFails(m)
    \/ Lock(m) \/ Acquire(m) \/ AcquireFails(m) \/ Unlock(m)
    \/ Close(m) \/ UnlinkMemory(m) \/ UnlinkSemaphore(m) \/ Kill(m)

\* No value is out of its range: a semaphore is given back only by who took it, and
\* taken along by a dead process only once.
LEMMA TypeInvStep ==
  ASSUME TypeInv, PlaceInv, LockInv,
         NEW m \in Managers, NEW b \in BOOLEAN, StepOf(m, b)
  PROVE  TypeInv'
<1> USE DEF TypeInv, PlaceInv, PlaceOK, LockInv, InUse, Holder, Stages, Attached
<1>1. CASE Begin(m, b)
  BY <1>1, NoneAssumption, BoundsAssumption DEF Begin, Alone
<1>2. CASE Open(m)
  BY <1>2, NoneAssumption, BoundsAssumption DEF Open, FreeMemory
<1>3. CASE OpenFails(m)
  BY <1>3, NoneAssumption, BoundsAssumption DEF OpenFails, Fault
<1>4. CASE Size(m)
  BY <1>4, NoneAssumption, BoundsAssumption DEF Size
<1>5. CASE Map(m)
  BY <1>5, NoneAssumption, BoundsAssumption DEF Map
<1>6. CASE OpenSemaphore(m)
  BY <1>6, NoneAssumption, BoundsAssumption DEF OpenSemaphore, FreeSemaphore
<1>7. CASE LaterFails(m)
  BY <1>7, NoneAssumption, BoundsAssumption DEF LaterFails, Fault
<1>8. CASE Lock(m)
  BY <1>8, NoneAssumption, BoundsAssumption DEF Lock
<1>9. CASE Acquire(m)
  BY <1>9, NoneAssumption, BoundsAssumption DEF Acquire
<1>10. CASE AcquireFails(m)
  BY <1>10, NoneAssumption, BoundsAssumption DEF AcquireFails, Fault
<1>11. CASE Unlock(m)
  BY <1>11, NoneAssumption, BoundsAssumption DEF Unlock
<1>12. CASE Cleanup(m, b)
  BY <1>12, NoneAssumption, BoundsAssumption DEF Cleanup
<1>13. CASE Close(m)
  BY <1>13, NoneAssumption, BoundsAssumption DEF Close, Finish
<1>14. CASE UnlinkMemory(m)
  BY <1>14, NoneAssumption, BoundsAssumption DEF UnlinkMemory
<1>15. CASE UnlinkSemaphore(m)
  BY <1>15, NoneAssumption, BoundsAssumption DEF UnlinkSemaphore, Finish
<1>16. CASE Kill(m)
  BY <1>16, NoneAssumption, BoundsAssumption DEF Kill
<1> QED
  BY <1>1, <1>2, <1>3, <1>4, <1>5, <1>6, <1>7, <1>8, <1>9, <1>10, <1>11, <1>12,
     <1>13, <1>14, <1>15, <1>16 DEF StepOf

\* A manager moves on with the fields that its next place needs.
LEMMA PlaceInvStep ==
  ASSUME TypeInv, PlaceInv,
         NEW m \in Managers, NEW b \in BOOLEAN, StepOf(m, b)
  PROVE  PlaceInv'
<1> USE DEF TypeInv, PlaceInv, PlaceOK, Attached
<1>1. CASE Begin(m, b)
  BY <1>1, NoneAssumption DEF Begin, Alone
<1>2. CASE Open(m)
  BY <1>2, NoneAssumption DEF Open, FreeMemory
<1>3. CASE OpenFails(m)
  BY <1>3, NoneAssumption DEF OpenFails
<1>4. CASE Size(m)
  BY <1>4, NoneAssumption DEF Size
<1>5. CASE Map(m)
  BY <1>5, NoneAssumption DEF Map
<1>6. CASE OpenSemaphore(m)
  BY <1>6, NoneAssumption DEF OpenSemaphore, FreeSemaphore
<1>7. CASE LaterFails(m)
  BY <1>7, NoneAssumption DEF LaterFails
<1>8. CASE Lock(m)
  BY <1>8, NoneAssumption DEF Lock
<1>9. CASE Acquire(m)
  BY <1>9, NoneAssumption DEF Acquire
<1>10. CASE AcquireFails(m)
  BY <1>10, NoneAssumption DEF AcquireFails
<1>11. CASE Unlock(m)
  BY <1>11, NoneAssumption DEF Unlock
<1>12. CASE Cleanup(m, b)
  BY <1>12, NoneAssumption DEF Cleanup
<1>13. CASE Close(m)
  BY <1>13, NoneAssumption DEF Close, Finish
<1>14. CASE UnlinkMemory(m)
  BY <1>14, NoneAssumption DEF UnlinkMemory
<1>15. CASE UnlinkSemaphore(m)
  BY <1>15, NoneAssumption DEF UnlinkSemaphore, Finish
<1>16. CASE Kill(m)
  BY <1>16, NoneAssumption DEF Kill
<1> QED
  BY <1>1, <1>2, <1>3, <1>4, <1>5, <1>6, <1>7, <1>8, <1>9, <1>10, <1>11, <1>12,
     <1>13, <1>14, <1>15, <1>16 DEF StepOf

\* A second server does not start, since it would not be alone.
LEMMA OwnerInvStep ==
  ASSUME TypeInv, OwnerInv,
         NEW m \in Managers, NEW b \in BOOLEAN, StepOf(m, b)
  PROVE  OwnerInv'
<1> USE DEF TypeInv, OwnerInv, Owner
<1>1. CASE Begin(m, b)
  BY <1>1 DEF Begin, Alone
<1>2. CASE Open(m)
  BY <1>2 DEF Open, FreeMemory
<1>3. CASE OpenFails(m)
  BY <1>3 DEF OpenFails
<1>4. CASE Size(m)
  BY <1>4 DEF Size
<1>5. CASE Map(m)
  BY <1>5 DEF Map
<1>6. CASE OpenSemaphore(m)
  BY <1>6 DEF OpenSemaphore, FreeSemaphore
<1>7. CASE LaterFails(m)
  BY <1>7 DEF LaterFails
<1>8. CASE Lock(m)
  BY <1>8 DEF Lock
<1>9. CASE Acquire(m)
  BY <1>9 DEF Acquire
<1>10. CASE AcquireFails(m)
  BY <1>10 DEF AcquireFails
<1>11. CASE Unlock(m)
  BY <1>11 DEF Unlock
<1>12. CASE Cleanup(m, b)
  BY <1>12 DEF Cleanup
<1>13. CASE Close(m)
  BY <1>13 DEF Close, Finish
<1>14. CASE UnlinkMemory(m)
  BY <1>14 DEF UnlinkMemory
<1>15. CASE UnlinkSemaphore(m)
  BY <1>15 DEF UnlinkSemaphore, Finish
<1>16. CASE Kill(m)
  BY <1>16 DEF Kill
<1> QED
  BY <1>1, <1>2, <1>3, <1>4, <1>5, <1>6, <1>7, <1>8, <1>9, <1>10, <1>11, <1>12,
     <1>13, <1>14, <1>15, <1>16 DEF StepOf

\* A name leads to nothing new before all that it led to is closed.
LEMMA ObjectInvStep ==
  ASSUME TypeInv, PlaceInv, OwnerInv, ObjectInv,
         NEW m \in Managers, NEW b \in BOOLEAN, StepOf(m, b)
  PROVE  ObjectInv'
<1> USE DEF TypeInv, PlaceInv, PlaceOK, OwnerInv, ObjectInv, Owner, Attached
<1>1. CASE Begin(m, b)
  BY <1>1, NoneAssumption DEF Begin, Alone
<1>2. CASE Open(m)
  BY <1>2, NoneAssumption DEF Open, FreeMemory
<1>3. CASE OpenFails(m)
  BY <1>3, NoneAssumption DEF OpenFails
<1>4. CASE Size(m)
  BY <1>4, NoneAssumption DEF Size
<1>5. CASE Map(m)
  BY <1>5, NoneAssumption DEF Map
<1>6. CASE OpenSemaphore(m)
  BY <1>6, NoneAssumption DEF OpenSemaphore, FreeSemaphore
<1>7. CASE LaterFails(m)
  BY <1>7, NoneAssumption DEF LaterFails
<1>8. CASE Lock(m)
  BY <1>8, NoneAssumption DEF Lock
<1>9. CASE Acquire(m)
  BY <1>9, NoneAssumption DEF Acquire
<1>10. CASE AcquireFails(m)
  BY <1>10, NoneAssumption DEF AcquireFails
<1>11. CASE Unlock(m)
  BY <1>11, NoneAssumption DEF Unlock
<1>12. CASE Cleanup(m, b)
  BY <1>12, NoneAssumption DEF Cleanup
<1>13. CASE Close(m)
  BY <1>13, NoneAssumption DEF Close, Finish
<1>14. CASE UnlinkMemory(m)
  BY <1>14, NoneAssumption DEF UnlinkMemory
<1>15. CASE UnlinkSemaphore(m)
  BY <1>15, NoneAssumption DEF UnlinkSemaphore, Finish
<1>16. CASE Kill(m)
  BY <1>16, NoneAssumption DEF Kill
<1> QED
  BY <1>1, <1>2, <1>3, <1>4, <1>5, <1>6, <1>7, <1>8, <1>9, <1>10, <1>11, <1>12,
     <1>13, <1>14, <1>15, <1>16 DEF StepOf

\* Only the owner removes its names.
LEMMA NameInvStep ==
  ASSUME TypeInv, PlaceInv, OwnerInv, ObjectInv, NameInv,
         NEW m \in Managers, NEW b \in BOOLEAN, StepOf(m, b)
  PROVE  NameInv'
<1> USE DEF TypeInv, PlaceInv, PlaceOK, OwnerInv, ObjectInv, NameInv, Owner, Attached
<1>1. CASE Begin(m, b)
  BY <1>1, NoneAssumption DEF Begin, Alone
<1>2. CASE Open(m)
  BY <1>2, NoneAssumption DEF Open, FreeMemory
<1>3. CASE OpenFails(m)
  BY <1>3, NoneAssumption DEF OpenFails
<1>4. CASE Size(m)
  BY <1>4, NoneAssumption DEF Size
<1>5. CASE Map(m)
  BY <1>5, NoneAssumption DEF Map
<1>6. CASE OpenSemaphore(m)
  BY <1>6, NoneAssumption DEF OpenSemaphore, FreeSemaphore
<1>7. CASE LaterFails(m)
  BY <1>7, NoneAssumption DEF LaterFails
<1>8. CASE Lock(m)
  BY <1>8, NoneAssumption DEF Lock
<1>9. CASE Acquire(m)
  BY <1>9, NoneAssumption DEF Acquire
<1>10. CASE AcquireFails(m)
  BY <1>10, NoneAssumption DEF AcquireFails
<1>11. CASE Unlock(m)
  BY <1>11, NoneAssumption DEF Unlock
<1>12. CASE Cleanup(m, b)
  BY <1>12, NoneAssumption DEF Cleanup
<1>13. CASE Close(m)
  BY <1>13, NoneAssumption DEF Close, Finish
<1>14. CASE UnlinkMemory(m)
  BY <1>14, NoneAssumption DEF UnlinkMemory
<1>15. CASE UnlinkSemaphore(m)
  BY <1>15, NoneAssumption DEF UnlinkSemaphore, Finish
<1>16. CASE Kill(m)
  BY <1>16, NoneAssumption DEF Kill
<1> QED
  BY <1>1, <1>2, <1>3, <1>4, <1>5, <1>6, <1>7, <1>8, <1>9, <1>10, <1>11, <1>12,
     <1>13, <1>14, <1>15, <1>16 DEF StepOf

\* Taking, giving back and dying with it are what happens to a lock.
LEMMA LockInvStep ==
  ASSUME TypeInv, PlaceInv, LockInv,
         NEW m \in Managers, NEW b \in BOOLEAN, StepOf(m, b)
  PROVE  LockInv'
<1> USE DEF TypeInv, PlaceInv, PlaceOK, LockInv, InUse, Holder, Attached
<1>1. CASE Begin(m, b)
  BY <1>1, NoneAssumption DEF Begin, Alone
<1>2. CASE Open(m)
  BY <1>2, NoneAssumption DEF Open, FreeMemory
<1>3. CASE OpenFails(m)
  BY <1>3, NoneAssumption DEF OpenFails
<1>4. CASE Size(m)
  BY <1>4, NoneAssumption DEF Size
<1>5. CASE Map(m)
  BY <1>5, NoneAssumption DEF Map
<1>6. CASE OpenSemaphore(m)
  BY <1>6, NoneAssumption DEF OpenSemaphore, FreeSemaphore
<1>7. CASE LaterFails(m)
  BY <1>7, NoneAssumption DEF LaterFails
<1>8. CASE Lock(m)
  BY <1>8, NoneAssumption DEF Lock
<1>9. CASE Acquire(m)
  BY <1>9, NoneAssumption DEF Acquire
<1>10. CASE AcquireFails(m)
  BY <1>10, NoneAssumption DEF AcquireFails
<1>11. CASE Unlock(m)
  BY <1>11, NoneAssumption DEF Unlock
<1>12. CASE Cleanup(m, b)
  BY <1>12, NoneAssumption DEF Cleanup
<1>13. CASE Close(m)
  BY <1>13, NoneAssumption DEF Close, Finish
<1>14. CASE UnlinkMemory(m)
  BY <1>14, NoneAssumption DEF UnlinkMemory
<1>15. CASE UnlinkSemaphore(m)
  BY <1>15, NoneAssumption DEF UnlinkSemaphore, Finish
<1>16. CASE Kill(m)
  BY <1>16, NoneAssumption DEF Kill
<1> QED
  BY <1>1, <1>2, <1>3, <1>4, <1>5, <1>6, <1>7, <1>8, <1>9, <1>10, <1>11, <1>12,
     <1>13, <1>14, <1>15, <1>16 DEF StepOf

\* The memory has its size before anybody can have the semaphore.
LEMMA SizeInvStep ==
  ASSUME TypeInv, PlaceInv, OwnerInv, ObjectInv, NameInv, SizeInv,
         NEW m \in Managers, NEW b \in BOOLEAN, StepOf(m, b)
  PROVE  SizeInv'
<1> USE DEF TypeInv, PlaceInv, PlaceOK, OwnerInv, ObjectInv, NameInv, SizeInv, Owner, Attached
<1>1. CASE Begin(m, b)
  BY <1>1, NoneAssumption DEF Begin, Alone
<1>2. CASE Open(m)
  BY <1>2, NoneAssumption DEF Open, FreeMemory
<1>3. CASE OpenFails(m)
  BY <1>3, NoneAssumption DEF OpenFails
<1>4. CASE Size(m)
  BY <1>4, NoneAssumption DEF Size
<1>5. CASE Map(m)
  BY <1>5, NoneAssumption DEF Map
<1>6. CASE OpenSemaphore(m)
  BY <1>6, NoneAssumption DEF OpenSemaphore, FreeSemaphore
<1>7. CASE LaterFails(m)
  BY <1>7, NoneAssumption DEF LaterFails
<1>8. CASE Lock(m)
  BY <1>8, NoneAssumption DEF Lock
<1>9. CASE Acquire(m)
  BY <1>9, NoneAssumption DEF Acquire
<1>10. CASE AcquireFails(m)
  BY <1>10, NoneAssumption DEF AcquireFails
<1>11. CASE Unlock(m)
  BY <1>11, NoneAssumption DEF Unlock
<1>12. CASE Cleanup(m, b)
  BY <1>12, NoneAssumption DEF Cleanup
<1>13. CASE Close(m)
  BY <1>13, NoneAssumption DEF Close, Finish
<1>14. CASE UnlinkMemory(m)
  BY <1>14, NoneAssumption DEF UnlinkMemory
<1>15. CASE UnlinkSemaphore(m)
  BY <1>15, NoneAssumption DEF UnlinkSemaphore, Finish
<1>16. CASE Kill(m)
  BY <1>16, NoneAssumption DEF Kill
<1> QED
  BY <1>1, <1>2, <1>3, <1>4, <1>5, <1>6, <1>7, <1>8, <1>9, <1>10, <1>11, <1>12,
     <1>13, <1>14, <1>15, <1>16 DEF StepOf

\* At first there is nothing: no manager, no object, no name.
LEMMA InitIInv == Init => IInv
<1> SUFFICES ASSUME Init PROVE IInv
  OBVIOUS
<1> USE NoneAssumption DEF Init
<1>1. TypeInv
  BY BoundsAssumption DEF TypeInv, Stages
<1>2. PlaceInv /\ OwnerInv
  BY DEF PlaceInv, PlaceOK, Attached, OwnerInv, Owner
<1>3. ObjectInv /\ NameInv
  BY DEF ObjectInv, NameInv, Owner
<1>4. LockInv /\ SizeInv
  BY DEF LockInv, InUse, SizeInv, Owner, Attached
<1> QED
  BY <1>1, <1>2, <1>3, <1>4 DEF IInv

\* The invariant is about the variables only, so a stutter keeps it.
LEMMA StutterIInv == IInv /\ UNCHANGED vars => IInv'
BY DEF IInv, vars, TypeInv, PlaceInv, PlaceOK, OwnerInv, Owner, ObjectInv, NameInv, LockInv,
       InUse, Holder, SizeInv, Attached

\* No step breaks it.
LEMMA StepIInv == IInv /\ [Next]_vars => IInv'
<1> SUFFICES ASSUME IInv, [Next]_vars PROVE IInv'
  OBVIOUS
<1>1. CASE Next
  <2>1. PICK m \in Managers, b \in BOOLEAN : StepOf(m, b)
    BY <1>1 DEF Next, StepOf
  <2>2. TypeInv /\ PlaceInv /\ OwnerInv /\ ObjectInv /\ NameInv /\ LockInv /\ SizeInv
    BY DEF IInv
  <2>3. TypeInv' /\ PlaceInv' /\ OwnerInv'
    BY <2>1, <2>2, TypeInvStep, PlaceInvStep, OwnerInvStep
  <2>4. ObjectInv' /\ NameInv'
    BY <2>1, <2>2, ObjectInvStep, NameInvStep
  <2>5. LockInv' /\ SizeInv'
    BY <2>1, <2>2, LockInvStep, SizeInvStep
  <2> QED
    BY <2>3, <2>4, <2>5 DEF IInv
<1>2. CASE UNCHANGED vars
  BY <1>2, StutterIInv
<1> QED
  BY <1>1, <1>2

\* So it holds in every state that managers of legacy/shared_memory.cpp can reach.
THEOREM LegacyInvariant == Spec => []IInv
<1> QED
  BY InitIInv, StepIInv, PTL DEF Spec

-----------------------------------------------------------------------------
\* What follows from it.

\* Every variable keeps its type, and a manager that has attached has a memory and
\* a semaphore: init_as_server and attach_as_client (legacy/shared_memory.cpp)
\* return true only with both.
THEOREM LegacyTypes == Spec => []TypeOK
<1>1. IInv => TypeOK
  BY NoneAssumption DEF IInv, TypeInv, PlaceInv, PlaceOK, TypeOK, Stages, Attached
<1> QED
  BY <1>1, LegacyInvariant, PTL

\* Managers on the same memory take the same lock, although shm_open and sem_open
\* look up two names, one after the other, and may find them of different age.
THEOREM MemoryHasOneLock == Spec => []MatchedPairs
<1>1. IInv => MatchedPairs
  BY DEF IInv, PlaceInv, PlaceOK, ObjectInv, MatchedPairs
<1> QED
  BY <1>1, LegacyInvariant, PTL

\* sem_wait and sem_post keep the lock exclusive, whoever fails or dies: it is free,
\* has one holder, or was lost with one dead process.
THEOREM LockIsAccounted == Spec => []LockAccounted
<1>1. ASSUME IInv, NEW s \in Semaphores, InUse(s)
      PROVE  count[s] + lost[s] + Cardinality({m \in Managers : Holder(m, s)}) = 1
  <2> DEFINE holders == {m \in Managers : Holder(m, s)}
  <2>1. CASE \A m \in Managers : ~Holder(m, s)
    <3>1. holders = {}
      BY <2>1
    <3>2. Cardinality(holders) = 0
      BY <3>1, FS_EmptySet
    <3>3. count[s] + lost[s] = 1
      BY <1>1, <2>1 DEF IInv, LockInv
    <3>4. count[s] \in Nat /\ lost[s] \in Nat
      BY <1>1, BoundsAssumption DEF IInv, TypeInv
    <3> QED
      BY <3>2, <3>3, <3>4
  <2>2. CASE \E m \in Managers : Holder(m, s)
    <3>1. PICK m \in Managers : Holder(m, s) /\ \A n \in Managers : Holder(n, s) => n = m
      BY <1>1, <2>2 DEF IInv, LockInv
    <3>2. holders = {m}
      BY <3>1
    <3>3. Cardinality(holders) = 1
      BY <3>2, FS_Singleton
    <3>4. count[s] = 0 /\ lost[s] = 0
      BY <1>1, <2>2 DEF IInv, LockInv
    <3> QED
      BY <3>3, <3>4
  <2> QED
    BY <2>1, <2>2
<1>2. IInv => LockAccounted
  BY <1>1 DEF LockAccounted, InUse, Holder
<1> QED
  BY <1>2, LegacyInvariant, PTL

\* While a server is ready both names lead to its objects, so that every client
\* joins it: cleanup of the others does not unlink what is not theirs.
THEOREM ReadyServerIsServed == Spec => []Served
<1>1. IInv => Served
  BY DEF IInv, PlaceInv, PlaceOK, NameInv, Owner, Attached, Served
<1> QED
  BY <1>1, LegacyInvariant, PTL

\* Nobody works on a memory before ftruncate has given it its size, unless the
\* server was killed between shm_open and ftruncate.
THEOREM SizedBeforeUse == Spec => []SizedFirst
<1>1. IInv => SizedFirst
  BY DEF IInv, PlaceInv, PlaceOK, SizeInv, SizedFirst
<1> QED
  BY <1>1, LegacyInvariant, PTL

\* cleanup closes all that a failed or finished manager had open, and once all are
\* gone, without a kill, neither name is left.
THEOREM NothingOfManagersIsLeft == Spec => []NothingLeftBehind
<1>1. IInv => NothingLeftBehind
  BY DEF IInv, PlaceInv, PlaceOK, SizeInv, Owner, Attached, NothingLeftBehind
<1> QED
  BY <1>1, LegacyInvariant, PTL
=============================================================================

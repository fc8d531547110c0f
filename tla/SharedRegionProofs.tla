------------------------- MODULE SharedRegionProofs -------------------------
(***************************************************************************)
(* Theorems about SharedRegion, for any number of processes, objects,      *)
(* opens, operations and kills, whichever system calls fail.               *)
(***************************************************************************)
EXTENDS SharedRegion, TLAPS

Building == {"ftruncate", "memset", "fields", "initlock", "publish"}

\* What a process's place in the code says of its `created'.
PlaceInv ==
    \A p \in Procs : /\ pc[p] \in Building \cup {"unlink"} => created[p]
                     /\ pc[p] \in {"idle", "open", "fstat", "validate", "rdlock", "count"}
                           => ~created[p]

\* An object has one creator, which has not published it before it is done.
CreatorInv ==
    \A p \in Procs :
        created[p] /\ fd[p] # NoObject =>
            /\ pc[p] \notin {"attached", "using"} => ~object[fd[p]].magic
            /\ \A q \in Procs \ {p} : created[q] => fd[q] # fd[p]

\* How far the creator has come.
ProgressInv ==
    \A p \in Procs :
        /\ pc[p] \in Building \ {"ftruncate"} => object[fd[p]].sized
        /\ pc[p] = "mmap" /\ created[p]       => object[fd[p]].sized
        /\ pc[p] \in {"initlock", "publish"}  => object[fd[p]].fields
        /\ pc[p] = "publish"                  => object[fd[p]].lock

\* A published object is complete, and only a published one is trusted.
PublishInv ==
    /\ \A o \in Objects : /\ object[o].magic => Complete(o)
                          /\ o >= fresh => ~object[o].magic
    /\ \A p \in Procs : pc[p] \in TrustsTheLock => object[fd[p]].magic

RegionInv == TypeOK /\ PlaceInv /\ CreatorInv /\ ProgressInv /\ PublishInv

\* The name stays with a creator until it is done, and with the published
\* object that anyone has open.
NameInv ==
    /\ \A p \in Procs : created[p] =>
          /\ name # NoObject
          /\ fd[p] # NoObject => fd[p] = name
          /\ pc[p] \notin {"attached", "using"} => ~object[name].magic
          /\ \A q \in Procs : created[q] => q = p
    /\ \A p \in Procs : fd[p] # NoObject /\ object[fd[p]].magic => fd[p] = name


-----------------------------------------------------------------------------
\* What the steps write to an object.
LEMMA ObjectTypes ==
  ASSUME NEW e \in ObjectType, NEW p \in Procs
  PROVE  /\ [e EXCEPT !.sized = TRUE] \in ObjectType
         /\ [e EXCEPT !.fields = TRUE] \in ObjectType
         /\ [e EXCEPT !.lock = TRUE] \in ObjectType
         /\ [e EXCEPT !.magic = TRUE] \in ObjectType
         /\ [e EXCEPT !.readers = @ \cup {p}] \in ObjectType
         /\ [e EXCEPT !.readers = @ \ {p}] \in ObjectType
         /\ [e EXCEPT !.writer = p] \in ObjectType
         /\ [e EXCEPT !.writer = NoProc, !.uses = @ + 1] \in ObjectType
         /\ [Raw EXCEPT !.sized = TRUE] \in ObjectType
<1>1. [e EXCEPT !.writer = NoProc, !.uses = @ + 1] \in ObjectType
  <2>1. [e EXCEPT !.writer = NoProc] \in ObjectType
    BY DEF ObjectType
  <2>2. \A d \in ObjectType : [d EXCEPT !.uses = @ + 1] \in ObjectType
    BY DEF ObjectType
  <2>3. [e EXCEPT !.writer = NoProc, !.uses = @ + 1]
           = [[e EXCEPT !.writer = NoProc] EXCEPT !.uses = @ + 1]
    BY DEF ObjectType
  <2> QED
    BY <2>1, <2>2, <2>3
<1>2. [e EXCEPT !.sized = TRUE] \in ObjectType /\ [e EXCEPT !.fields = TRUE] \in ObjectType
  BY DEF ObjectType
<1>3. [e EXCEPT !.lock = TRUE] \in ObjectType /\ [e EXCEPT !.magic = TRUE] \in ObjectType
  BY DEF ObjectType
<1>4. [e EXCEPT !.readers = @ \cup {p}] \in ObjectType
  BY DEF ObjectType
<1>5. [e EXCEPT !.readers = @ \ {p}] \in ObjectType
  BY DEF ObjectType
<1>6. [e EXCEPT !.writer = p] \in ObjectType /\ [Raw EXCEPT !.sized = TRUE] \in ObjectType
  BY DEF ObjectType, Raw
<1> QED
  BY <1>1, <1>2, <1>3, <1>4, <1>5, <1>6

\* The kernel's part in a process's death changes an object's lock only.
AfterDeath(e, p) ==
    [e EXCEPT !.writer  = IF @ = p THEN Ghost ELSE @,
              !.readers = IF p \in @ THEN (@ \ {p}) \cup {Ghost} ELSE @]

LEMMA DeathType ==
  ASSUME NEW e \in ObjectType, NEW p \in Procs
  PROVE  /\ AfterDeath(e, p) \in ObjectType
         /\ AfterDeath(e, p).sized = e.sized /\ AfterDeath(e, p).fields = e.fields
         /\ AfterDeath(e, p).lock = e.lock /\ AfterDeath(e, p).magic = e.magic
         /\ AfterDeath(e, p).uses = e.uses
BY DEF ObjectType, AfterDeath

LEMMA RegionInit == Init => RegionInv
<1> SUFFICES ASSUME Init PROVE RegionInv
  OBVIOUS
<1>1. Raw \in ObjectType
  BY DEF Raw, ObjectType
<1>2. TypeOK
  BY <1>1, ObjectsAssumption, BoundsAssumption DEF Init, TypeOK, Objects, Opening
<1>3. PlaceInv /\ CreatorInv /\ ProgressInv
  BY DEF Init, PlaceInv, CreatorInv, ProgressInv, Building
<1>4. PublishInv
  BY DEF Init, PublishInv, Raw, TrustsTheLock
<1> QED
  BY <1>2, <1>3, <1>4 DEF RegionInv

LEMMA RegionStep == RegionInv /\ [Next]_vars => RegionInv'
<1> SUFFICES ASSUME RegionInv, [Next]_vars PROVE RegionInv'
  OBVIOUS
<1> USE ProcsAssumption, ObjectsAssumption, BoundsAssumption DEF RegionInv, At, Goto, Objects
<1>1. ASSUME NEW p \in Procs, OpenExclusive(p)
      PROVE  RegionInv'
  <2>1. CASE name # NoObject
    <3>0. /\ opens' = [opens EXCEPT ![p] = @ - 1] /\ opens[p] > 0
          /\ pc' = [pc EXCEPT ![p] = "open"] /\ pc[p] = "idle"
          /\ UNCHANGED <<name, fresh, object, fd, created, crashes>>
      BY <1>1, <2>1 DEF OpenExclusive
    <3>1. TypeOK'
      BY <3>0 DEF TypeOK, Opening
    <3> QED
      BY <1>1, <2>1, <3>1
      DEF OpenExclusive, TypeOK, PlaceInv, CreatorInv, ProgressInv, PublishInv, Complete,
          TrustsTheLock, Building
  <2>2. CASE name = NoObject
    <3> USE <1>1, <2>2 DEF OpenExclusive
    <3>1. fresh \in Objects /\ fresh' = fresh + 1 /\ name' = fresh /\ ~object[fresh].magic
      BY DEF TypeOK, PublishInv
    <3>2. /\ fd' = [fd EXCEPT ![p] = fresh] /\ created' = [created EXCEPT ![p] = TRUE]
          /\ pc' = [pc EXCEPT ![p] = "ftruncate"] /\ pc[p] = "idle"
          /\ UNCHANGED <<object, crashes>>
      OBVIOUS
    <3>3. fresh' \in 1 .. MaxObjects + 1 /\ opens' \in [Procs -> 0 .. MaxOpens]
      BY <3>1 DEF TypeOK
    <3>4. \A q \in Procs : IF pc'[q] \in {"idle", "open", "unlink"}
                           THEN fd'[q] = NoObject
                           ELSE fd'[q] \in 1 .. fresh' - 1
      BY <3>1, <3>2 DEF TypeOK
    <3>5. TypeOK'
      BY <3>1, <3>2, <3>3, <3>4 DEF TypeOK, Opening
    <3>6. \A q \in Procs : fd[q] # fresh
      BY <3>1 DEF TypeOK
    <3>7. PlaceInv' /\ ProgressInv'
      BY <3>1, <3>2 DEF TypeOK, PlaceInv, ProgressInv, Building
    <3>8. CreatorInv'
      BY <3>1, <3>2, <3>6 DEF TypeOK, CreatorInv
    <3>9. PublishInv'
      BY <3>1, <3>2 DEF TypeOK, PublishInv, Complete, TrustsTheLock
    <3> QED
      BY <3>5, <3>7, <3>8, <3>9
  <2> QED
    BY <2>1, <2>2
<1>2. ASSUME NEW p \in Procs, Attach(p)
      PROVE  RegionInv'
  <2>1. TypeOK'
    BY <1>2 DEF Attach, TypeOK, Opening
  <2>2. PlaceInv'
    BY <1>2 DEF Attach, TypeOK, PlaceInv, Building
  <2>3. CreatorInv'
    BY <1>2 DEF Attach, TypeOK, CreatorInv, PlaceInv, Building
  <2>4. ProgressInv'
    BY <1>2 DEF Attach, TypeOK, PlaceInv, ProgressInv, Building
  <2>5. PublishInv'
    BY <1>2 DEF Attach, TypeOK, PublishInv, Complete, TrustsTheLock
  <2> QED
    BY <2>1, <2>2, <2>3, <2>4, <2>5
<1>3. ASSUME NEW p \in Procs, Open(p)
      PROVE  RegionInv'
  <2>1. pc[p] = "open" /\ fd[p] = NoObject /\ ~created[p]
    BY <1>3 DEF Open, TypeOK, PlaceInv
  <2>2. TypeOK'
    <3>1. CASE name = NoObject
      BY <1>3, <3>1 DEF Open, TypeOK, Opening
    <3>2. CASE name # NoObject
      BY <1>3, <3>2 DEF Open, TypeOK, Opening
    <3> QED
      BY <3>1, <3>2
  <2> QED
    BY <1>3, <2>1, <2>2
    DEF Open, TypeOK, PlaceInv, CreatorInv, ProgressInv, PublishInv, Complete,
        TrustsTheLock, Building
<1>4. ASSUME NEW p \in Procs, Ftruncate(p)
      PROVE  RegionInv'
  <2>1. TypeOK'
    BY <1>4, ObjectTypes DEF Ftruncate, TypeOK, Opening
  <2>2. PlaceInv'
    BY <1>4 DEF Ftruncate, TypeOK, PlaceInv, Building
  <2>3. CreatorInv'
    BY <1>4 DEF Ftruncate, TypeOK, CreatorInv, PlaceInv, Building
  <2>4. ProgressInv'
    BY <1>4 DEF Ftruncate, TypeOK, PlaceInv, ProgressInv, Building
  <2>5. PublishInv'
    BY <1>4 DEF Ftruncate, TypeOK, PublishInv, Complete, TrustsTheLock
  <2> QED
    BY <2>1, <2>2, <2>3, <2>4, <2>5
<1>5. ASSUME NEW p \in Procs, Mmap(p)
      PROVE  RegionInv'
  <2>1. TypeOK'
    BY <1>5 DEF Mmap, TypeOK, Opening
  <2>2. PlaceInv'
    BY <1>5 DEF Mmap, TypeOK, PlaceInv, Building
  <2>3. CreatorInv'
    BY <1>5 DEF Mmap, TypeOK, CreatorInv, PlaceInv, Building
  <2>4. ProgressInv'
    BY <1>5 DEF Mmap, TypeOK, PlaceInv, ProgressInv, Building
  <2>5. PublishInv'
    BY <1>5 DEF Mmap, TypeOK, PublishInv, Complete, TrustsTheLock
  <2> QED
    BY <2>1, <2>2, <2>3, <2>4, <2>5
<1>6. ASSUME NEW p \in Procs, Memset(p)
      PROVE  RegionInv'
  <2>1. TypeOK'
    BY <1>6, ObjectTypes DEF Memset, TypeOK, Opening
  <2>2. PlaceInv'
    BY <1>6 DEF Memset, TypeOK, PlaceInv, Building
  <2>3. CreatorInv'
    BY <1>6 DEF Memset, TypeOK, CreatorInv, PlaceInv, Building, Raw
  <2>4. ProgressInv'
    BY <1>6 DEF Memset, TypeOK, PlaceInv, CreatorInv, ProgressInv, Building, Raw
  <2>5. PublishInv'
    BY <1>6 DEF Memset, TypeOK, PlaceInv, CreatorInv, PublishInv, Complete,
                    TrustsTheLock, Building, Raw
  <2> QED
    BY <2>1, <2>2, <2>3, <2>4, <2>5
<1>7. ASSUME NEW p \in Procs, WriteFields(p)
      PROVE  RegionInv'
  <2>1. TypeOK'
    BY <1>7, ObjectTypes DEF WriteFields, TypeOK, Opening
  <2>2. PlaceInv'
    BY <1>7 DEF WriteFields, TypeOK, PlaceInv, Building
  <2>3. CreatorInv'
    BY <1>7 DEF WriteFields, TypeOK, CreatorInv, PlaceInv, Building
  <2>4. ProgressInv'
    BY <1>7 DEF WriteFields, TypeOK, PlaceInv, ProgressInv, Building
  <2>5. PublishInv'
    BY <1>7 DEF WriteFields, TypeOK, PublishInv, Complete, TrustsTheLock
  <2> QED
    BY <2>1, <2>2, <2>3, <2>4, <2>5
<1>8. ASSUME NEW p \in Procs, InitLock(p)
      PROVE  RegionInv'
  <2>1. TypeOK'
    BY <1>8, ObjectTypes DEF InitLock, TypeOK, Opening
  <2>2. PlaceInv'
    BY <1>8 DEF InitLock, TypeOK, PlaceInv, Building
  <2>3. CreatorInv'
    BY <1>8 DEF InitLock, TypeOK, CreatorInv, PlaceInv, Building
  <2>4. ProgressInv'
    BY <1>8 DEF InitLock, TypeOK, PlaceInv, ProgressInv, Building
  <2>5. PublishInv'
    BY <1>8 DEF InitLock, TypeOK, PublishInv, Complete, TrustsTheLock
  <2> QED
    BY <2>1, <2>2, <2>3, <2>4, <2>5
<1>9. ASSUME NEW p \in Procs, Publish(p)
      PROVE  RegionInv'
  <2>1. TypeOK'
    BY <1>9, ObjectTypes DEF Publish, TypeOK, Opening
  <2>2. PlaceInv'
    BY <1>9 DEF Publish, TypeOK, PlaceInv, Building
  <2>3. CreatorInv'
    BY <1>9 DEF Publish, TypeOK, CreatorInv, PlaceInv, Building
  <2>4. ProgressInv'
    BY <1>9 DEF Publish, TypeOK, PlaceInv, ProgressInv, Building
  <2>5. PublishInv'
    BY <1>9 DEF Publish, TypeOK, PlaceInv, ProgressInv, PublishInv, Complete,
                    TrustsTheLock, Building
  <2> QED
    BY <2>1, <2>2, <2>3, <2>4, <2>5
<1>10. ASSUME NEW p \in Procs, Fstat(p)
      PROVE  RegionInv'
  <2>1. TypeOK'
    BY <1>10 DEF Fstat, TypeOK, Opening
  <2>2. PlaceInv'
    BY <1>10 DEF Fstat, TypeOK, PlaceInv, Building
  <2>3. CreatorInv'
    BY <1>10 DEF Fstat, TypeOK, CreatorInv, PlaceInv, Building
  <2>4. ProgressInv'
    BY <1>10 DEF Fstat, TypeOK, PlaceInv, ProgressInv, Building
  <2>5. PublishInv'
    BY <1>10 DEF Fstat, TypeOK, PublishInv, Complete, TrustsTheLock
  <2> QED
    BY <2>1, <2>2, <2>3, <2>4, <2>5
<1>11. ASSUME NEW p \in Procs, Validate(p)
      PROVE  RegionInv'
  <2>1. TypeOK'
    BY <1>11 DEF Validate, TypeOK, Opening
  <2>2. PlaceInv'
    BY <1>11 DEF Validate, TypeOK, PlaceInv, Building
  <2>3. CreatorInv'
    BY <1>11 DEF Validate, TypeOK, CreatorInv, PlaceInv, Building
  <2>4. ProgressInv'
    BY <1>11 DEF Validate, TypeOK, PlaceInv, ProgressInv, Building
  <2>5. PublishInv'
    BY <1>11 DEF Validate, TypeOK, PublishInv, Complete, TrustsTheLock
  <2> QED
    BY <2>1, <2>2, <2>3, <2>4, <2>5
<1>12. ASSUME NEW p \in Procs, RdLock(p)
      PROVE  RegionInv'
  <2>1. TypeOK'
    BY <1>12, ObjectTypes DEF RdLock, TypeOK, Opening
  <2>2. PlaceInv'
    BY <1>12 DEF RdLock, TypeOK, PlaceInv, Building
  <2>3. CreatorInv'
    BY <1>12 DEF RdLock, TypeOK, CreatorInv, PlaceInv, Building
  <2>4. ProgressInv'
    BY <1>12 DEF RdLock, TypeOK, PlaceInv, ProgressInv, Building
  <2>5. PublishInv'
    BY <1>12 DEF RdLock, TypeOK, PublishInv, Complete, TrustsTheLock
  <2> QED
    BY <2>1, <2>2, <2>3, <2>4, <2>5
<1>13. ASSUME NEW p \in Procs, CheckCount(p)
      PROVE  RegionInv'
  <2>1. TypeOK'
    BY <1>13, ObjectTypes DEF CheckCount, TypeOK, Opening
  <2>2. PlaceInv'
    BY <1>13 DEF CheckCount, TypeOK, PlaceInv, Building
  <2>3. CreatorInv'
    BY <1>13 DEF CheckCount, TypeOK, CreatorInv, PlaceInv, Building
  <2>4. ProgressInv'
    BY <1>13 DEF CheckCount, TypeOK, PlaceInv, ProgressInv, Building
  <2>5. PublishInv'
    BY <1>13 DEF CheckCount, TypeOK, PublishInv, Complete, TrustsTheLock
  <2> QED
    BY <2>1, <2>2, <2>3, <2>4, <2>5
<1>14. ASSUME NEW p \in Procs, Close(p)
      PROVE  RegionInv'
  <2>1. TypeOK'
    BY <1>14 DEF Close, TypeOK, Opening
  <2>2. PlaceInv'
    BY <1>14 DEF Close, TypeOK, PlaceInv, Building
  <2>3. CreatorInv'
    BY <1>14 DEF Close, TypeOK, CreatorInv, PlaceInv, Building
  <2>4. ProgressInv'
    BY <1>14 DEF Close, TypeOK, PlaceInv, ProgressInv, Building
  <2>5. PublishInv'
    BY <1>14 DEF Close, TypeOK, PublishInv, Complete, TrustsTheLock
  <2> QED
    BY <2>1, <2>2, <2>3, <2>4, <2>5
<1>15. ASSUME NEW p \in Procs, UnlinkCreated(p)
      PROVE  RegionInv'
  <2>1. TypeOK'
    BY <1>15 DEF UnlinkCreated, TypeOK, Opening
  <2>2. PlaceInv'
    BY <1>15 DEF UnlinkCreated, TypeOK, PlaceInv, Building
  <2>3. CreatorInv'
    BY <1>15 DEF UnlinkCreated, TypeOK, CreatorInv, PlaceInv, Building
  <2>4. ProgressInv'
    BY <1>15 DEF UnlinkCreated, TypeOK, PlaceInv, ProgressInv, Building
  <2>5. PublishInv'
    BY <1>15 DEF UnlinkCreated, TypeOK, PublishInv, Complete, TrustsTheLock
  <2> QED
    BY <2>1, <2>2, <2>3, <2>4, <2>5
<1>16. ASSUME NEW p \in Procs, SysCallFails(p)
      PROVE  RegionInv'
  <2>1. TypeOK'
    BY <1>16 DEF SysCallFails, TypeOK, Opening
  <2>2. PlaceInv'
    BY <1>16 DEF SysCallFails, TypeOK, PlaceInv, Building
  <2>3. CreatorInv'
    BY <1>16 DEF SysCallFails, TypeOK, CreatorInv, PlaceInv, Building
  <2>4. ProgressInv'
    BY <1>16 DEF SysCallFails, TypeOK, PlaceInv, ProgressInv, Building
  <2>5. PublishInv'
    BY <1>16 DEF SysCallFails, TypeOK, PublishInv, Complete, TrustsTheLock
  <2> QED
    BY <2>1, <2>2, <2>3, <2>4, <2>5
<1>23. ASSUME NEW p \in Procs, UnlinkFails(p)
      PROVE  RegionInv'
  <2>1. TypeOK'
    BY <1>23 DEF UnlinkFails, TypeOK, Opening
  <2>2. PlaceInv'
    BY <1>23 DEF UnlinkFails, TypeOK, PlaceInv, Building
  <2>3. CreatorInv'
    BY <1>23 DEF UnlinkFails, TypeOK, CreatorInv, PlaceInv, Building
  <2>4. ProgressInv'
    BY <1>23 DEF UnlinkFails, TypeOK, PlaceInv, ProgressInv, Building
  <2>5. PublishInv'
    BY <1>23 DEF UnlinkFails, TypeOK, PublishInv, Complete, TrustsTheLock
  <2> QED
    BY <2>1, <2>2, <2>3, <2>4, <2>5
<1>17. ASSUME NEW p \in Procs, BeginUse(p)
      PROVE  RegionInv'
  <2>1. TypeOK'
    BY <1>17, ObjectTypes DEF BeginUse, TypeOK, Opening
  <2>2. PlaceInv'
    BY <1>17 DEF BeginUse, TypeOK, PlaceInv, Building
  <2>3. CreatorInv'
    BY <1>17 DEF BeginUse, TypeOK, CreatorInv, PlaceInv, Building
  <2>4. ProgressInv'
    BY <1>17 DEF BeginUse, TypeOK, PlaceInv, ProgressInv, Building
  <2>5. PublishInv'
    BY <1>17 DEF BeginUse, TypeOK, PublishInv, Complete, TrustsTheLock
  <2> QED
    BY <2>1, <2>2, <2>3, <2>4, <2>5
<1>18. ASSUME NEW p \in Procs, EndUse(p)
      PROVE  RegionInv'
  <2> DEFINE used == [object[fd[p]] EXCEPT !.writer = NoProc, !.uses = @ + 1]
  <2>1. /\ pc' = [pc EXCEPT ![p] = "attached"] /\ pc[p] = "using"
        /\ UNCHANGED <<name, fresh, fd, created, opens, crashes>>
    BY <1>18 DEF EndUse
  <2>2. fd[p] \in Objects /\ object[fd[p]] \in ObjectType
    BY <2>1 DEF TypeOK
  <2>3. used \in ObjectType
    BY <2>2, ObjectTypes
  <2>4. /\ used.sized = object[fd[p]].sized /\ used.fields = object[fd[p]].fields
        /\ used.lock = object[fd[p]].lock /\ used.magic = object[fd[p]].magic
    BY <2>2 DEF ObjectType
  <2>5. object' = [object EXCEPT ![fd[p]] = used]
    BY <1>18 DEF EndUse
  <2> HIDE DEF used
  <2>6. TypeOK'
    BY <2>1, <2>2, <2>3, <2>5 DEF TypeOK, Opening
  <2>7. \A o \in Objects : /\ object'[o].sized = object[o].sized
                           /\ object'[o].fields = object[o].fields
                           /\ object'[o].lock = object[o].lock
                           /\ object'[o].magic = object[o].magic
    BY <2>2, <2>4, <2>5 DEF TypeOK
  <2>8. PlaceInv' /\ CreatorInv'
    BY <2>1, <2>7 DEF TypeOK, PlaceInv, CreatorInv, Building
  <2>9. \A q \in Procs : pc[q] \notin {"idle", "open", "unlink"} => fd[q] \in Objects
    BY DEF TypeOK
  <2>10. \A q \in Procs : pc'[q] = (IF q = p THEN "attached" ELSE pc[q])
    BY <2>1 DEF TypeOK
  <2>11. ProgressInv'
    BY <2>1, <2>7, <2>9, <2>10 DEF ProgressInv, Building
  <2>12. \A o \in Objects : /\ object'[o].magic => Complete(o)'
                            /\ o >= fresh' => ~object'[o].magic
    BY <2>1, <2>7 DEF PublishInv, Complete
  <2>13. \A q \in Procs : pc'[q] \in TrustsTheLock => object'[fd'[q]].magic
    BY <2>1, <2>7, <2>9, <2>10 DEF PublishInv, TrustsTheLock
  <2>14. PublishInv'
    BY <2>12, <2>13 DEF PublishInv
  <2> QED
    BY <2>6, <2>8, <2>11, <2>14
<1>19. ASSUME NEW p \in Procs, CloseShared(p)
      PROVE  RegionInv'
  <2>1. TypeOK'
    BY <1>19 DEF CloseShared, TypeOK, Opening
  <2>2. PlaceInv'
    BY <1>19 DEF CloseShared, TypeOK, PlaceInv, Building
  <2>3. CreatorInv'
    BY <1>19 DEF CloseShared, TypeOK, CreatorInv, PlaceInv, Building
  <2>4. ProgressInv'
    BY <1>19 DEF CloseShared, TypeOK, PlaceInv, ProgressInv, Building
  <2>5. PublishInv'
    BY <1>19 DEF CloseShared, TypeOK, PublishInv, Complete, TrustsTheLock
  <2> QED
    BY <2>1, <2>2, <2>3, <2>4, <2>5
<1>20. ASSUME NEW p \in Procs, Crash(p)
      PROVE  RegionInv'
  <2>1. object' = [o \in Objects |-> AfterDeath(object[o], p)]
    BY <1>20 DEF Crash, AfterDeath
  <2>2. object' \in [Objects -> ObjectType]
    BY <2>1, DeathType DEF TypeOK
  <2>3. \A o \in Objects : /\ object'[o].sized = object[o].sized
                           /\ object'[o].fields = object[o].fields
                           /\ object'[o].lock = object[o].lock
                           /\ object'[o].magic = object[o].magic
    BY <2>1, DeathType DEF TypeOK
  <2>4. /\ fd' = [fd EXCEPT ![p] = NoObject] /\ created' = [created EXCEPT ![p] = FALSE]
        /\ pc' = [pc EXCEPT ![p] = "idle"]
        /\ crashes' = crashes + 1 /\ crashes < MaxCrashes
        /\ UNCHANGED <<name, fresh, opens>>
    BY <1>20 DEF Crash
  <2>5. TypeOK'
    BY <2>2, <2>4 DEF TypeOK, Opening
  <2>6. \A q \in Procs : /\ pc[q] \notin {"idle", "open", "unlink"} => fd[q] \in Objects
                         /\ fd[q] # NoObject => fd[q] \in Objects
    BY DEF TypeOK
  <2>7. \A q \in Procs : /\ pc'[q] = (IF q = p THEN "idle" ELSE pc[q])
                         /\ fd'[q] = (IF q = p THEN NoObject ELSE fd[q])
                         /\ created'[q] = (IF q = p THEN FALSE ELSE created[q])
    BY <2>4 DEF TypeOK
  <2>8. PlaceInv'
    BY <2>7 DEF PlaceInv, Building
  <2>11. ProgressInv'
    <3> SUFFICES ASSUME NEW q \in Procs, q # p
                 PROVE  /\ pc[q] \in Building \ {"ftruncate"} => object'[fd[q]].sized
                        /\ pc[q] = "mmap" /\ created[q]       => object'[fd[q]].sized
                        /\ pc[q] \in {"initlock", "publish"}  => object'[fd[q]].fields
                        /\ pc[q] = "publish"                  => object'[fd[q]].lock
      BY <2>7 DEF ProgressInv, Building
    <3>1. pc[q] \in Building \cup {"mmap"} => fd[q] \in Objects
      BY <2>6 DEF Building
    <3> QED
      BY <2>3, <3>1 DEF ProgressInv, Building
  <2>9. CreatorInv'
    <3> SUFFICES ASSUME NEW q \in Procs, created'[q], fd'[q] # NoObject
                 PROVE  /\ pc'[q] \notin {"attached", "using"} => ~object'[fd'[q]].magic
                        /\ \A r \in Procs \ {q} : created'[r] => fd'[r] # fd'[q]
      BY DEF CreatorInv
    <3>1. q # p /\ created[q] /\ fd[q] \in Objects /\ fd[q] # NoObject
      BY <2>6, <2>7
    <3>2. pc'[q] \notin {"attached", "using"} => ~object'[fd'[q]].magic
      BY <2>3, <2>7, <3>1 DEF CreatorInv
    <3>3. \A r \in Procs \ {q} : created'[r] => fd'[r] # fd'[q]
      BY <2>7, <3>1 DEF CreatorInv
    <3> QED
      BY <3>2, <3>3
  <2>10. PublishInv'
    <3>1. \A o \in Objects : /\ object'[o].magic => Complete(o)'
                             /\ o >= fresh' => ~object'[o].magic
      BY <2>3, <2>4 DEF PublishInv, Complete
    <3>2. \A q \in Procs : pc'[q] \in TrustsTheLock => object'[fd'[q]].magic
      BY <2>3, <2>6, <2>7 DEF PublishInv, TrustsTheLock
    <3> QED
      BY <3>1, <3>2 DEF PublishInv
  <2> QED
    BY <2>5, <2>8, <2>9, <2>10, <2>11
<1>21. CASE Cleanup
  BY <1>21 DEF Cleanup, TypeOK, PlaceInv, CreatorInv, ProgressInv, PublishInv, Complete
<1>22. CASE UNCHANGED vars
  BY <1>22 DEF vars, TypeOK, PlaceInv, CreatorInv, ProgressInv, PublishInv, Complete
<1> QED
  BY <1>1, <1>2, <1>3, <1>4, <1>5, <1>6, <1>7, <1>8, <1>9, <1>10, <1>11, <1>12,
     <1>13, <1>14, <1>15, <1>16, <1>17, <1>18, <1>19, <1>20, <1>21, <1>22, <1>23
  DEF Next, OpenStep


\* Every process and object keeps its type, and a descriptor is held exactly
\* where the code holds one, however calls fail and processes die.
THEOREM RegionTypeCorrect == Spec => []TypeOK
<1>1. RegionInv => TypeOK
  BY DEF RegionInv
<1> QED
  BY <1>1, RegionInit, RegionStep, PTL DEF Spec

LEMMA RegionAlways == Spec => []RegionInv
BY RegionInit, RegionStep, PTL DEF Spec

-----------------------------------------------------------------------------
\* Publication.

\* No process works on an object that is not sized, laid out, with its lock
\* initialized, and published: the header checks of an attacher suffice against
\* a creator that is half way, has failed or was killed.
THEOREM AttachedOnlyComplete == Spec => []AttachedIsComplete
<1>1. RegionInv => AttachedIsComplete
  <2> SUFFICES ASSUME RegionInv, NEW p \in Procs, pc[p] \in TrustsTheLock
               PROVE  Complete(fd[p]) /\ object[fd[p]].magic
    BY DEF AttachedIsComplete
  <2>1. pc[p] \notin {"idle", "open", "unlink"}
    BY DEF TrustsTheLock
  <2>2. fd[p] \in 1 .. fresh - 1 /\ fresh \in 1 .. MaxObjects + 1
    BY <2>1 DEF RegionInv, TypeOK
  <2>3. fd[p] \in Objects
    BY <2>2, ObjectsAssumption DEF Objects
  <2> QED
    BY <2>3 DEF RegionInv, PublishInv
<1> QED
  BY <1>1, RegionAlways, PTL

\* A step leaves a published object published, with its operations.
LEMMA PublishedKept ==
  ASSUME RegionInv, [Next]_vars, NEW o \in Objects, object[o].magic
  PROVE  object'[o].magic /\ object'[o].uses >= object[o].uses
<1> USE ObjectsAssumption, BoundsAssumption DEF RegionInv, At, Objects
<1>0. object[o] \in ObjectType /\ object[o].uses \in Nat
  BY DEF TypeOK, ObjectType
<1>1. ASSUME object' = object PROVE object'[o].magic /\ object'[o].uses >= object[o].uses
  BY <1>0, <1>1
<1>2. ASSUME NEW p \in Procs,
             \/ OpenExclusive(p) \/ Attach(p) \/ Open(p) \/ Mmap(p) \/ Fstat(p) \/ Validate(p)
             \/ Close(p) \/ UnlinkCreated(p) \/ UnlinkFails(p) \/ SysCallFails(p) \/ CloseShared(p)
      PROVE  object' = object
  BY <1>2
  DEF OpenExclusive, Attach, Open, Mmap, Fstat, Validate, Close, UnlinkCreated, UnlinkFails,
      SysCallFails, CloseShared
<1>3. ASSUME NEW p \in Procs, Ftruncate(p)
      PROVE  object'[o].magic /\ object'[o].uses >= object[o].uses
  BY <1>3, <1>0 DEF Ftruncate, TypeOK, ObjectType
<1>4. ASSUME NEW p \in Procs, WriteFields(p)
      PROVE  object'[o].magic /\ object'[o].uses >= object[o].uses
  BY <1>4, <1>0 DEF WriteFields, TypeOK, ObjectType
<1>5. ASSUME NEW p \in Procs, InitLock(p)
      PROVE  object'[o].magic /\ object'[o].uses >= object[o].uses
  BY <1>5, <1>0 DEF InitLock, TypeOK, ObjectType
<1>6. ASSUME NEW p \in Procs, Publish(p)
      PROVE  object'[o].magic /\ object'[o].uses >= object[o].uses
  BY <1>6, <1>0 DEF Publish, TypeOK, ObjectType
<1>7. ASSUME NEW p \in Procs, RdLock(p)
      PROVE  object'[o].magic /\ object'[o].uses >= object[o].uses
  BY <1>7, <1>0 DEF RdLock, TypeOK, ObjectType
<1>8. ASSUME NEW p \in Procs, CheckCount(p)
      PROVE  object'[o].magic /\ object'[o].uses >= object[o].uses
  BY <1>8, <1>0 DEF CheckCount, TypeOK, ObjectType
<1>9. ASSUME NEW p \in Procs, BeginUse(p)
      PROVE  object'[o].magic /\ object'[o].uses >= object[o].uses
  BY <1>9, <1>0 DEF BeginUse, TypeOK, ObjectType
<1>10. ASSUME NEW p \in Procs, EndUse(p)
      PROVE  object'[o].magic /\ object'[o].uses >= object[o].uses
  BY <1>10, <1>0 DEF EndUse, TypeOK, ObjectType
<1>11. ASSUME NEW p \in Procs, Memset(p)
      PROVE  object'[o].magic /\ object'[o].uses >= object[o].uses
  <2>1. fd[p] # o
    BY <1>11 DEF Memset, TypeOK, PlaceInv, CreatorInv, Building
  <2> QED
    BY <1>0, <1>11, <2>1 DEF Memset, TypeOK
<1>12. ASSUME NEW p \in Procs, Crash(p)
      PROVE  object'[o].magic /\ object'[o].uses >= object[o].uses
  <2>1. object'[o] = AfterDeath(object[o], p)
    BY <1>12 DEF Crash, AfterDeath
  <2> QED
    BY <1>0, <2>1, DeathType
<1>13. ASSUME Cleanup \/ UNCHANGED vars
      PROVE  object' = object
  BY <1>13 DEF Cleanup, vars
<1> QED
  BY <1>1, <1>2, <1>3, <1>4, <1>5, <1>6, <1>7, <1>8, <1>9, <1>10, <1>11, <1>12, <1>13
  DEF Next, OpenStep

\* No call of cache_open_shared, by whoever creates or opens the cache later,
\* initializes a published region again or loses what was done on it.
THEOREM NeverInitializedTwice == Spec => NeverReset
<1>1. ASSUME RegionInv, RegionInv', [Next]_vars
      PROVE  \A o \in Objects : object[o].magic =>
                /\ object'[o].magic /\ Complete(o)'
                /\ object'[o].uses >= object[o].uses
  BY <1>1, PublishedKept DEF RegionInv, PublishInv
<1> QED
  BY <1>1, RegionAlways, PTL DEF Spec, NeverReset

-----------------------------------------------------------------------------
\* One region for all clients.

LEMMA NameInit == Init => NameInv
BY DEF Init, NameInv

LEMMA NameStep ==
  ASSUME CleanupWaits, RegionInv, RegionInv', NameInv, [Next]_vars
  PROVE  NameInv'
<1> USE ProcsAssumption, ObjectsAssumption, BoundsAssumption DEF RegionInv, At, Goto, Objects
<1>1. ASSUME NEW p \in Procs, Attach(p)
      PROVE  NameInv'
  BY <1>1 DEF Attach, TypeOK, PlaceInv, NameInv, Building
<1>2. ASSUME NEW p \in Procs, Open(p)
      PROVE  NameInv'
  BY <1>2 DEF Open, TypeOK, PlaceInv, NameInv, Building
<1>3. ASSUME NEW p \in Procs, Mmap(p)
      PROVE  NameInv'
  BY <1>3 DEF Mmap, TypeOK, PlaceInv, NameInv, Building
<1>4. ASSUME NEW p \in Procs, Fstat(p)
      PROVE  NameInv'
  BY <1>4 DEF Fstat, TypeOK, PlaceInv, NameInv, Building
<1>5. ASSUME NEW p \in Procs, Validate(p)
      PROVE  NameInv'
  BY <1>5 DEF Validate, TypeOK, PlaceInv, NameInv, Building
<1>6. ASSUME NEW p \in Procs, Close(p)
      PROVE  NameInv'
  BY <1>6 DEF Close, TypeOK, PlaceInv, NameInv, Building
<1>7. ASSUME NEW p \in Procs, UnlinkCreated(p)
      PROVE  NameInv'
  <2>1. created[p] /\ ~object[name].magic
    BY <1>7 DEF UnlinkCreated, PlaceInv, NameInv
  <2>2. \A q \in Procs : ~created'[q]
    BY <1>7, <2>1 DEF UnlinkCreated, TypeOK, NameInv
  <2>3. \A q \in Procs : fd[q] # NoObject => ~object[fd[q]].magic
    BY <2>1 DEF NameInv
  <2> QED
    BY <1>7, <2>2, <2>3 DEF UnlinkCreated, NameInv
<1>8. ASSUME NEW p \in Procs, SysCallFails(p)
      PROVE  NameInv'
  BY <1>8 DEF SysCallFails, TypeOK, PlaceInv, NameInv, Building
<1>23. ASSUME NEW p \in Procs, UnlinkFails(p)
      PROVE  NameInv'
  BY <1>23 DEF UnlinkFails, TypeOK, PlaceInv, NameInv, Building
<1>9. ASSUME NEW p \in Procs, CloseShared(p)
      PROVE  NameInv'
  BY <1>9 DEF CloseShared, TypeOK, PlaceInv, NameInv, Building
<1>10. ASSUME NEW p \in Procs, Ftruncate(p)
      PROVE  NameInv'
  BY <1>10 DEF Ftruncate, TypeOK, PlaceInv, NameInv, Building
<1>11. ASSUME NEW p \in Procs, Memset(p)
      PROVE  NameInv'
  BY <1>11 DEF Memset, TypeOK, PlaceInv, NameInv, Building, Raw
<1>12. ASSUME NEW p \in Procs, WriteFields(p)
      PROVE  NameInv'
  BY <1>12 DEF WriteFields, TypeOK, PlaceInv, NameInv, Building
<1>13. ASSUME NEW p \in Procs, InitLock(p)
      PROVE  NameInv'
  BY <1>13 DEF InitLock, TypeOK, PlaceInv, NameInv, Building
<1>14. ASSUME NEW p \in Procs, Publish(p)
      PROVE  NameInv'
  BY <1>14 DEF Publish, TypeOK, PlaceInv, NameInv, Building
<1>15. ASSUME NEW p \in Procs, RdLock(p)
      PROVE  NameInv'
  BY <1>15 DEF RdLock, TypeOK, PlaceInv, NameInv, Building
<1>16. ASSUME NEW p \in Procs, CheckCount(p)
      PROVE  NameInv'
  BY <1>16 DEF CheckCount, TypeOK, PlaceInv, NameInv, Building
<1>17. ASSUME NEW p \in Procs, BeginUse(p)
      PROVE  NameInv'
  BY <1>17 DEF BeginUse, TypeOK, PlaceInv, NameInv, Building
<1>18. ASSUME NEW p \in Procs, OpenExclusive(p)
      PROVE  NameInv'
  <2>1. CASE name # NoObject
    <3>1. UNCHANGED <<name, fd, created, object>> /\ pc' = [pc EXCEPT ![p] = "open"]
      BY <1>18, <2>1 DEF OpenExclusive
    <3>2. ~created[p]
      BY <1>18 DEF OpenExclusive, PlaceInv
    <3> QED
      BY <3>1, <3>2 DEF TypeOK, NameInv
  <2>2. CASE name = NoObject
    <3>1. /\ name' = fresh /\ fresh \in Objects /\ object' = object
          /\ fd' = [fd EXCEPT ![p] = fresh] /\ created' = [created EXCEPT ![p] = TRUE]
          /\ pc' = [pc EXCEPT ![p] = "ftruncate"]
      BY <1>18, <2>2 DEF OpenExclusive, TypeOK
    <3>2. \A q \in Procs : ~created[q] /\ (fd[q] # NoObject => ~object[fd[q]].magic)
      BY <2>2 DEF NameInv
    <3>3. ~object[fresh].magic /\ fresh # NoObject
      BY <3>1 DEF PublishInv
    <3> QED
      BY <3>1, <3>2, <3>3 DEF TypeOK, NameInv
  <2> QED
    BY <2>1, <2>2
<1>19. ASSUME NEW p \in Procs, EndUse(p)
      PROVE  NameInv'
  BY <1>19 DEF EndUse, TypeOK, PlaceInv, NameInv, Building
<1>20. ASSUME NEW p \in Procs, Crash(p)
      PROVE  NameInv'
  <2>1. \A o \in Objects : object'[o].magic = object[o].magic
    <3>1. object' = [o \in Objects |-> AfterDeath(object[o], p)]
      BY <1>20 DEF Crash, AfterDeath
    <3> QED
      BY <3>1, DeathType DEF TypeOK
  <2>2. /\ fd' = [fd EXCEPT ![p] = NoObject] /\ created' = [created EXCEPT ![p] = FALSE]
        /\ pc' = [pc EXCEPT ![p] = "idle"] /\ name' = name
    BY <1>20 DEF Crash
  <2>3. /\ name # NoObject => name \in Objects
        /\ \A q \in Procs : fd[q] # NoObject => fd[q] \in Objects
    BY DEF TypeOK
  <2>4. \A q \in Procs : /\ pc'[q] = (IF q = p THEN "idle" ELSE pc[q])
                         /\ fd'[q] = (IF q = p THEN NoObject ELSE fd[q])
                         /\ created'[q] = (IF q = p THEN FALSE ELSE created[q])
    BY <2>2 DEF TypeOK
  <2>5. ASSUME NEW q \in Procs, created'[q]
        PROVE  /\ q # p /\ created[q]
               /\ name' # NoObject
               /\ fd'[q] # NoObject => fd'[q] = name'
    BY <2>2, <2>4, <2>5 DEF NameInv
  <2>6. ASSUME NEW q \in Procs, created'[q], pc'[q] \notin {"attached", "using"}
        PROVE  ~object'[name'].magic
    <3>1. pc[q] \notin {"attached", "using"}
      BY <2>4, <2>5, <2>6
    <3>2. name \in Objects /\ ~object[name].magic
      BY <2>3, <2>5, <2>6, <3>1 DEF NameInv
    <3> QED
      BY <2>1, <2>2, <3>2
  <2>7. \A q, r \in Procs : created'[q] /\ created'[r] => r = q
    BY <2>4 DEF NameInv
  <2>8. \A q \in Procs : fd'[q] # NoObject /\ object'[fd'[q]].magic => fd'[q] = name'
    BY <2>1, <2>2, <2>3, <2>4 DEF NameInv
  <2> QED
    BY <2>5, <2>6, <2>7, <2>8 DEF NameInv
<1>21. CASE Cleanup
  <2>1. \A p \in Procs : fd[p] = NoObject /\ ~created[p]
    BY <1>21 DEF Cleanup, TypeOK, PlaceInv
  <2> QED
    BY <1>21, <2>1 DEF Cleanup, NameInv
<1>22. CASE UNCHANGED vars
  BY <1>22 DEF vars, NameInv
<1> QED
  BY <1>1, <1>2, <1>3, <1>4, <1>5, <1>6, <1>7, <1>8, <1>9, <1>10, <1>11, <1>12,
     <1>13, <1>14, <1>15, <1>16, <1>17, <1>18, <1>19, <1>20, <1>21, <1>22, <1>23
  DEF Next, OpenStep

\* While cleanup keeps the operator's rule, all who use the cache use the one
\* region that the name refers to: no failing creator or attacher and no kill
\* parts them.
THEOREM AllShareOneRegion == CleanupWaits => (Spec => []OneRegion)
<1> SUFFICES ASSUME CleanupWaits PROVE Spec => []OneRegion
  OBVIOUS
<1>1. RegionInv /\ NameInv => OneRegion
  <2> SUFFICES ASSUME RegionInv, NameInv, NEW p \in Procs, pc[p] \in TrustsTheLock
               PROVE  fd[p] = name
    BY DEF OneRegion
  <2> QED
    BY ObjectsAssumption, BoundsAssumption
    DEF RegionInv, TypeOK, PublishInv, NameInv, TrustsTheLock
<1>2. RegionInv /\ RegionInv' /\ NameInv /\ [Next]_vars => NameInv'
  BY NameStep
<1> QED
  BY <1>1, <1>2, RegionAlways, NameInit, PTL DEF Spec
-----------------------------------------------------------------------------
\* SharedRegion implements NamedRegion.

\* Nothing has been done on an object that is not published.
UnusedInv == \A o \in Objects : ~object[o].magic => object[o].uses = 0

LEMMA UnusedInit == Init => UnusedInv
BY DEF Init, UnusedInv, Raw

LEMMA UnusedStep ==
  ASSUME RegionInv, UnusedInv, [Next]_vars
  PROVE  UnusedInv'
<1> USE ObjectsAssumption, BoundsAssumption DEF At, Objects
<1>0. object \in [Objects -> ObjectType]
  BY DEF RegionInv, TypeOK
<1>1. ASSUME object' = object PROVE UnusedInv'
  BY <1>1 DEF UnusedInv
<1>2. ASSUME NEW p \in Procs,
             \/ OpenExclusive(p) \/ Attach(p) \/ Open(p) \/ Mmap(p) \/ Fstat(p) \/ Validate(p)
             \/ Close(p) \/ UnlinkCreated(p) \/ UnlinkFails(p) \/ SysCallFails(p) \/ CloseShared(p)
      PROVE  object' = object
  BY <1>2
  DEF OpenExclusive, Attach, Open, Mmap, Fstat, Validate, Close, UnlinkCreated, UnlinkFails,
      SysCallFails, CloseShared
<1>3. ASSUME NEW p \in Procs, Ftruncate(p)
      PROVE  UnusedInv'
  BY <1>0, <1>3 DEF Ftruncate, UnusedInv, ObjectType
<1>4. ASSUME NEW p \in Procs, WriteFields(p)
      PROVE  UnusedInv'
  BY <1>0, <1>4 DEF WriteFields, UnusedInv, ObjectType
<1>5. ASSUME NEW p \in Procs, InitLock(p)
      PROVE  UnusedInv'
  BY <1>0, <1>5 DEF InitLock, UnusedInv, ObjectType
<1>6. ASSUME NEW p \in Procs, Publish(p)
      PROVE  UnusedInv'
  BY <1>0, <1>6 DEF Publish, UnusedInv, ObjectType
<1>7. ASSUME NEW p \in Procs, RdLock(p)
      PROVE  UnusedInv'
  BY <1>0, <1>7 DEF RdLock, UnusedInv, ObjectType
<1>8. ASSUME NEW p \in Procs, CheckCount(p)
      PROVE  UnusedInv'
  BY <1>0, <1>8 DEF CheckCount, UnusedInv, ObjectType
<1>9. ASSUME NEW p \in Procs, BeginUse(p)
      PROVE  UnusedInv'
  BY <1>0, <1>9 DEF BeginUse, UnusedInv, ObjectType
<1>10. ASSUME NEW p \in Procs, EndUse(p)
      PROVE  UnusedInv'
  <2>0. pc[p] = "using" /\ fd[p] \in 1 .. fresh - 1 /\ fresh \in 1 .. MaxObjects + 1
    BY <1>10 DEF EndUse, RegionInv, TypeOK
  <2>1. fd[p] \in Objects /\ object[fd[p]].magic
    BY <2>0 DEF RegionInv, PublishInv, TrustsTheLock
  <2>2. object'[fd[p]].magic
    BY <1>0, <1>10, <2>1 DEF EndUse, ObjectType
  <2>3. \A o \in Objects \ {fd[p]} : object'[o] = object[o]
    BY <1>0, <1>10 DEF EndUse
  <2> QED
    BY <2>2, <2>3 DEF UnusedInv
<1>11. ASSUME NEW p \in Procs, Memset(p)
      PROVE  UnusedInv'
  BY <1>0, <1>11 DEF Memset, UnusedInv, Raw
<1>12. ASSUME NEW p \in Procs, Crash(p)
      PROVE  UnusedInv'
  <2>1. \A o \in Objects : object'[o] = AfterDeath(object[o], p)
    BY <1>12 DEF Crash, AfterDeath
  <2> QED
    BY <1>0, <2>1, DeathType DEF UnusedInv
<1>13. ASSUME Cleanup \/ UNCHANGED vars
      PROVE  object' = object
  BY <1>13 DEF Cleanup, vars
<1> QED
  BY <1>1, <1>2, <1>3, <1>4, <1>5, <1>6, <1>7, <1>8, <1>9, <1>10, <1>11, <1>12, <1>13
  DEF Next, OpenStep

\* A step that leaves the name, the operations on the named object, its
\* publication and the set of clients alone is invisible.
LEMMA Invisible ==
  ASSUME UNCHANGED name, Attached' = Attached,
         name # NoObject => /\ object'[name].magic = object[name].magic
                            /\ object'[name].uses = object[name].uses
  PROVE  UNCHANGED Region!vars
<1>1. Life' = Life /\ Work' = Work
  BY DEF Life, Work
<1> QED
  BY <1>1 DEF Region!vars

LEMMA RegionMapsInit == Init => Region!Init
BY DEF Init, Region!Init, Life, Attached, Work

LEMMA RegionMapsStep ==
  ASSUME CleanupWaits, RegionInv, RegionInv', NameInv, NameInv', UnusedInv, [Next]_vars
  PROVE  [Region!Next]_(Region!vars)
<1> USE ProcsAssumption, ObjectsAssumption, BoundsAssumption DEF At, Goto, Objects
<1>0. /\ \A q \in Procs : pc[q] \notin {"idle", "open", "unlink"}
                           => fd[q] \in Objects /\ fd[q] # NoObject
      /\ name # NoObject => name \in Objects
      /\ object \in [Objects -> ObjectType]
      /\ DOMAIN pc = Procs /\ DOMAIN fd = Procs
  BY DEF RegionInv, TypeOK
<1>1. \A q \in Attached : fd[q] = name /\ object[name].magic /\ name # NoObject
  BY <1>0 DEF RegionInv, PublishInv, NameInv, Attached, TrustsTheLock
<1>2. \A q \in Procs : created[q] /\ pc[q] \notin {"attached", "using"}
                        => Life = "creating" /\ Work = 0 /\ name \in Objects
  BY <1>0 DEF NameInv, UnusedInv, Life, Work
<1>3. ASSUME NEW p \in Procs,
             \/ Attach(p) \/ Open(p) \/ Mmap(p) \/ Fstat(p) \/ Validate(p)
             \/ Close(p) \/ UnlinkFails(p) \/ SysCallFails(p)
      PROVE  UNCHANGED Region!vars
  <2>1. PICK l : pc' = [pc EXCEPT ![p] = l] /\ {pc[p], l} \cap {"attached", "using"} = {}
    BY <1>3 DEF Attach, Open, Mmap, Fstat, Validate, Close, UnlinkFails, SysCallFails
  <2>2. Attached' = Attached
    BY <1>0, <2>1 DEF Attached
  <2>3. UNCHANGED <<name, object>>
    BY <1>3 DEF Attach, Open, Mmap, Fstat, Validate, Close, UnlinkFails, SysCallFails
  <2> QED
    BY <2>2, <2>3, Invisible
<1>4. ASSUME NEW p \in Procs, Ftruncate(p) \/ WriteFields(p) \/ InitLock(p) \/ RdLock(p)
      PROVE  UNCHANGED Region!vars
  <2>1. Attached' = Attached /\ name' = name
    BY <1>0, <1>4 DEF Ftruncate, WriteFields, InitLock, RdLock, Attached
  <2>2. \A o \in Objects : object'[o].magic = object[o].magic /\ object'[o].uses = object[o].uses
    <3>1. CASE Ftruncate(p)
      BY <1>0, <3>1 DEF Ftruncate, ObjectType
    <3>2. CASE WriteFields(p)
      BY <1>0, <3>2 DEF WriteFields, ObjectType
    <3>3. CASE InitLock(p)
      BY <1>0, <3>3 DEF InitLock, ObjectType
    <3>4. CASE RdLock(p)
      BY <1>0, <3>4 DEF RdLock, ObjectType
    <3> QED
      BY <1>4, <3>1, <3>2, <3>3, <3>4
  <2> QED
    BY <1>0, <2>1, <2>2, Invisible
<1>5. ASSUME NEW p \in Procs, Memset(p)
      PROVE  UNCHANGED Region!vars
  <2>1. Attached' = Attached /\ name' = name
    BY <1>0, <1>5 DEF Memset, Attached
  <2>2. created[p] /\ fd[p] \in Objects /\ fd[p] # NoObject
    BY <1>0, <1>5 DEF Memset, RegionInv, PlaceInv, Building
  <2>3. fd[p] = name /\ ~object[name].magic /\ object[name].uses = 0
    BY <1>5, <2>2 DEF Memset, NameInv, UnusedInv
  <2>4. ~object'[name].magic /\ object'[name].uses = 0
    BY <1>0, <1>5, <2>2, <2>3 DEF Memset, Raw
  <2>5. Life' = Life /\ Work' = Work
    BY <2>1, <2>2, <2>3, <2>4 DEF Life, Work
  <2> QED
    BY <2>1, <2>5 DEF Region!vars
<1>6. ASSUME NEW p \in Procs, Publish(p)
      PROVE  Region!Publish(p)
  <2>1. created[p] /\ fd[p] = name /\ name \in Objects /\ name # NoObject /\ name' = name
    BY <1>0, <1>6 DEF Publish, RegionInv, PlaceInv, NameInv, Building
  <2>2. Life = "creating" /\ Work = 0
    BY <1>2, <1>6, <2>1 DEF Publish
  <2>3. object'[name].magic /\ object'[name].uses = object[name].uses
    BY <1>0, <1>6, <2>1 DEF Publish, ObjectType
  <2>4. Life' = "ready" /\ Work' = Work
    BY <2>1, <2>3 DEF Life, Work
  <2>5. Attached' = Attached \cup {p}
    BY <1>0, <1>6 DEF Publish, Attached
  <2> QED
    BY <2>2, <2>4, <2>5 DEF Region!Publish
<1>7. ASSUME NEW p \in Procs, CheckCount(p)
      PROVE  Region!Attach(p)
  <2>1. fd[p] = name /\ object[name].magic /\ name \in Objects /\ name # NoObject
    BY <1>0, <1>7 DEF CheckCount, RegionInv, PublishInv, NameInv, TrustsTheLock
  <2>2. name' = name /\ object'[name].magic /\ object'[name].uses = object[name].uses
    BY <1>0, <1>7, <2>1 DEF CheckCount, ObjectType
  <2>3. Life = "ready" /\ Life' = "ready" /\ Work' = Work
    BY <2>1, <2>2 DEF Life, Work
  <2>4. p \notin Attached /\ Attached' = Attached \cup {p}
    BY <1>0, <1>7 DEF CheckCount, Attached
  <2> QED
    BY <2>3, <2>4 DEF Region!Attach
<1>8. ASSUME NEW p \in Procs, BeginUse(p)
      PROVE  UNCHANGED Region!vars
  <2>1. Attached' = Attached /\ name' = name
    BY <1>0, <1>8 DEF BeginUse, Attached
  <2>2. \A o \in Objects : object'[o].magic = object[o].magic /\ object'[o].uses = object[o].uses
    BY <1>0, <1>8 DEF BeginUse, ObjectType
  <2> QED
    BY <1>0, <2>1, <2>2, Invisible
<1>9. ASSUME NEW p \in Procs, EndUse(p)
      PROVE  Region!Operate(p)
  <2>1. p \in Attached /\ Attached' = Attached
    BY <1>0, <1>9 DEF EndUse, Attached
  <2>2. fd[p] = name /\ object[name].magic /\ name \in Objects /\ name # NoObject
    BY <1>0, <1>1, <2>1
  <2>3. name' = name /\ object'[name].magic /\ object'[name].uses = object[name].uses + 1
    BY <1>0, <1>9, <2>2 DEF EndUse, ObjectType
  <2>4. Life = "ready" /\ Life' = "ready" /\ Work' = Work + 1 /\ Work = object[name].uses
    BY <2>2, <2>3 DEF Life, Work
  <2> QED
    BY <2>1, <2>4 DEF Region!Operate
<1>10. ASSUME NEW p \in Procs, CloseShared(p)
      PROVE  Region!Leave(p)
  <2>1. p \in Attached /\ Attached' = Attached \ {p}
    BY <1>0, <1>10 DEF CloseShared, Attached
  <2>2. Life' = Life /\ Work' = Work
    BY <1>10 DEF CloseShared, Life, Work
  <2> QED
    BY <2>1, <2>2 DEF Region!Leave
<1>11. ASSUME NEW p \in Procs, Crash(p)
      PROVE  Region!Leave(p) \/ UNCHANGED Region!vars
  <2>1. \A o \in Objects : object'[o] = AfterDeath(object[o], p)
    BY <1>11 DEF Crash, AfterDeath
  <2>2. name' = name /\ Attached' = Attached \ {p}
    BY <1>0, <1>11 DEF Crash, Attached
  <2>3. \A o \in Objects : object'[o].magic = object[o].magic /\ object'[o].uses = object[o].uses
    BY <1>0, <2>1, DeathType
  <2>4. Life' = Life /\ Work' = Work
    BY <1>0, <2>2, <2>3 DEF Life, Work
  <2> QED
    BY <2>2, <2>4 DEF Region!Leave, Region!vars
<1>12. ASSUME NEW p \in Procs, UnlinkCreated(p)
      PROVE  Region!GiveUp
  <2>1. Life = "creating" /\ Work = 0
    BY <1>2, <1>12 DEF UnlinkCreated, RegionInv, PlaceInv
  <2>2. Life' = "absent" /\ Work' = 0 /\ Attached' = Attached
    BY <1>0, <1>12 DEF UnlinkCreated, Life, Work, Attached
  <2> QED
    BY <2>1, <2>2 DEF Region!GiveUp
<1>13. ASSUME NEW p \in Procs, OpenExclusive(p)
      PROVE  Region!Create \/ UNCHANGED Region!vars
  <2>1. Attached' = Attached /\ object' = object
    BY <1>0, <1>13 DEF OpenExclusive, Attached
  <2>2. CASE name # NoObject
    BY <1>13, <2>1, <2>2, Invisible DEF OpenExclusive
  <2>3. CASE name = NoObject
    <3>1. name' = fresh /\ fresh \in Objects /\ fresh # NoObject /\ ~object[fresh].magic
      BY <1>13, <2>3 DEF OpenExclusive, RegionInv, TypeOK, PublishInv
    <3>2. object[fresh].uses = 0
      BY <3>1 DEF UnusedInv
    <3> QED
      BY <2>1, <2>3, <3>1, <3>2 DEF Life, Work, Region!Create
  <2> QED
    BY <2>2, <2>3
<1>14. ASSUME Cleanup
       PROVE  Region!Cleanup
  <2>1. Attached = {} /\ Attached' = {}
    BY <1>14 DEF Cleanup, Attached
  <2>2. Life # "absent" /\ Life' = "absent" /\ Work' = 0
    BY <1>14 DEF Cleanup, Life, Work
  <2> QED
    BY <2>1, <2>2 DEF Region!Cleanup
<1>15. ASSUME UNCHANGED vars
       PROVE  UNCHANGED Region!vars
  BY <1>15, Invisible DEF vars, Attached
<1> QED
  BY <1>3, <1>4, <1>5, <1>6, <1>7, <1>8, <1>9, <1>10, <1>11, <1>12, <1>13, <1>14, <1>15
  DEF Next, OpenStep, Region!Next

\* While cleanup keeps the operator's rule, the code gives its clients the one
\* region of NamedRegion, however calls fail, creators race and processes die:
\* none joins it before it is ready, and it goes away under none.
THEOREM RegionImplementsContract == CleanupWaits => (Spec => ImplementsNamedRegion)
<1> SUFFICES ASSUME CleanupWaits PROVE Spec => ImplementsNamedRegion
  OBVIOUS
<1>1. RegionInv /\ RegionInv' /\ NameInv /\ [Next]_vars => NameInv'
  BY NameStep
<1>2. RegionInv /\ UnusedInv /\ [Next]_vars => UnusedInv'
  BY UnusedStep
<1>3. RegionInv /\ RegionInv' /\ NameInv /\ NameInv' /\ UnusedInv /\ [Next]_vars
         => [Region!Next]_(Region!vars)
  BY RegionMapsStep
<1> QED
  BY <1>1, <1>2, <1>3, RegionAlways, NameInit, UnusedInit, RegionMapsInit, PTL
  DEF Spec, Region!Spec, ImplementsNamedRegion
=============================================================================

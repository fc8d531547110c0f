------------------------------ MODULE Programs ------------------------------
(***************************************************************************)
(* The programs that share the cache, and the operator who runs them: the  *)
(* writer, the reader, the demo, memsync_cleanup, and the UI's bridge with *)
(* its exit codes and its 30-second limit.  A program is a script of calls *)
(* between opening the cache and closing it; it may be killed at any step. *)
(*                                                                         *)
(* The operator keeps the README's rules: cleanup and the demo run alone,  *)
(* and after trouble he waits for the clients to be gone, cleans up and    *)
(* initializes.  Under these rules there is one region (NamedRegion, which *)
(* SharedRegion implements), and a call on it is a step on KVCache's map   *)
(* (which CacheEngine implements) under the region's lock; the keys of     *)
(* these programs never fill it.                                           *)
(* <Definition>_<Mistake> is <Definition> with a plausible mistake.        *)
(***************************************************************************)
EXTENDS Naturals, Sequences, FiniteSets

CONSTANTS
    Procs,          \* places for programs to run in
    Keys, Values,
    Absent,         \* the entry of a key that is not in the cache
    WriterKeys,     \* keys[] of the writer and the reader
    DemoKeys,       \* the three keys of the demo
    ScriptValue,    \* what the writer and the demo store
    BridgeCalls,    \* the calls users make through the bridge
    Ticks,          \* the reader's loops
    NoProc,         \* holder of the free lock
    Ghost,          \* a program that was killed holding the lock
    MaxKills,       \* BOUND: programs killed by chance
    MaxFaults       \* BOUND: failing system calls

ASSUME ProcsAssumption  == {NoProc, Ghost} \cap Procs = {} /\ NoProc # Ghost
ASSUME KeysAssumption   == /\ WriterKeys \in Seq(Keys) /\ DemoKeys \in [1 .. 3 -> Keys]
                           /\ ScriptValue \in Values
ASSUME BoundsAssumption == {Ticks, MaxKills, MaxFaults} \subseteq Nat

VARIABLES
    life, store,        \* the region as NamedRegion has it, and its map
    writer, readers,    \* its lock
    prog, place, todo,  \* per process: its program, place and remaining calls
    code,               \* per process: the exit code it is heading for
    alarm,              \* the operator: "none", "raised", or "cleaned"
    kills, faults,
    possible,           \* per key: what those who see the outcomes must reckon with
    since               \* per process: what was reported on the key of its call since that began

regionVars  == <<life, store, writer, readers>>
lockVars    == <<writer, readers>>
progVars    == <<prog, place, todo, code>>
envVars     == <<alarm, kills, faults>>
historyVars == <<possible, since>>
vars == <<regionVars, progVars, envVars, historyVars>>

-----------------------------------------------------------------------------
\* The scripts.

Get(k)       == [op |-> "GET", key |-> k]
Put(k, v, t) == [op |-> "PUT", key |-> k, value |-> v, ttl |-> t]
Update(k, v) == [op |-> "UPDATE", key |-> k, value |-> v]
Delete(k)    == [op |-> "DELETE", key |-> k]
Look         == [op |-> "LOOK"]     \* the header, or all slots, read under the lock
Bad          == [op |-> "BAD"]      \* a command or arguments that the bridge refuses

\* TTLs in use, all calls, and what the cache can hold under a key.
Ttls    == {0, 2} \cup {c.ttl : c \in {b \in BridgeCalls : b.op = "PUT"}}
Calls   == {Look, Bad} \cup {Get(k) : k \in Keys} \cup {Delete(k) : k \in Keys}
             \cup {Update(k, v) : k \in Keys, v \in Values}
             \cup {Put(k, v, t) : k \in Keys, v \in Values, t \in Ttls}
Entries == [value : Values, ttl : Ttls]

ASSUME CallsAssumption  == BridgeCalls \subseteq Calls /\ Ttls \subseteq Nat
ASSUME AbsentAssumption == Absent \notin Values \cup Entries

WriterScript ==
    [i \in 1 .. 2 * Len(WriterKeys) |->
        IF i % 2 = 1 THEN Put(WriterKeys[(i + 1) \div 2], ScriptValue, 0) ELSE Look]

ReaderScript ==
    [i \in 1 .. Ticks * (Len(WriterKeys) + 1) |->
        LET j == ((i - 1) % (Len(WriterKeys) + 1)) + 1
        IN  IF j <= Len(WriterKeys) THEN Get(WriterKeys[j]) ELSE Look]

\* It sleeps past the TTL between the last two calls of GET.
DemoScript ==
    <<Put(DemoKeys[1], ScriptValue, 0), Get(DemoKeys[1]), Delete(DemoKeys[1]), Get(DemoKeys[1]),
      Put(DemoKeys[2], ScriptValue, 0), Put(DemoKeys[3], ScriptValue, 2),
      Get(DemoKeys[3]), Get(DemoKeys[3]), Look>>

Scripts(g) == CASE g = "writer"              -> {WriterScript}
                [] g = "reader"              -> {ReaderScript}
                [] g = "demo"                -> {DemoScript}
                [] g = "bridge"              -> {<<c>> : c \in BridgeCalls}
                [] g \in {"init", "cleanup"} -> {<<>>}

\* Where a program begins: create_if_missing or not, or unlinking.
Begin(g) == CASE g \in {"writer", "init"}   -> "create"
              [] g \in {"reader", "bridge"} -> "attach"
              [] g = "demo"                 -> "reset"
              [] g = "cleanup"              -> "unlink"

Alone == {"demo", "cleanup"}
Others == {"writer", "reader", "init", "bridge"}

At(p, l)   == place[p] = l
Goto(p, l) == place' = [place EXCEPT ![p] = l]
Idle       == \A p \in Procs : At(p, "idle")
Call(p)    == Head(todo[p])
Writes(p, k) == /\ ~At(p, "idle") /\ todo[p] # <<>>
                /\ Call(p).op \in {"PUT", "UPDATE", "DELETE"} /\ Call(p).key = k

Init == /\ life = "absent" /\ store = [k \in Keys |-> Absent]
        /\ writer = NoProc /\ readers = {}
        /\ prog = [p \in Procs |-> "none"] /\ place = [p \in Procs |-> "idle"]
        /\ todo = [p \in Procs |-> <<>>] /\ code = [p \in Procs |-> 0]
        /\ alarm = "none" /\ kills = 0 /\ faults = 0
        /\ possible = [k \in Keys |-> {Absent}]
        /\ since = [p \in Procs |-> {}]

-----------------------------------------------------------------------------
\* The history of outcomes.

\* What a call leaves under its key if it takes effect; an entry with a TTL
\* may be gone later.
Outcomes(c) == CASE c.op = "PUT"    -> {c.value} \cup (IF c.ttl > 0 THEN {Absent} ELSE {})
                 [] c.op = "UPDATE" -> {c.value} \cup (possible[c.key] \cap {Absent})
                 [] c.op = "DELETE" -> {Absent}

Overlapping(p, k, seen) ==
    [q \in Procs |-> IF q = p THEN {}
                     ELSE IF Writes(q, k) THEN since[q] \cup seen ELSE since[q]]

\* p learns that its call has taken effect.
ReportDone(p) ==
    LET k == Call(p).key
    IN  /\ possible' = [possible EXCEPT ![k] = Outcomes(Call(p)) \cup since[p]]
        /\ since' = Overlapping(p, k, Outcomes(Call(p)) \cup since[p])

\* Nobody can tell whether it has.
ReportUnknown(p) ==
    IF \E k \in Keys : Writes(p, k)
    THEN LET k == Call(p).key
         IN  /\ possible' = [possible EXCEPT ![k] = @ \cup Outcomes(Call(p))]
             /\ since' = Overlapping(p, k, Outcomes(Call(p)))
    ELSE UNCHANGED possible /\ since' = [since EXCEPT ![p] = {}]

NothingToReport(p) == UNCHANGED possible /\ since' = [since EXCEPT ![p] = {}]

\* The other programs print what came of each call; the bridge tells of its only
\* call when it exits, by its code.
Report(p, ok) == IF prog[p] = "bridge" THEN UNCHANGED historyVars
                 ELSE IF ok THEN ReportDone(p) ELSE NothingToReport(p)

ReportByCode(p) ==
    IF prog[p] = "bridge" /\ code[p] = 0 /\ \E k \in Keys : Writes(p, k)
    THEN ReportDone(p) ELSE NothingToReport(p)

-----------------------------------------------------------------------------
\* Programs begin and end.

Start(p, g) ==
    /\ At(p, "idle")
    /\ IF g \in Alone THEN Idle ELSE \A q \in Procs : At(q, "idle") \/ prog[q] \notin Alone
    /\ CASE alarm = "none"    -> TRUE
         [] alarm = "raised"  -> g = "cleanup"
         [] alarm = "cleaned" -> g = "init" /\ Idle
    /\ prog' = [prog EXCEPT ![p] = g]
    /\ \E s \in Scripts(g) : todo' = [todo EXCEPT ![p] = s]
    /\ Goto(p, Begin(g))
    /\ UNCHANGED <<regionVars, code, envVars, historyVars>>

Exit(p) ==
    /\ Goto(p, "idle")
    /\ prog' = [prog EXCEPT ![p] = "none"]
    /\ todo' = [todo EXCEPT ![p] = <<>>]
    /\ code' = [code EXCEPT ![p] = 0]

\* cache_open_shared returns false: exit code 1.
OpenFails(p) == Exit(p) /\ alarm' = "raised" /\ NothingToReport(p)

\* The name is gone; whoever creates the region anew finds it empty.
Gone == /\ life' = "absent" /\ store' = [k \in Keys |-> Absent]
        /\ writer' = NoProc /\ readers' = {}

Fault == faults < MaxFaults /\ faults' = faults + 1

-----------------------------------------------------------------------------
\* cache_open_shared, as NamedRegion has it, with the lock.

Create(p) ==
    /\ At(p, "create")
    /\ IF life = "absent" THEN life' = "creating" /\ Goto(p, "publish")
                          ELSE UNCHANGED life /\ Goto(p, "attach")
    /\ UNCHANGED <<store, lockVars, prog, todo, code, envVars, historyVars>>

\* The calls of a program that has the cache open.
Opened(p) == Goto(p, IF todo[p] = <<>> THEN "close" ELSE "call")

Publish(p) ==
    /\ At(p, "publish")
    /\ life' = "ready"
    /\ Opened(p)
    /\ UNCHANGED <<store, lockVars, prog, todo, code, envVars, historyVars>>

\* The creator unlinks what it made, or that fails, too.
PublishFails(p) ==
    /\ At(p, "publish")
    /\ Fault
    /\ life' \in {"absent", "creating"}
    /\ OpenFails(p)
    /\ UNCHANGED <<store, lockVars, kills>>

Attach(p) ==
    /\ At(p, "attach")
    /\ \/ /\ life # "ready"
          /\ OpenFails(p) /\ UNCHANGED readers
       \/ /\ life = "ready" /\ writer = NoProc
          /\ readers' = readers \cup {p}
          /\ Goto(p, "validate") /\ UNCHANGED <<prog, todo, code, alarm, historyVars>>
    /\ UNCHANGED <<life, store, writer, kills, faults>>

AttachFails(p) ==
    /\ At(p, "attach") /\ life = "ready"
    /\ Fault
    /\ OpenFails(p)
    /\ UNCHANGED <<regionVars, kills>>

Validate(p) ==
    /\ At(p, "validate")
    /\ readers' = readers \ {p}
    /\ Opened(p)
    /\ UNCHANGED <<life, store, writer, prog, todo, code, envVars, historyVars>>

-----------------------------------------------------------------------------
\* The calls.

ReadsFirst(p) == Call(p).op \in {"GET", "LOOK"}

Enter(p) ==
    /\ At(p, "call") /\ Call(p).op # "BAD" /\ writer = NoProc
    /\ IF ReadsFirst(p) THEN readers' = readers \cup {p} /\ UNCHANGED writer
                        ELSE readers = {} /\ writer' = p /\ UNCHANGED readers
    /\ Goto(p, "inside")
    /\ UNCHANGED <<life, store, prog, todo, code, envVars, historyVars>>

NextCall(p) ==
    /\ todo' = IF prog[p] = "bridge" THEN todo ELSE [todo EXCEPT ![p] = Tail(@)]
    /\ Goto(p, IF Len(todo[p]) = 1 THEN "close" ELSE "call")

\* Reading ends.  A GET goes on to count itself, and to remove an entry that it
\* found expired, under the exclusive lock.
ReadInside(p) ==
    /\ At(p, "inside") /\ ReadsFirst(p)
    /\ readers' = readers \ {p}
    /\ IF Call(p).op = "GET" THEN Goto(p, "record") /\ UNCHANGED <<todo, historyVars>>
                             ELSE NextCall(p) /\ Report(p, FALSE)
    /\ UNCHANGED <<life, store, writer, prog, code, envVars>>

EnterRecord(p) ==
    /\ At(p, "record") /\ writer = NoProc /\ readers = {}
    /\ writer' = p
    /\ Goto(p, "recording")
    /\ UNCHANGED <<life, store, readers, prog, todo, code, envVars, historyVars>>

Expirable(e) == e # Absent /\ e.ttl > 0

Record_StaysLocked(p) ==
    /\ At(p, "recording")
    /\ \/ UNCHANGED store
       \/ /\ Expirable(store[Call(p).key])
          /\ store' = [store EXCEPT ![Call(p).key] = Absent]
    /\ NextCall(p) /\ Report(p, FALSE)
    /\ UNCHANGED <<life, writer, readers, prog, code, envVars>>

Record(p) ==
    /\ At(p, "recording")
    /\ \/ UNCHANGED store
       \/ /\ Expirable(store[Call(p).key])
          /\ store' = [store EXCEPT ![Call(p).key] = Absent]
    /\ writer' = NoProc
    /\ NextCall(p) /\ Report(p, FALSE)
    /\ UNCHANGED <<life, readers, prog, code, envVars>>

\* The exclusive section of a put, an update or a delete, its result, and what
\* the bridge makes of the result.
WriteInside(p) ==
    /\ At(p, "inside") /\ ~ReadsFirst(p)
    /\ LET c == Call(p)
           e == store[c.key]
       IN  \E expired \in IF Expirable(e) THEN BOOLEAN ELSE {FALSE} :
              LET ok == CASE c.op = "PUT"    -> TRUE
                          [] c.op = "UPDATE" -> e # Absent /\ ~expired
                          [] c.op = "DELETE" -> e # Absent
              IN  /\ store' = [store EXCEPT ![c.key] =
                                  CASE c.op = "PUT" -> [value |-> c.value, ttl |-> c.ttl]
                                    [] c.op = "UPDATE" /\ ok -> [e EXCEPT !.value = c.value]
                                    [] OTHER -> Absent]
                  /\ code' = IF prog[p] = "bridge" /\ ~ok THEN [code EXCEPT ![p] = 1] ELSE code
                  /\ Report(p, ok)
    /\ writer' = NoProc
    /\ NextCall(p)
    /\ UNCHANGED <<life, readers, prog, envVars>>

\* The bridge does not look at what a put or an update returns.
LockFails_ResultIgnored(p) ==
    /\ Fault
    /\ \/ At(p, "call") /\ Call(p).op # "BAD"
       \/ At(p, "record")
    /\ IF prog[p] = "writer" /\ Call(p).op = "LOOK"
       THEN Goto(p, "close") /\ todo' = [todo EXCEPT ![p] = <<>>]
       ELSE NextCall(p)
    /\ code' = IF \/ prog[p] = "bridge" /\ Call(p).op \in {"DELETE", "LOOK"}
                  \/ prog[p] = "writer" /\ Call(p).op = "LOOK"
               THEN [code EXCEPT ![p] = 1] ELSE code
    /\ Report(p, FALSE)
    /\ UNCHANGED <<regionVars, prog, alarm, kills>>

\* pthread_rwlock_* returns an error, and the call has no effect.  The bridge's
\* get answers "found: false" for that, with exit code 0; the writer gives up
\* at its own read of the count only; the reader and the demo go on.
LockFails(p) ==
    /\ Fault
    /\ \/ At(p, "call") /\ Call(p).op # "BAD"
       \/ At(p, "record")
    /\ IF prog[p] = "writer" /\ Call(p).op = "LOOK"
       THEN Goto(p, "close") /\ todo' = [todo EXCEPT ![p] = <<>>]
       ELSE NextCall(p)
    /\ code' = IF \/ prog[p] = "bridge" /\ Call(p).op # "GET"
                  \/ prog[p] = "writer" /\ Call(p).op = "LOOK"
               THEN [code EXCEPT ![p] = 1] ELSE code
    /\ Report(p, FALSE)
    /\ UNCHANGED <<regionVars, prog, alarm, kills>>

\* "Invalid command or arguments.", or a TTL that is not one.
Refuse(p) ==
    /\ At(p, "call") /\ Call(p).op = "BAD"
    /\ code' \in {[code EXCEPT ![p] = 1], [code EXCEPT ![p] = 2]}
    /\ NextCall(p)
    /\ UNCHANGED <<regionVars, prog, envVars, historyVars>>

-----------------------------------------------------------------------------
\* Closing and unlinking.

Close_CreatorUnlinks(p) ==
    /\ At(p, "close")
    /\ IF prog[p] = "demo" THEN Goto(p, "unlink") /\ UNCHANGED <<prog, todo, code>>
                           ELSE Exit(p)
    /\ IF prog[p] = "writer"
       THEN /\ life' = "absent" /\ store' = [k \in Keys |-> Absent]
            /\ possible' = [k \in Keys |-> {Absent}] /\ UNCHANGED <<lockVars, since>>
       ELSE UNCHANGED regionVars /\ ReportByCode(p)
    /\ alarm' = IF prog[p] = "init" /\ alarm = "cleaned" THEN "none" ELSE alarm
    /\ UNCHANGED <<kills, faults>>

\* The operator sees that the initialization has succeeded.
Close(p) ==
    /\ At(p, "close")
    /\ IF prog[p] = "demo" THEN Goto(p, "unlink") /\ UNCHANGED <<prog, todo, code>>
                           ELSE Exit(p)
    /\ ReportByCode(p)
    /\ alarm' = IF prog[p] = "init" /\ alarm = "cleaned" THEN "none" ELSE alarm
    /\ UNCHANGED <<regionVars, kills, faults>>

Unlink_ReadyOnly(p) ==
    /\ At(p, "unlink")
    /\ IF life = "ready" THEN Gone /\ possible' = [k \in Keys |-> {Absent}]
                         ELSE UNCHANGED <<regionVars, possible>>
    /\ Exit(p)
    /\ alarm' = IF prog[p] = "cleanup" /\ life = "ready" /\ alarm = "raised" THEN "cleaned" ELSE alarm
    /\ UNCHANGED <<kills, faults, since>>

\* memsync_cleanup, for which there may be no cache, and the demo's end, where
\* nobody else has removed the demo's cache, since it runs alone.
Unlink(p) ==
    /\ At(p, "unlink")
    /\ Gone /\ possible' = [k \in Keys |-> {Absent}]
    /\ Exit(p)
    /\ alarm' = IF prog[p] = "cleanup" /\ alarm = "raised" THEN "cleaned" ELSE alarm
    /\ UNCHANGED <<kills, faults, since>>

\* The demo begins by removing whatever cache there is.
Reset(p) ==
    /\ At(p, "reset")
    /\ Gone /\ possible' = [k \in Keys |-> {Absent}]
    /\ Goto(p, "create")
    /\ UNCHANGED <<prog, todo, code, envVars, since>>

UnlinkFails_ReportsSuccess(p) ==
    /\ place[p] \in {"unlink", "reset"}
    /\ Fault
    /\ Exit(p)
    /\ alarm' = IF prog[p] = "cleanup" /\ alarm = "raised" THEN "cleaned" ELSE alarm
    /\ UNCHANGED <<regionVars, kills, historyVars>>

UnlinkFails(p) ==
    /\ place[p] \in {"unlink", "reset"}
    /\ Fault
    /\ Exit(p)
    /\ UNCHANGED <<regionVars, alarm, kills, historyVars>>

-----------------------------------------------------------------------------
\* Kills.

\* The kernel closes what the program had open; a lock it held stays held.
Dies(p) ==
    /\ writer' = IF writer = p THEN Ghost ELSE writer
    /\ readers' = IF p \in readers THEN (readers \ {p}) \cup {Ghost} ELSE readers
    /\ ReportUnknown(p)
    /\ Exit(p)

\* At any step, for instance by run_command's time-out.  If it hits the operator's
\* own initialization he begins again with the cleanup, as after any crash.
Kill(p) ==
    /\ ~At(p, "idle") /\ kills < MaxKills
    /\ kills' = kills + 1
    /\ Dies(p)
    /\ alarm' = IF alarm = "cleaned" THEN "raised" ELSE alarm
    /\ UNCHANGED <<life, store, faults>>

\* Waiting for a lock that a dead program holds.
Stuck(p) ==
    \/ place[p] \in {"attach", "call", "record"} /\ life = "ready" /\ writer = Ghost
    \/ /\ Ghost \in readers
       /\ \/ At(p, "record")
          \/ At(p, "call") /\ Call(p).op # "BAD" /\ ~ReadsFirst(p)

\* The time-out stops a bridge; the operator interrupts the other programs.
TimeOut(p) ==
    /\ Stuck(p)
    /\ Dies(p)
    /\ alarm' = "raised"
    /\ UNCHANGED <<life, store, kills, faults>>

-----------------------------------------------------------------------------

Step(p) ==
    \/ Create(p) \/ Publish(p) \/ Attach(p) \/ Validate(p) \/ Enter(p) \/ ReadInside(p)
    \/ EnterRecord(p) \/ Record(p) \/ WriteInside(p) \/ Refuse(p) \/ Close(p) \/ Unlink(p)
    \/ Reset(p)

Fails(p) ==
    PublishFails(p) \/ AttachFails(p) \/ LockFails(p) \/ UnlinkFails(p)

Next == \E p \in Procs : \/ \E g \in Alone \cup Others : Start(p, g)
                         \/ Step(p) \/ Fails(p) \/ Kill(p) \/ TimeOut(p)

Spec == Init /\ [][Next]_vars

\* Programs run and time out; the operator does what he must after trouble,
\* and nothing obliges him or the users to do anything before.
Repair == alarm # "none" /\ \E p \in Procs : Start(p, "cleanup") \/ Start(p, "init")
FairSpec == /\ Spec /\ WF_vars(Repair)
            /\ \A p \in Procs : WF_vars(Step(p)) /\ WF_vars(TimeOut(p))

-----------------------------------------------------------------------------
\* Properties.

Places == {"idle", "create", "publish", "attach", "validate", "call", "inside", "record",
           "recording", "close", "unlink", "reset"}

\* And the lock is held by whom the code has inside, and by the dead.
TypeOK ==
    /\ life \in {"absent", "creating", "ready"}
    /\ store \in [Keys -> Entries \cup {Absent}]
    /\ prog \in [Procs -> Alone \cup Others \cup {"none"}] /\ place \in [Procs -> Places]
    /\ code \in [Procs -> 0 .. 2]
    /\ \A p \in Procs :
          /\ p \in readers <=> (At(p, "validate") \/ (At(p, "inside") /\ ReadsFirst(p)))
          /\ p = writer <=> (At(p, "recording") \/ (At(p, "inside") /\ ~ReadsFirst(p)))
    /\ writer # NoProc => readers = {}
    /\ alarm \in {"none", "raised", "cleaned"}
    /\ kills \in 0 .. MaxKills /\ faults \in 0 .. MaxFaults
    /\ possible \in [Keys -> SUBSET (Values \cup {Absent})]

\* What the outcomes tell is true: while no call that writes a key is under
\* way, the cache holds under it what the last successful call left (or one of
\* those that overlapped with it), or what a later call that was killed was
\* about to: a failed call has changed nothing, a killed one all or nothing.
OutcomesTell ==
    \A k \in Keys :
        (~ \E p \in Procs : Writes(p, k)) =>
            (IF store[k] = Absent THEN Absent ELSE store[k].value) \in possible[k]

Inside == {"validate", "call", "inside", "record", "recording", "close"}

Attached == {p \in Procs : place[p] \in Inside}

\* However the programs fail, are killed and overlap, the region they share
\* keeps NamedRegion's contract: it is never taken away from a program that has
\* it open.
Region == INSTANCE NamedRegion WITH attached <- Attached, work <- 0

KeepsContract == Region!Spec

\* After trouble (a cache that cannot be opened, a program that had to be
\* stopped), the operator's cleanup and initialization bring the cache back.
Usable == life = "ready" /\ writer # Ghost /\ Ghost \notin readers

Recovers == (alarm # "none") ~> (Usable /\ alarm = "none")

\* And he can trust their exit codes: when he takes the trouble to be over, the
\* cache is there and nobody dead holds its lock, although an initialization
\* also succeeds on a cache that a dead reader keeps every writer out of.
TroubleIsOver == [][alarm # "none" /\ alarm' = "none" => Usable']_vars
=============================================================================

--------------------------- MODULE ProgramsProofs ---------------------------
(* The programs keep the contract of the region that they share, and what   *)
(* they say of their calls is true.                                         *)
EXTENDS Programs, TLAPS

-----------------------------------------------------------------------------
\* The invariant.

TypeInv == /\ life \in {"absent", "creating", "ready"}
           /\ prog \in [Procs -> Alone \cup Others \cup {"none"}]
           /\ place \in [Procs -> Places]

\* The demo and cleanup have no company, and only they unlink.
AloneInv ==
    /\ \A p, q \in Procs :
          p # q /\ ~At(p, "idle") /\ prog[p] \in Alone => At(q, "idle")
    /\ \A p \in Procs : place[p] \in {"unlink", "reset"} => prog[p] \in Alone

\* There is one creator, of a region that is yet to be published, and clients
\* are in one that is ready.
LifeInv ==
    /\ \A p \in Procs : At(p, "publish") => life = "creating"
    /\ \A p, q \in Procs : At(p, "publish") /\ At(q, "publish") => p = q
    /\ \A p \in Procs : place[p] \in Inside => life = "ready"

ContractInv == TypeInv /\ AloneInv /\ LifeInv

\* It holds when nothing has been started.
LEMMA ContractInit == Init => ContractInv
<1> SUFFICES ASSUME Init PROVE ContractInv
  OBVIOUS
<1>1. life = "absent" /\ prog = [p \in Procs |-> "none"] /\ place = [p \in Procs |-> "idle"]
  BY DEF Init
<1>2. TypeInv
  BY <1>1 DEF TypeInv, Places
<1>3. AloneInv /\ LifeInv
  BY <1>1 DEF AloneInv, LifeInv, At, Inside
<1> QED
  BY <1>2, <1>3 DEF ContractInv

-----------------------------------------------------------------------------
\* Most steps take one program from a place to another and leave the region's
\* life alone.

Moves(p, l) ==
    /\ place' = [place EXCEPT ![p] = l]
    /\ prog' = prog \/ (prog' = [prog EXCEPT ![p] = "none"] /\ l = "idle")

PlainTo(p, l) ==
    /\ Moves(p, l) /\ life' = life
    /\ ~At(p, "idle") /\ l \in Places \ {"publish"}
    /\ l \in Inside => place[p] \in Inside \/ life = "ready"
    /\ l \in {"unlink", "reset"} => prog[p] \in Alone

Plain(p) == \E l \in Places : PlainTo(p, l)

\* Where a program moves to, and what stays of the others.
LEMMA MovedTo ==
  ASSUME TypeInv, NEW p \in Procs, NEW l \in Places, Moves(p, l)
  PROVE  /\ place'[p] = l
         /\ \A q \in Procs \ {p} : place'[q] = place[q] /\ prog'[q] = prog[q]
         /\ l # "idle" => prog'[p] = prog[p]
         /\ prog' \in [Procs -> Alone \cup Others \cup {"none"}]
         /\ place' \in [Procs -> Places]
  BY DEF TypeInv, Moves

\* Such a step keeps the invariant.
LEMMA PlainInv ==
  ASSUME ContractInv, NEW p \in Procs, Plain(p)
  PROVE  ContractInv'
<1> USE DEF ContractInv
<1>1. PICK l \in Places : PlainTo(p, l)
  BY DEF Plain
<1>2. /\ place'[p] = l
      /\ \A q \in Procs \ {p} : place'[q] = place[q] /\ prog'[q] = prog[q]
      /\ l # "idle" => prog'[p] = prog[p]
      /\ prog' \in [Procs -> Alone \cup Others \cup {"none"}]
      /\ place' \in [Procs -> Places]
  BY <1>1, MovedTo DEF PlainTo
<1>3. TypeInv'
  BY <1>1, <1>2 DEF TypeInv, PlainTo
<1>4. AloneInv'
  <2>1. ASSUME NEW a \in Procs, NEW b \in Procs, a # b, place'[a] # "idle", prog'[a] \in Alone
        PROVE  place'[b] = "idle"
    <3>1. place[a] # "idle" /\ prog[a] \in Alone
      BY <1>1, <1>2, <2>1 DEF PlainTo, At
    <3>2. place[b] = "idle"
      BY <2>1, <3>1 DEF AloneInv, At
    <3> QED
      BY <1>1, <1>2, <3>2 DEF PlainTo, At
  <2>2. ASSUME NEW a \in Procs, place'[a] \in {"unlink", "reset"}
        PROVE  prog'[a] \in Alone
    BY <1>1, <1>2, <2>2 DEF PlainTo, AloneInv
  <2> QED
    BY <2>1, <2>2 DEF AloneInv, At
<1>5. LifeInv'
  <2>1. \A a \in Procs : place'[a] = "publish" => place[a] = "publish"
    BY <1>1, <1>2 DEF PlainTo
  <2>2. \A a \in Procs : place'[a] \in Inside => life = "ready"
    BY <1>1, <1>2 DEF PlainTo, LifeInv
  <2> QED
    BY <1>1, <2>1, <2>2 DEF PlainTo, LifeInv, At
<1> QED
  BY <1>3, <1>4, <1>5

\* For the contract, such a step is an attachment, a departure, or nothing.
LEMMA PlainMaps ==
  ASSUME ContractInv, NEW p \in Procs, Plain(p)
  PROVE  [Region!Next]_(Region!vars)
<1> USE DEF ContractInv
<1>1. PICK l \in Places : PlainTo(p, l)
  BY DEF Plain
<1>2. /\ place'[p] = l /\ life' = life
      /\ \A q \in Procs \ {p} : place'[q] = place[q]
  BY <1>1, MovedTo DEF PlainTo
<1>3. CASE l \in Inside /\ place[p] \notin Inside
  <2>1. Attached' = Attached \cup {p} /\ p \notin Attached
    BY <1>2, <1>3 DEF Attached
  <2>2. life = "ready"
    BY <1>1, <1>3 DEF PlainTo
  <2>3. Region!Attach(p)
    BY <1>2, <2>1, <2>2 DEF Region!Attach
  <2> QED
    BY <2>3 DEF Region!Next
<1>4. CASE l \notin Inside /\ place[p] \in Inside
  <2>1. Attached' = Attached \ {p} /\ p \in Attached
    BY <1>2, <1>4 DEF Attached
  <2>2. Region!Leave(p)
    BY <1>2, <2>1 DEF Region!Leave
  <2> QED
    BY <2>2 DEF Region!Next
<1>5. CASE l \in Inside <=> place[p] \in Inside
  <2>1. Attached' = Attached
    BY <1>2, <1>5 DEF Attached
  <2> QED
    BY <1>2, <2>1 DEF Region!vars
<1> QED
  BY <1>3, <1>4, <1>5

\* A program that exits or dies.
LEMMA ExitIsPlain ==
  ASSUME NEW p \in Procs, Exit(p), life' = life, ~At(p, "idle")
  PROVE  Plain(p)
<1>1. PlainTo(p, "idle")
  BY DEF Exit, Goto, PlainTo, Moves, Places, Inside
<1> QED
  BY <1>1 DEF Plain, Places

\* A program that goes on to its next call, or closes.
LEMMA NextCallIsPlain ==
  ASSUME NEW p \in Procs, place[p] \in Inside, prog' = prog, life' = life,
         Goto(p, "call") \/ Goto(p, "close") \/ Goto(p, "inside") \/ Goto(p, "record")
           \/ Goto(p, "recording")
  PROVE  Plain(p)
<1>1. ASSUME NEW l \in {"call", "close", "inside", "record", "recording"}, Goto(p, l)
      PROVE  Plain(p)
  <2>1. PlainTo(p, l)
    BY <1>1 DEF Goto, PlainTo, Moves, Places, Inside, At
  <2> QED
    BY <2>1 DEF Plain, PlainTo
<1> QED
  BY <1>1

\* A program at p that goes to a place outside of an open cache.
LEMMA GotoIsPlain ==
  ASSUME NEW p \in Procs, ~At(p, "idle"), prog' = prog, life' = life,
         NEW l \in {"attach", "create", "unlink"}, Goto(p, l),
         l = "unlink" => prog[p] \in Alone
  PROVE  Plain(p)
<1>1. PlainTo(p, l)
  BY DEF Goto, PlainTo, Moves, Places, Inside
<1> QED
  BY <1>1 DEF Plain, PlainTo

\* A program that enters the cache it has found ready.
LEMMA ValidateIsPlain ==
  ASSUME NEW p \in Procs, At(p, "attach"), prog' = prog, life' = life,
         life = "ready", Goto(p, "validate")
  PROVE  Plain(p)
<1>1. PlainTo(p, "validate")
  BY DEF Goto, PlainTo, Moves, Places, Inside, At
<1> QED
  BY <1>1 DEF Plain, PlainTo

\* The steps within an open cache.
LEMMA CallsArePlain ==
  ASSUME NEW p \in Procs,
         \/ Validate(p) \/ Enter(p) \/ ReadInside(p) \/ EnterRecord(p)
         \/ Record(p) \/ WriteInside(p) \/ LockFails(p) \/ Refuse(p)
  PROVE  Plain(p)
<1> DEFINE Onward ==
      /\ place[p] \in Inside /\ prog' = prog /\ life' = life
      /\ \/ Goto(p, "call") \/ Goto(p, "close") \/ Goto(p, "inside") \/ Goto(p, "record")
         \/ Goto(p, "recording")
<1>1. CASE Validate(p)
  <2>1. Onward
    BY <1>1 DEF Validate, Opened, At, Inside
  <2> QED
    BY <2>1, NextCallIsPlain
<1>2. CASE Enter(p)
  <2>1. Onward
    BY <1>2 DEF Enter, At, Inside
  <2> QED
    BY <2>1, NextCallIsPlain
<1>3. CASE ReadInside(p)
  <2>1. Onward
    BY <1>3 DEF ReadInside, NextCall, At, Inside
  <2> QED
    BY <2>1, NextCallIsPlain
<1>4. CASE EnterRecord(p)
  <2>1. Onward
    BY <1>4 DEF EnterRecord, At, Inside
  <2> QED
    BY <2>1, NextCallIsPlain
<1>5. CASE Record(p)
  <2>1. Onward
    BY <1>5 DEF Record, NextCall, At, Inside
  <2> QED
    BY <2>1, NextCallIsPlain
<1>6. CASE WriteInside(p)
  <2>1. At(p, "inside") /\ NextCall(p) /\ UNCHANGED <<life, readers, prog, envVars>>
    BY <1>6 DEF WriteInside
  <2>2. Onward
    BY <2>1 DEF NextCall, At, Inside
  <2> QED
    BY <2>2, NextCallIsPlain
<1>7. CASE LockFails(p)
  <2>1. /\ At(p, "call") \/ At(p, "record")
        /\ Goto(p, "close") \/ NextCall(p)
        /\ UNCHANGED <<regionVars, prog>>
    BY <1>7 DEF LockFails
  <2>2. Onward
    BY <2>1 DEF NextCall, At, Inside, regionVars
  <2> QED
    BY <2>2, NextCallIsPlain
<1>8. CASE Refuse(p)
  <2>1. Onward
    BY <1>8 DEF Refuse, NextCall, At, Inside, regionVars
  <2> QED
    BY <2>1, NextCallIsPlain
<1> QED
  BY <1>1, <1>2, <1>3, <1>4, <1>5, <1>6, <1>7, <1>8

\* Opening an existing region, closing it, and the ends that unlink nothing.
LEMMA EndsArePlain ==
  ASSUME TypeInv, NEW p \in Procs,
         \/ Create(p) /\ life # "absent"
         \/ Attach(p) \/ AttachFails(p) \/ Close(p) \/ UnlinkFails(p) \/ Kill(p) \/ TimeOut(p)
  PROVE  Plain(p)
<1>1. CASE Create(p) /\ life # "absent"
  <2>1. ~At(p, "idle") /\ prog' = prog /\ life' = life /\ Goto(p, "attach")
    BY <1>1 DEF Create, At
  <2> QED
    BY <2>1, GotoIsPlain
<1>2. CASE Attach(p)
  <2>1. At(p, "attach") /\ life' = life
    BY <1>2 DEF Attach
  <2>2. CASE life # "ready" /\ OpenFails(p)
    BY <2>1, <2>2, ExitIsPlain DEF OpenFails, At
  <2>3. CASE life = "ready" /\ Goto(p, "validate") /\ prog' = prog
    BY <2>1, <2>3, ValidateIsPlain
  <2> QED
    BY <1>2, <2>2, <2>3 DEF Attach
<1>3. CASE AttachFails(p)
  BY <1>3, ExitIsPlain DEF AttachFails, OpenFails, At, regionVars
<1>4. CASE Close(p)
  <2>1. At(p, "close") /\ life' = life
    BY <1>4 DEF Close, regionVars
  <2>2. CASE prog[p] = "demo"
    <3>1. Goto(p, "unlink") /\ prog' = prog
      BY <1>4, <2>2 DEF Close
    <3> QED
      BY <2>1, <2>2, <3>1, GotoIsPlain DEF At, Alone
  <2>3. CASE prog[p] # "demo"
    <3>1. Exit(p)
      BY <1>4, <2>3 DEF Close
    <3> QED
      BY <2>1, <3>1, ExitIsPlain DEF At
  <2> QED
    BY <2>2, <2>3
<1>5. CASE UnlinkFails(p)
  BY <1>5, ExitIsPlain DEF UnlinkFails, At, regionVars
<1>6. CASE Kill(p)
  BY <1>6, ExitIsPlain DEF Kill, Dies
<1>7. CASE TimeOut(p)
  <2>1. ~At(p, "idle")
    BY <1>7 DEF TimeOut, Stuck, At
  <2> QED
    BY <1>7, <2>1, ExitIsPlain DEF TimeOut, Dies
<1> QED
  BY <1>1, <1>2, <1>3, <1>4, <1>5, <1>6, <1>7

-----------------------------------------------------------------------------
\* The other steps: creation, its end, unlinking, and a program's start.

Contracted == ContractInv' /\ [Region!Next]_(Region!vars)

\* The creation of the region.
LEMMA CreateStep ==
  ASSUME ContractInv, NEW p \in Procs, Create(p), life = "absent"
  PROVE  Contracted
<1> USE DEF ContractInv
<1>1. Moves(p, "publish") /\ prog' = prog /\ place[p] = "create" /\ life' = "creating"
  BY DEF Create, Goto, Moves, At
<1>2. /\ place'[p] = "publish"
      /\ \A q \in Procs \ {p} : place'[q] = place[q]
      /\ place' \in [Procs -> Places]
  BY <1>1, MovedTo DEF Places
<1>3. \A q \in Procs : place[q] # "publish" /\ place[q] \notin Inside
  BY DEF LifeInv, At
<1>4. TypeInv'
  BY <1>1, <1>2 DEF TypeInv
<1>5. AloneInv'
  <2>1. \A q \in Procs : place'[q] = "idle" <=> place[q] = "idle"
    BY <1>1, <1>2
  <2>2. \A q \in Procs : place'[q] \in {"unlink", "reset"} => place[q] \in {"unlink", "reset"}
    BY <1>1, <1>2
  <2> QED
    BY <1>1, <2>1, <2>2 DEF AloneInv, At
<1>6. LifeInv'
  BY <1>1, <1>2, <1>3 DEF LifeInv, At, Inside
<1>7. Attached' = Attached
  BY <1>1, <1>2 DEF Attached, Inside
<1>8. Region!Create
  BY <1>1, <1>7 DEF Region!Create
<1> QED
  BY <1>4, <1>5, <1>6, <1>8 DEF Contracted, Region!Next

\* The creator publishes it and is its first client.
LEMMA PublishStep ==
  ASSUME ContractInv, NEW p \in Procs, Publish(p)
  PROVE  Contracted
<1> USE DEF ContractInv
<1>1. PICK l \in {"close", "call"} : Goto(p, l)
  BY DEF Publish, Opened
<1>2. Moves(p, l) /\ prog' = prog /\ place[p] = "publish" /\ life' = "ready"
  BY <1>1 DEF Publish, Goto, Moves, At
<1>3. /\ place'[p] = l
      /\ \A q \in Procs \ {p} : place'[q] = place[q]
      /\ place' \in [Procs -> Places]
  BY <1>2, MovedTo DEF Places
<1>4. life = "creating" /\ \A q \in Procs \ {p} : place[q] # "publish"
  BY <1>2 DEF LifeInv, At
<1>5. TypeInv'
  BY <1>2, <1>3 DEF TypeInv
<1>6. AloneInv'
  <2>1. \A q \in Procs : place'[q] = "idle" <=> place[q] = "idle"
    BY <1>2, <1>3
  <2>2. \A q \in Procs : place'[q] \in {"unlink", "reset"} => place[q] \in {"unlink", "reset"}
    BY <1>2, <1>3
  <2> QED
    BY <1>2, <2>1, <2>2 DEF AloneInv, At
<1>7. LifeInv'
  <2>1. \A q \in Procs : place'[q] # "publish"
    BY <1>3, <1>4
  <2> QED
    BY <1>2, <2>1 DEF LifeInv, At
<1>8. Attached' = Attached \cup {p}
  BY <1>3 DEF Attached, Inside
<1>9. Region!Publish(p)
  BY <1>2, <1>4, <1>8 DEF Region!Publish
<1> QED
  BY <1>5, <1>6, <1>7, <1>9 DEF Contracted, Region!Next

\* The creator fails, and unlinks it or not.
LEMMA PublishFailsStep ==
  ASSUME ContractInv, NEW p \in Procs, PublishFails(p)
  PROVE  Contracted
<1> USE DEF ContractInv
<1>1. /\ Moves(p, "idle") /\ place[p] = "publish" /\ life' \in {"absent", "creating"}
  BY DEF PublishFails, OpenFails, Exit, Goto, Moves, At
<1>2. /\ place'[p] = "idle"
      /\ \A q \in Procs \ {p} : place'[q] = place[q] /\ prog'[q] = prog[q]
      /\ prog' \in [Procs -> Alone \cup Others \cup {"none"}]
      /\ place' \in [Procs -> Places]
  BY <1>1, MovedTo DEF Places
<1>3. life = "creating" /\ \A q \in Procs \ {p} : place[q] # "publish"
  BY <1>1 DEF LifeInv, At
<1>4. \A q \in Procs : place[q] \notin Inside
  BY <1>3 DEF LifeInv
<1>5. TypeInv'
  BY <1>1, <1>2 DEF TypeInv
<1>6. AloneInv'
  BY <1>2 DEF AloneInv, At
<1>7. LifeInv'
  BY <1>2, <1>3, <1>4 DEF LifeInv, At, Inside
<1>8. Attached' = Attached
  BY <1>1, <1>2 DEF Attached, Inside
<1>9. CASE life' = "absent"
  <2>1. Region!GiveUp
    BY <1>3, <1>8, <1>9 DEF Region!GiveUp
  <2> QED
    BY <1>5, <1>6, <1>7, <2>1 DEF Contracted, Region!Next
<1>10. CASE life' = "creating"
  <2>1. UNCHANGED Region!vars
    BY <1>3, <1>8, <1>10 DEF Region!vars
  <2> QED
    BY <1>5, <1>6, <1>7, <2>1 DEF Contracted
<1> QED
  BY <1>1, <1>9, <1>10

\* Whoever unlinks is alone, so nobody loses the region.
LEMMA UnlinkStep ==
  ASSUME ContractInv, NEW p \in Procs, Unlink(p) \/ Reset(p)
  PROVE  Contracted
<1> USE DEF ContractInv
<1>1. PICK l \in {"idle", "create"} :
          Moves(p, l) /\ place[p] \in {"unlink", "reset"} /\ life' = "absent"
  BY DEF Unlink, Reset, Gone, Exit, Goto, Moves, At
<1>2. /\ place'[p] = l
      /\ \A q \in Procs \ {p} : place'[q] = place[q] /\ prog'[q] = prog[q]
      /\ prog' \in [Procs -> Alone \cup Others \cup {"none"}]
      /\ place' \in [Procs -> Places]
  BY <1>1, MovedTo DEF Places
<1>3. \A q \in Procs \ {p} : place[q] = "idle" /\ place'[q] = "idle"
  <2>1. prog[p] \in Alone /\ ~At(p, "idle")
    BY <1>1 DEF AloneInv, At
  <2> QED
    BY <1>2, <2>1 DEF AloneInv, At
<1>4. TypeInv'
  BY <1>1, <1>2 DEF TypeInv
<1>5. AloneInv'
  BY <1>2, <1>3 DEF AloneInv, At
<1>6. LifeInv'
  BY <1>2, <1>3 DEF LifeInv, At, Inside
<1>7. Attached = {} /\ Attached' = {}
  BY <1>1, <1>2, <1>3 DEF Attached, Inside
<1>8. CASE life = "absent"
  <2>1. UNCHANGED Region!vars
    BY <1>1, <1>7, <1>8 DEF Region!vars
  <2> QED
    BY <1>4, <1>5, <1>6, <2>1 DEF Contracted
<1>9. CASE life # "absent"
  <2>1. Region!Cleanup
    BY <1>1, <1>7, <1>9 DEF Region!Cleanup
  <2> QED
    BY <1>4, <1>5, <1>6, <2>1 DEF Contracted, Region!Next
<1> QED
  BY <1>8, <1>9

\* Only those who tolerate company start when somebody is there.
LEMMA StartStep ==
  ASSUME ContractInv, NEW p \in Procs, NEW g \in Alone \cup Others, Start(p, g)
  PROVE  Contracted
<1> USE DEF ContractInv
<1>1. PICK l \in {"create", "attach", "reset", "unlink"} :
          /\ place' = [place EXCEPT ![p] = l]
          /\ l \in {"reset", "unlink"} => g \in Alone
  BY DEF Start, Goto, Begin, Alone, Others
<1>2. /\ prog' = [prog EXCEPT ![p] = g] /\ life' = life /\ place[p] = "idle"
      /\ IF g \in Alone THEN Idle ELSE \A q \in Procs : At(q, "idle") \/ prog[q] \notin Alone
  BY DEF Start, At, regionVars
<1>3. /\ place'[p] = l /\ prog'[p] = g
      /\ \A q \in Procs \ {p} : place'[q] = place[q] /\ prog'[q] = prog[q]
      /\ prog' \in [Procs -> Alone \cup Others \cup {"none"}]
      /\ place' \in [Procs -> Places]
  BY <1>1, <1>2 DEF TypeInv, Places
<1>4. TypeInv'
  BY <1>2, <1>3 DEF TypeInv
<1>5. AloneInv'
  <2>1. ASSUME NEW a \in Procs, NEW b \in Procs, a # b, place'[a] # "idle", prog'[a] \in Alone
        PROVE  place'[b] = "idle"
    <3>1. CASE a = p
      BY <1>2, <1>3, <2>1, <3>1 DEF Idle, At
    <3>2. CASE a # p
      <4>1. place[a] # "idle" /\ prog[a] \in Alone
        BY <1>3, <2>1, <3>2
      <4>2. g \notin Alone /\ (At(a, "idle") \/ prog[a] \notin Alone)
        BY <1>2, <4>1 DEF Idle, At
      <4> QED
        BY <4>1, <4>2 DEF At
    <3> QED
      BY <3>1, <3>2
  <2>2. ASSUME NEW a \in Procs, place'[a] \in {"unlink", "reset"}
        PROVE  prog'[a] \in Alone
    BY <1>1, <1>3, <2>2 DEF AloneInv
  <2> QED
    BY <2>1, <2>2 DEF AloneInv, At
<1>6. LifeInv'
  <2>1. \A q \in Procs : place'[q] = "publish" => place[q] = "publish"
    BY <1>3
  <2>2. \A q \in Procs : place'[q] \in Inside => place[q] \in Inside
    BY <1>3 DEF Inside
  <2> QED
    BY <1>2, <2>1, <2>2 DEF LifeInv, At
<1>7. Attached' = Attached
  BY <1>2, <1>3 DEF Attached, Inside
<1>8. UNCHANGED Region!vars
  BY <1>2, <1>7 DEF Region!vars
<1> QED
  BY <1>4, <1>5, <1>6, <1>8 DEF Contracted

-----------------------------------------------------------------------------
\* Every step.

\* A plain step keeps the contract.
LEMMA PlainStep ==
  ASSUME ContractInv, NEW p \in Procs, Plain(p)
  PROVE  Contracted
BY PlainInv, PlainMaps DEF Contracted

\* So does every step of a running program.
LEMMA ProgramStep ==
  ASSUME ContractInv, NEW p \in Procs, Step(p) \/ Fails(p) \/ Kill(p) \/ TimeOut(p)
  PROVE  Contracted
<1>1. TypeInv
  BY DEF ContractInv
<1>2. CASE Create(p)
  <2>1. CASE life = "absent"
    BY <1>2, <2>1, CreateStep
  <2>2. CASE life # "absent"
    BY <1>1, <1>2, <2>2, EndsArePlain, PlainStep
  <2> QED
    BY <2>1, <2>2
<1>3. CASE Publish(p)
  BY <1>3, PublishStep
<1>4. CASE PublishFails(p)
  BY <1>4, PublishFailsStep
<1>5. CASE Unlink(p) \/ Reset(p)
  BY <1>5, UnlinkStep
<1>6. CASE \/ Validate(p) \/ Enter(p) \/ ReadInside(p) \/ EnterRecord(p)
           \/ Record(p) \/ WriteInside(p) \/ LockFails(p) \/ Refuse(p)
  BY <1>6, CallsArePlain, PlainStep
<1>7. CASE Attach(p) \/ AttachFails(p) \/ Close(p) \/ UnlinkFails(p) \/ Kill(p) \/ TimeOut(p)
  BY <1>1, <1>7, EndsArePlain, PlainStep
<1> QED
  BY <1>2, <1>3, <1>4, <1>5, <1>6, <1>7 DEF Step, Fails

\* And every step.
LEMMA ContractStep ==
  ASSUME ContractInv, [Next]_vars
  PROVE  Contracted
<1>1. CASE Next
  <2>1. PICK p \in Procs : \/ \E g \in Alone \cup Others : Start(p, g)
                           \/ Step(p) \/ Fails(p) \/ Kill(p) \/ TimeOut(p)
    BY <1>1 DEF Next
  <2>2. CASE \E g \in Alone \cup Others : Start(p, g)
    BY <2>2, StartStep
  <2>3. CASE Step(p) \/ Fails(p) \/ Kill(p) \/ TimeOut(p)
    BY <2>3, ProgramStep
  <2> QED
    BY <2>1, <2>2, <2>3
<1>2. CASE UNCHANGED vars
  <2>1. life' = life /\ prog' = prog /\ place' = place
    BY <1>2 DEF vars, regionVars, progVars
  <2>2. ContractInv'
    BY <2>1 DEF ContractInv, TypeInv, AloneInv, LifeInv, At
  <2>3. UNCHANGED Region!vars
    BY <2>1 DEF Region!vars, Attached
  <2> QED
    BY <2>2, <2>3 DEF Contracted
<1> QED
  BY <1>1, <1>2

\* The region of NamedRegion begins absent as well.
LEMMA RegionMapsInit == Init => Region!Init
BY DEF Init, Region!Init, Attached, Inside

(* However the writer, the reader, the demo, the bridge and the initializer  *)
(* overlap, fail and are killed (src/main.cpp, writer.cpp, reader.cpp and    *)
(* ui_bridge.cpp), the region they share is never unlinked under one of them *)
(* while the demo and cleanup run alone: they keep NamedRegion's contract,   *)
(* which SharedRegion's cache_open_shared and cache_close implement.         *)
THEOREM ProgramsKeepContract == Spec => KeepsContract
<1>1. Init => ContractInv
  BY ContractInit
<1>2. ContractInv /\ [Next]_vars => ContractInv' /\ [Region!Next]_(Region!vars)
  BY ContractStep DEF Contracted
<1>3. Init => Region!Init
  BY RegionMapsInit
<1> QED
  BY <1>1, <1>2, <1>3, PTL DEF Spec, KeepsContract, Region!Spec

-----------------------------------------------------------------------------
\* The rest of the state.

EnvOK == /\ alarm \in {"none", "raised", "cleaned"}
         /\ kills \in 0 .. MaxKills /\ faults \in 0 .. MaxFaults

Seen == Values \cup {Absent}

StoreOK == store \in [Keys -> Entries \cup {Absent}]

HistOK == possible \in [Keys -> SUBSET Seen] /\ since \in [Procs -> SUBSET Seen]

ReadsIn(p)  == At(p, "validate") \/ (At(p, "inside") /\ ReadsFirst(p))
WritesIn(p) == At(p, "recording") \/ (At(p, "inside") /\ ~ReadsFirst(p))

LockOK == /\ \A p \in Procs : /\ p \in readers <=> ReadsIn(p)
                              /\ p = writer <=> WritesIn(p)
          /\ writer # NoProc => readers = {}

\* A program at a call has one, and a bridge whose only call has not succeeded
\* goes on to its end.
ScriptOK(p) ==
    /\ place[p] \in {"call", "inside", "record", "recording"} => todo[p] # <<>>
    /\ At(p, "inside") => Call(p).op # "BAD"
    /\ place[p] \in {"record", "recording"} => Call(p).op = "GET"
    /\ prog[p] = "bridge" => Len(todo[p]) = 1
    /\ At(p, "idle") => code[p] = 0
    /\ prog[p] = "bridge" /\ code[p] # 0 => At(p, "close")

ProcOK == /\ todo \in [Procs -> Seq(Calls)] /\ code \in [Procs -> 0 .. 2]
          /\ \A p \in Procs : ScriptOK(p)

\* What a list of calls is after its first.
LEMMA ListFacts ==
  ASSUME NEW S, NEW s \in Seq(S)
  PROVE  /\ Len(s) \in Nat
         /\ s # <<>> => /\ Head(s) \in S /\ Tail(s) \in Seq(S) /\ Len(s) # 0
                        /\ Len(s) # 1 => Tail(s) # <<>>
         /\ Len(s) = 1 => s # <<>>
<1>1. Len(s) \in Nat /\ (s # <<>> => Head(s) \in S /\ Tail(s) \in Seq(S) /\ Len(s) # 0)
  OBVIOUS
<1>2. Len(s) = 1 => s # <<>>
  OBVIOUS
<1>3. ASSUME s # <<>>, Len(s) # 1 PROVE Tail(s) # <<>>
  <2>1. Len(Tail(s)) = Len(s) - 1 /\ Len(s) - 1 # 0 /\ Len(<<>>) = 0
    BY <1>1, <1>3
  <2> QED
    BY <2>1
<1> QED
  BY <1>1, <1>2, <1>3

\* What a call is made of.
LEMMA CallFacts ==
  ASSUME NEW c \in Calls
  PROVE  /\ c.op \in {"GET", "PUT", "UPDATE", "DELETE", "LOOK", "BAD"}
         /\ c.op \in {"GET", "PUT", "UPDATE", "DELETE"} => c.key \in Keys
         /\ c.op = "PUT" => c.value \in Values /\ c.ttl \in Ttls /\ c.ttl \in Nat
         /\ c.op = "UPDATE" => c.value \in Values
<1>1. CASE c \in {Look, Bad}
  BY <1>1 DEF Look, Bad
<1>2. CASE \E k \in Keys : c = Get(k) \/ c = Delete(k)
  BY <1>2 DEF Get, Delete
<1>3. CASE \E k \in Keys, v \in Values : c = Update(k, v)
  BY <1>3 DEF Update
<1>4. CASE \E k \in Keys, v \in Values, t \in Ttls : c = Put(k, v, t)
  BY <1>4, CallsAssumption DEF Put
<1> QED
  BY <1>1, <1>2, <1>3, <1>4 DEF Calls

-----------------------------------------------------------------------------
\* What a step of p leaves of the others, and of the lock.

Local(p) == \A q \in Procs \ {p} : /\ place'[q] = place[q] /\ prog'[q] = prog[q]
                                   /\ todo'[q] = todo[q] /\ code'[q] = code[q]

\* A program that has ended has nothing left to do.
LEMMA ExitProc ==
  ASSUME TypeInv, ProcOK, NEW p \in Procs, Exit(p)
  PROVE  ProcOK' /\ Local(p) /\ place'[p] = "idle"
<1>1. /\ place'[p] = "idle" /\ prog'[p] = "none" /\ todo'[p] = <<>> /\ code'[p] = 0
      /\ todo' \in [Procs -> Seq(Calls)] /\ code' \in [Procs -> 0 .. 2]
  BY DEF Exit, Goto, TypeInv, ProcOK
<1>2. Local(p)
  BY DEF Exit, Goto, TypeInv, ProcOK, Local
<1>3. ScriptOK(p)'
  BY <1>1 DEF ScriptOK, At
<1>4. \A q \in Procs \ {p} : ScriptOK(q)'
  BY <1>2 DEF ProcOK, ScriptOK, Local, At, Call
<1> QED
  BY <1>1, <1>2, <1>3, <1>4 DEF ProcOK

\* A program that goes on to l keeps its script.
LEMMA GotoProc ==
  ASSUME TypeInv, ProcOK, NEW p \in Procs, NEW l \in Places \ {"idle"}, Goto(p, l),
         prog' = prog, todo' = todo, code' = code,
         ~At(p, "idle"), At(p, "close") => prog[p] # "bridge",
         l \in {"call", "inside", "record", "recording"} => todo[p] # <<>>,
         l = "inside" => Call(p).op # "BAD",
         l \in {"record", "recording"} => Call(p).op = "GET"
  PROVE  ProcOK' /\ Local(p) /\ place'[p] = l
<1>1. /\ place'[p] = l /\ prog'[p] = prog[p] /\ todo'[p] = todo[p] /\ code'[p] = code[p]
      /\ todo' \in [Procs -> Seq(Calls)] /\ code' \in [Procs -> 0 .. 2]
  BY DEF Goto, TypeInv, ProcOK
<1>2. Local(p)
  BY DEF Goto, TypeInv, ProcOK, Local
<1>3. ScriptOK(p)'
  BY <1>1 DEF ScriptOK, ProcOK, At, Call
<1>4. \A q \in Procs \ {p} : ScriptOK(q)'
  BY <1>2 DEF ProcOK, ScriptOK, Local, At, Call
<1> QED
  BY <1>1, <1>2, <1>3, <1>4 DEF ProcOK

\* A program that ends a call goes on to the next, or closes; a bridge closes.
LEMMA NextProc ==
  ASSUME TypeInv, ProcOK, NEW p \in Procs, NextCall(p), prog' = prog,
         place[p] \in {"call", "inside", "record", "recording"},
         NEW c \in 0 .. 2, code' = code \/ code' = [code EXCEPT ![p] = c]
  PROVE  /\ ProcOK' /\ Local(p) /\ place'[p] \in {"call", "close"}
         /\ prog[p] = "bridge" => place'[p] = "close" /\ todo'[p] = todo[p]
<1>1. todo[p] # <<>> /\ todo[p] \in Seq(Calls) /\ (prog[p] = "bridge" => Len(todo[p]) = 1)
  BY DEF ProcOK, ScriptOK
<1>2. Tail(todo[p]) \in Seq(Calls) /\ (Len(todo[p]) # 1 => Tail(todo[p]) # <<>>)
  BY <1>1, ListFacts
<1>3. /\ todo' \in [Procs -> Seq(Calls)] /\ code' \in [Procs -> 0 .. 2]
      /\ place'[p] = (IF Len(todo[p]) = 1 THEN "close" ELSE "call")
      /\ prog'[p] = prog[p]
  BY <1>2 DEF NextCall, Goto, TypeInv, ProcOK
<1>4. todo'[p] = (IF prog[p] = "bridge" THEN todo[p] ELSE Tail(todo[p]))
  BY DEF NextCall, ProcOK
<1>5. Local(p)
  BY DEF NextCall, Goto, TypeInv, ProcOK, Local
<1>6. ScriptOK(p)'
  BY <1>1, <1>2, <1>3, <1>4 DEF ScriptOK, At
<1>7. \A q \in Procs \ {p} : ScriptOK(q)'
  BY <1>5 DEF ProcOK, ScriptOK, Local, At, Call
<1> QED
  BY <1>1, <1>3, <1>4, <1>5, <1>6, <1>7 DEF ProcOK

\* When p is the only one to move, only its own place at the lock can change.
LEMMA LockFrame ==
  ASSUME LockOK, NEW p \in Procs, Local(p),
         \A q \in Procs \ {p} : (q \in readers' <=> q \in readers) /\ (q = writer' <=> q = writer),
         p \in readers' <=> ReadsIn(p)', p = writer' <=> WritesIn(p)',
         writer' # NoProc => readers' = {}
  PROVE  LockOK'
<1>1. \A q \in Procs \ {p} : (ReadsIn(q)' <=> ReadsIn(q)) /\ (WritesIn(q)' <=> WritesIn(q))
  BY DEF Local, ReadsIn, WritesIn, ReadsFirst, At, Call
<1>2. \A q \in Procs \ {p} : (q \in readers <=> ReadsIn(q)) /\ (q = writer <=> WritesIn(q))
  BY DEF LockOK
<1> QED
  BY <1>1, <1>2 DEF LockOK

\* A function on 1 .. n is a sequence.
LEMMA ListOf ==
  ASSUME NEW S, NEW n \in Nat, NEW f, f \in [1 .. n -> S]
  PROVE  f \in Seq(S) /\ Len(f) = n
  OBVIOUS

\* The place in keys[] of the i-th call of the writer.
LEMMA Half ==
  ASSUME NEW n \in Nat, NEW i \in 1 .. 2 * n, i % 2 = 1
  PROVE  (i + 1) \div 2 \in 1 .. n
  OBVIOUS

\* The place in keys[] of the i-th call of the reader.
LEMMA Rest ==
  ASSUME NEW n \in Nat, NEW i \in Nat \ {0}
  PROVE  ((i - 1) % (n + 1)) + 1 \in 1 .. n + 1
  OBVIOUS

\* The programs' scripts are made of calls.
LEMMA ScriptCalls ==
  ASSUME NEW g \in Alone \cup Others, NEW s \in Scripts(g)
  PROVE  s \in Seq(Calls) /\ (g = "bridge" => Len(s) = 1)
<1> DEFINE n == Len(WriterKeys)
<1>1. /\ n \in Nat /\ \A i \in 1 .. n : WriterKeys[i] \in Keys
      /\ \A i \in 1 .. 3 : DemoKeys[i] \in Keys
      /\ ScriptValue \in Values /\ Ticks \in Nat /\ {0, 2} \subseteq Ttls
  BY KeysAssumption, BoundsAssumption DEF Ttls
<1>2. /\ Look \in Calls /\ \A k \in Keys : Get(k) \in Calls /\ Delete(k) \in Calls
      /\ \A k \in Keys : Put(k, ScriptValue, 0) \in Calls /\ Put(k, ScriptValue, 2) \in Calls
  BY <1>1 DEF Calls
<1>3. CASE g = "writer"
  <2>1. WriterScript \in [1 .. 2 * n -> Calls]
    BY <1>1, <1>2, Half DEF WriterScript
  <2>2. 2 * n \in Nat
    BY <1>1
  <2>3. s = WriterScript
    BY <1>3 DEF Scripts
  <2> QED
    BY <1>3, <2>1, <2>2, <2>3, ListOf
<1>4. CASE g = "reader"
  <2>1. Ticks * (n + 1) \in Nat
    BY <1>1
  <2>2. ASSUME NEW i \in 1 .. Ticks * (n + 1)
        PROVE  ReaderScript[i] \in Calls
    <3>1. i \in Nat \ {0}
      BY <2>1
    <3> DEFINE j == ((i - 1) % (n + 1)) + 1
    <3>2. j \in 1 .. n + 1
      BY <1>1, <3>1, Rest
    <3>3. ReaderScript[i] = (IF j <= n THEN Get(WriterKeys[j]) ELSE Look)
      BY DEF ReaderScript
    <3>4. j <= n => WriterKeys[j] \in Keys
      <4> HIDE DEF n, j
      <4> QED
        BY <1>1, <3>2
    <3> QED
      BY <1>2, <3>3, <3>4
  <2>3. ReaderScript \in [1 .. Ticks * (n + 1) -> Calls]
    BY <2>2 DEF ReaderScript
  <2>4. s = ReaderScript
    BY <1>4 DEF Scripts
  <2> QED
    BY <1>4, <2>1, <2>3, <2>4, ListOf
<1>5. CASE g = "demo"
  <2>1. s = DemoScript
    BY <1>5 DEF Scripts
  <2> QED
    BY <1>1, <1>2, <1>5, <2>1 DEF DemoScript
<1>6. CASE g = "bridge"
  <2>1. PICK c \in BridgeCalls : s = <<c>>
    BY <1>6 DEF Scripts
  <2> QED
    BY <2>1, CallsAssumption
<1>7. CASE g \in {"init", "cleanup"}
  <2>1. s = <<>>
    BY <1>7 DEF Scripts
  <2> QED
    BY <1>7, <2>1
<1> QED
  BY <1>3, <1>4, <1>5, <1>6, <1>7 DEF Alone, Others

-----------------------------------------------------------------------------
\* What the outcomes tell.

\* A bridge whose call has succeeded, and who has not said so yet.
Done(p, k) == prog[p] = "bridge" /\ At(p, "close") /\ code[p] = 0 /\ Writes(p, k)

\* What a call that has taken effect leaves, whatever was there before.
Sure(c) == IF c.op = "DELETE" THEN {Absent}
           ELSE {c.value} \cup (IF c.op = "PUT" /\ c.ttl > 0 THEN {Absent} ELSE {})

\* What is under k, now or later.
Left(k) == IF store[k] = Absent THEN {Absent}
           ELSE {store[k].value} \cup (IF store[k].ttl > 0 THEN {Absent} ELSE {})

DoneBy(k, x, S) == \E q \in S : Done(q, k) /\ x \in Sure(Call(q))

\* Somebody has said that he left what is under k, or is about to say so; and
\* whoever is about to speak will not deny the others.
KeyInv(k) ==
    \A x \in Left(k) :
        /\ x \in possible[k] \/ DoneBy(k, x, Procs)
        /\ \A p \in Procs : Done(p, k) => \/ x \in since[p] \cup Outcomes(Call(p))
                                          \/ DoneBy(k, x, Procs \ {p})

OutcomeInv == \A k \in Keys : KeyInv(k)

\* While nobody is at a call on a key, what is under it has been told.
LEMMA ToldIsTrue == OutcomeInv => OutcomesTell
<1> SUFFICES ASSUME OutcomeInv, NEW k \in Keys, ~ \E p \in Procs : Writes(p, k)
             PROVE  (IF store[k] = Absent THEN Absent ELSE store[k].value) \in possible[k]
  BY DEF OutcomesTell
<1>1. (IF store[k] = Absent THEN Absent ELSE store[k].value) \in Left(k)
  BY DEF Left
<1>2. \A x : ~DoneBy(k, x, Procs)
  BY DEF DoneBy, Done
<1> QED
  BY <1>1, <1>2 DEF OutcomeInv, KeyInv

\* What a writing call leaves: for an update also nothing, if it may have expired.
LEMMA OutcomesAre ==
  ASSUME NEW p \in Procs, NEW k \in Keys, Writes(p, k)
  PROVE  /\ Outcomes(Call(p)) = Sure(Call(p)) \cup
                (IF Call(p).op = "UPDATE" THEN possible[k] \cap {Absent} ELSE {})
         /\ Call(p).key = k
<1>1. Call(p).op \in {"PUT", "UPDATE", "DELETE"} /\ Call(p).key = k
  BY DEF Writes
<1>2. CASE Call(p).op = "PUT"
  BY <1>1, <1>2 DEF Outcomes, Sure
<1>3. CASE Call(p).op = "UPDATE"
  BY <1>1, <1>3 DEF Outcomes, Sure
<1>4. CASE Call(p).op = "DELETE"
  BY <1>1, <1>4 DEF Outcomes, Sure
<1> QED
  BY <1>1, <1>2, <1>3, <1>4

\* The same of the next state.
LEMMA OutcomesWillBe ==
  ASSUME NEW p \in Procs, NEW k \in Keys, Writes(p, k)'
  PROVE  /\ Outcomes(Call(p))' = Sure(Call(p))' \cup
                (IF Call(p)'.op = "UPDATE" THEN possible'[k] \cap {Absent} ELSE {})
         /\ Call(p)'.key = k
<1>1. Call(p)'.op \in {"PUT", "UPDATE", "DELETE"} /\ Call(p)'.key = k
  BY DEF Writes, Call
<1>2. CASE Call(p)'.op = "PUT"
  BY <1>1, <1>2 DEF Outcomes, Sure, Call
<1>3. CASE Call(p)'.op = "UPDATE"
  BY <1>1, <1>3 DEF Outcomes, Sure, Call
<1>4. CASE Call(p)'.op = "DELETE"
  BY <1>1, <1>4 DEF Outcomes, Sure, Call
<1> QED
  BY <1>1, <1>2, <1>3, <1>4

\* A step of p after which p has nothing to say of k.
Silent(p, k) == Local(p) /\ ~Done(p, k)'

\* What the others have to say is as before.
LEMMA OthersStay ==
  ASSUME NEW p \in Procs, NEW k \in Keys, Local(p)
  PROVE  \A q \in Procs \ {p} : /\ Done(q, k)' <=> Done(q, k)
                                /\ Writes(q, k)' <=> Writes(q, k)
                                /\ Call(q)' = Call(q) /\ Sure(Call(q))' = Sure(Call(q))
BY DEF Local, Done, Writes, At, Call, Sure

\* Nothing new is under k, and if p has left it, that is said now.
LEMMA KeyFades ==
  ASSUME NEW p \in Procs, NEW k \in Keys, KeyInv(k), Silent(p, k), Left(k)' \subseteq Left(k),
         possible[k] \subseteq possible'[k],
         \A q \in Procs \ {p} : since[q] \subseteq since'[q],
         Done(p, k) => /\ Sure(Call(p)) \subseteq possible'[k]
                       /\ \A q \in Procs \ {p} : Done(q, k) => Sure(Call(p)) \subseteq since'[q]
  PROVE  KeyInv(k)'
<1>1. ~Done(p, k)'
  BY DEF Silent
<1>2. \A q \in Procs \ {p} : /\ Done(q, k)' <=> Done(q, k)
                             /\ Writes(q, k)' <=> Writes(q, k)
                             /\ Call(q)' = Call(q) /\ Sure(Call(q))' = Sure(Call(q))
  BY OthersStay DEF Silent
<1>3. ASSUME NEW x \in Left(k)'
      PROVE  x \in possible'[k] \/ DoneBy(k, x, Procs)'
  <2>1. x \in possible[k] \/ DoneBy(k, x, Procs)
    BY <1>3 DEF KeyInv
  <2> QED
    BY <1>2, <2>1 DEF DoneBy
<1>4. ASSUME NEW x \in Left(k)', NEW q \in Procs, Done(q, k)'
      PROVE  x \in since'[q] \cup Outcomes(Call(q))' \/ DoneBy(k, x, Procs \ {q})'
  <2>1. q # p /\ Done(q, k) /\ Writes(q, k) /\ Writes(q, k)'
    BY <1>1, <1>2, <1>4 DEF Done
  <2>2. x \in since[q] \cup Outcomes(Call(q)) \/ DoneBy(k, x, Procs \ {q})
    BY <1>4, <2>1 DEF KeyInv
  <2>3. Outcomes(Call(q)) \subseteq Outcomes(Call(q))'
    <3>1. Outcomes(Call(q)) = Sure(Call(q)) \cup
                (IF Call(q).op = "UPDATE" THEN possible[k] \cap {Absent} ELSE {})
      BY <2>1, OutcomesAre
    <3>2. Outcomes(Call(q))' = Sure(Call(q))' \cup
                (IF Call(q)'.op = "UPDATE" THEN possible'[k] \cap {Absent} ELSE {})
      BY <2>1, OutcomesWillBe
    <3> QED
      BY <1>2, <2>1, <3>1, <3>2
  <2>4. since[q] \subseteq since'[q]
    BY <2>1
  <2>5. CASE DoneBy(k, x, Procs \ {q})
    <3>1. PICK r \in Procs \ {q} : Done(r, k) /\ x \in Sure(Call(r))
      BY <2>5 DEF DoneBy
    <3>2. CASE r = p
      BY <2>1, <3>1, <3>2
    <3>3. CASE r # p
      BY <1>2, <3>1, <3>3 DEF DoneBy
    <3> QED
      BY <3>2, <3>3
  <2> QED
    BY <2>2, <2>3, <2>4, <2>5
<1> QED
  BY <1>3, <1>4 DEF KeyInv

\* What p's call has left under k, or somebody else is about to say of himself.
Told(p, k) == \A x \in Left(k)' : x \in since[p] \cup Outcomes(Call(p)) \/ DoneBy(k, x, Procs \ {p})

\* p says that its call on k has taken effect.
LEMMA KeyTold ==
  ASSUME HistOK, NEW p \in Procs, NEW k \in Keys, Silent(p, k), Writes(p, k), ReportDone(p),
         Told(p, k)
  PROVE  KeyInv(k)'
<1>1. ~Done(p, k)' /\ Call(p).key = k
  BY DEF Silent, Writes
<1>2. \A q \in Procs \ {p} : /\ Done(q, k)' <=> Done(q, k)
                             /\ Writes(q, k)' <=> Writes(q, k)
                             /\ Call(q)' = Call(q) /\ Sure(Call(q))' = Sure(Call(q))
  BY OthersStay DEF Silent
<1>3. possible'[k] = Outcomes(Call(p)) \cup since[p]
  BY <1>1 DEF ReportDone, HistOK
<1>4. \A q \in Procs \ {p} :
          Writes(q, k) => since'[q] = since[q] \cup (Outcomes(Call(p)) \cup since[p])
  BY <1>1 DEF ReportDone, Overlapping
<1>5. ASSUME NEW x \in Left(k)'
      PROVE  x \in possible'[k] \/ DoneBy(k, x, Procs)'
  <2>1. x \in since[p] \cup Outcomes(Call(p)) \/ DoneBy(k, x, Procs \ {p})
    BY <1>5 DEF Told
  <2> QED
    BY <1>2, <1>3, <2>1 DEF DoneBy
<1>6. ASSUME NEW x \in Left(k)', NEW q \in Procs, Done(q, k)'
      PROVE  x \in since'[q] \cup Outcomes(Call(q))' \/ DoneBy(k, x, Procs \ {q})'
  <2>1. q # p /\ Done(q, k) /\ Writes(q, k) /\ Writes(q, k)'
    BY <1>1, <1>2, <1>6 DEF Done
  <2>2. CASE x \in since[p] \cup Outcomes(Call(p))
    BY <1>4, <2>1, <2>2
  <2>3. CASE DoneBy(k, x, Procs \ {p})
    <3>1. PICK r \in Procs \ {p} : Done(r, k) /\ x \in Sure(Call(r))
      BY <2>3 DEF DoneBy
    <3>2. CASE r = q
      BY <1>2, <2>1, <3>1, <3>2, OutcomesWillBe
    <3>3. CASE r # q
      BY <1>2, <3>1, <3>3 DEF DoneBy
    <3> QED
      BY <3>2, <3>3
  <2> QED
    BY <1>5, <2>2, <2>3, <1>6 DEF Told
<1> QED
  BY <1>5, <1>6 DEF KeyInv

\* A bridge's call on k has taken effect.
LEMMA KeyDone ==
  ASSUME NEW p \in Procs, NEW k \in Keys, KeyInv(k), Local(p), UNCHANGED historyVars,
         Done(p, k)', ~Done(p, k),
         \A x \in Left(k)' : \/ x \in Sure(Call(p))'
                             \/ Call(p)'.op = "UPDATE" /\ x = Absent /\ x \in Left(k)
  PROVE  KeyInv(k)'
<1>1. Writes(p, k)' /\ possible' = possible /\ since' = since
  BY DEF Done, historyVars
<1>2. \A q \in Procs \ {p} : /\ Done(q, k)' <=> Done(q, k)
                             /\ Writes(q, k)' <=> Writes(q, k)
                             /\ Call(q)' = Call(q) /\ Sure(Call(q))' = Sure(Call(q))
  BY OthersStay
<1>3. Outcomes(Call(p))' = Sure(Call(p))' \cup
          (IF Call(p)'.op = "UPDATE" THEN possible[k] \cap {Absent} ELSE {})
  BY <1>1, OutcomesWillBe
<1>4. \A x : DoneBy(k, x, Procs) => DoneBy(k, x, Procs \ {p})'
  BY <1>2 DEF DoneBy
<1>5. ASSUME NEW x \in Left(k)'
      PROVE  x \in possible'[k] \/ DoneBy(k, x, Procs)'
  <2>1. CASE x \in Sure(Call(p))'
    BY <2>1 DEF DoneBy
  <2>2. CASE x \in Left(k)
    BY <1>1, <1>4, <2>2 DEF KeyInv, DoneBy
  <2> QED
    BY <1>5, <2>1, <2>2
<1>6. ASSUME NEW x \in Left(k)'
      PROVE  x \in since'[p] \cup Outcomes(Call(p))' \/ DoneBy(k, x, Procs \ {p})'
  <2>1. CASE x \in Sure(Call(p))'
    BY <1>3, <2>1
  <2>2. CASE Call(p)'.op = "UPDATE" /\ x = Absent /\ x \in Left(k)
    <3>1. x \in possible[k] \/ DoneBy(k, x, Procs)
      BY <2>2 DEF KeyInv
    <3> QED
      BY <1>3, <1>4, <2>2, <3>1
  <2> QED
    BY <1>6, <2>1, <2>2
<1>7. ASSUME NEW x \in Left(k)', NEW q \in Procs \ {p}, Done(q, k)'
      PROVE  x \in since'[q] \cup Outcomes(Call(q))' \/ DoneBy(k, x, Procs \ {q})'
  <2>1. CASE x \in Sure(Call(p))'
    BY <2>1, <1>7 DEF DoneBy
  <2>2. CASE x \in Left(k)
    <3>1. Done(q, k) /\ Writes(q, k) /\ Writes(q, k)'
      BY <1>2, <1>7 DEF Done
    <3>2. x \in since[q] \cup Outcomes(Call(q)) \/ DoneBy(k, x, Procs \ {q})
      BY <2>2, <3>1 DEF KeyInv
    <3>3. Outcomes(Call(q))' = Outcomes(Call(q))
      <4>1. Outcomes(Call(q)) = Sure(Call(q)) \cup
                (IF Call(q).op = "UPDATE" THEN possible[k] \cap {Absent} ELSE {})
        BY <3>1, OutcomesAre
      <4>2. Outcomes(Call(q))' = Sure(Call(q))' \cup
                (IF Call(q)'.op = "UPDATE" THEN possible'[k] \cap {Absent} ELSE {})
        BY <3>1, OutcomesWillBe
      <4> QED
        BY <1>1, <1>2, <4>1, <4>2
    <3>4. ASSUME DoneBy(k, x, Procs \ {q})
          PROVE  DoneBy(k, x, Procs \ {q})'
      <4>1. PICK r \in Procs \ {q} : Done(r, k) /\ x \in Sure(Call(r))
        BY <3>4 DEF DoneBy
      <4>2. r # p /\ Done(r, k)' /\ x \in Sure(Call(r))'
        BY <1>2, <4>1
      <4> QED
        BY <4>1, <4>2 DEF DoneBy
    <3> QED
      BY <1>1, <3>2, <3>3, <3>4
  <2> QED
    BY <1>7, <2>1, <2>2
<1> QED
  BY <1>5, <1>6, <1>7 DEF KeyInv

-----------------------------------------------------------------------------
\* What is reported is about values.

\* A call leaves a value or nothing.
LEMMA OutcomesTyped ==
  ASSUME HistOK, ProcOK, NEW p \in Procs, NEW k \in Keys, Writes(p, k)
  PROVE  Outcomes(Call(p)) \subseteq Seen
<1>1. Call(p) \in Calls
  BY ListFacts DEF ProcOK, Writes, Call
<1>2. Call(p).op \in {"PUT", "UPDATE", "DELETE"}
  BY DEF Writes
<1>3. Sure(Call(p)) \subseteq Seen
  BY <1>1, <1>2, CallFacts DEF Sure, Seen
<1> QED
  BY <1>3, OutcomesAre DEF Seen

\* So do all that are reported.
LEMMA ReportTyped ==
  ASSUME HistOK, ProcOK, NEW p \in Procs,
         \/ ReportDone(p) /\ \E k \in Keys : Writes(p, k)
         \/ ReportUnknown(p) \/ NothingToReport(p) \/ UNCHANGED historyVars
  PROVE  HistOK'
<1>1. CASE ReportDone(p) /\ \E k \in Keys : Writes(p, k)
  <2>1. PICK k \in Keys : Writes(p, k)
    BY <1>1
  <2>2. Outcomes(Call(p)) \subseteq Seen /\ Call(p).key = k
    BY <2>1, OutcomesTyped DEF Writes
  <2>3. Outcomes(Call(p)) \cup since[p] \subseteq Seen
    BY <2>2 DEF HistOK
  <2> QED
    BY <1>1, <2>2, <2>3 DEF ReportDone, Overlapping, HistOK
<1>2. CASE ReportUnknown(p) /\ \E k \in Keys : Writes(p, k)
  <2>1. PICK k \in Keys : Writes(p, k)
    BY <1>2
  <2>2. Outcomes(Call(p)) \subseteq Seen /\ Call(p).key = k
    BY <2>1, OutcomesTyped DEF Writes
  <2> QED
    BY <1>2, <2>2 DEF ReportUnknown, Overlapping, HistOK
<1>3. CASE ReportUnknown(p) /\ ~ \E k \in Keys : Writes(p, k)
  BY <1>3 DEF ReportUnknown, HistOK
<1>4. CASE NothingToReport(p) \/ UNCHANGED historyVars
  BY <1>4 DEF NothingToReport, historyVars, HistOK
<1> QED
  BY <1>1, <1>2, <1>3, <1>4

-----------------------------------------------------------------------------
\* What every step keeps.

Inv  == ContractInv /\ EnvOK /\ StoreOK /\ HistOK /\ LockOK /\ ProcOK /\ OutcomeInv
Kept == EnvOK' /\ StoreOK' /\ HistOK' /\ LockOK' /\ ProcOK' /\ OutcomeInv'

\* p says nothing, and has nothing to say.
Quiet(p) ==
    /\ UNCHANGED historyVars \/ NothingToReport(p)
    /\ \A k \in Keys : ~Done(p, k) /\ ~Done(p, k)' /\ Left(k)' \subseteq Left(k)

\* A quiet step keeps what the outcomes tell.
LEMMA QuietStep ==
  ASSUME Inv, NEW p \in Procs, ProcOK', Local(p), Quiet(p)
  PROVE  HistOK' /\ OutcomeInv'
<1>1. HistOK'
  BY ReportTyped DEF Inv, Quiet
<1>2. possible' = possible /\ \A q \in Procs \ {p} : since'[q] = since[q]
  BY DEF Quiet, NothingToReport, historyVars, Inv, HistOK
<1>3. ASSUME NEW k \in Keys PROVE KeyInv(k)'
  <2>1. KeyInv(k) /\ Silent(p, k) /\ ~Done(p, k) /\ Left(k)' \subseteq Left(k)
    BY DEF Inv, OutcomeInv, Silent, Quiet
  <2> QED
    BY <1>2, <2>1, KeyFades
<1> QED
  BY <1>1, <1>3 DEF OutcomeInv

\* What is under a key depends on the map alone.
LEMMA SameLeft ==
  ASSUME store' = store
  PROVE  \A k \in Keys : Left(k)' = Left(k)
  BY DEF Left

\* A program that is not at its close has nothing to say.
LEMMA NotDone ==
  ASSUME NEW p \in Procs, place[p] # "close" \/ prog[p] # "bridge",
         place'[p] # "close" \/ prog'[p] # "bridge"
  PROVE  \A k \in Keys : ~Done(p, k) /\ ~Done(p, k)'
  BY DEF Done, At

\* Away from the lock, nothing changes in it.
LEMMA LockSame ==
  ASSUME LockOK, NEW p \in Procs, Local(p), UNCHANGED lockVars,
         place[p] \notin {"validate", "inside", "recording"},
         place'[p] \notin {"validate", "inside", "recording"}
  PROVE  LockOK'
<1>1. ~ReadsIn(p) /\ ~WritesIn(p) /\ ~ReadsIn(p)' /\ ~WritesIn(p)'
  BY DEF ReadsIn, WritesIn, At
<1>2. writer' = writer /\ readers' = readers
  BY DEF lockVars
<1>3. p \notin readers /\ p # writer /\ (writer # NoProc => readers = {})
  BY <1>1 DEF LockOK
<1> QED
  BY <1>1, <1>2, <1>3, LockFrame

-----------------------------------------------------------------------------
\* Beginnings.

\* A program starts.
LEMMA StartKeeps ==
  ASSUME Inv, NEW p \in Procs, NEW g \in Alone \cup Others, Start(p, g)
  PROVE  Kept
<1> USE DEF Inv, ContractInv
<1>1. PICK s \in Scripts(g) : todo' = [todo EXCEPT ![p] = s]
  BY DEF Start
<1>2. s \in Seq(Calls) /\ (g = "bridge" => Len(s) = 1)
  BY ScriptCalls
<1>3. /\ At(p, "idle") /\ prog' = [prog EXCEPT ![p] = g] /\ Goto(p, Begin(g))
      /\ UNCHANGED <<regionVars, code, envVars, historyVars>>
  BY DEF Start
<1>4. Begin(g) \in {"create", "attach", "reset", "unlink"}
  BY DEF Begin, Alone, Others
<1>5. /\ place'[p] \in {"create", "attach", "reset", "unlink"} /\ prog'[p] = g
      /\ todo'[p] = s /\ code'[p] = code[p] /\ code[p] = 0
      /\ todo' \in [Procs -> Seq(Calls)] /\ code' \in [Procs -> 0 .. 2]
  <2>1. place'[p] = Begin(g) /\ prog'[p] = g
    BY <1>3 DEF Goto, TypeInv
  <2>2. todo'[p] = s /\ todo' \in [Procs -> Seq(Calls)]
    BY <1>1, <1>2 DEF ProcOK
  <2>3. code' = code /\ code[p] = 0
    BY <1>3 DEF ProcOK, ScriptOK
  <2> QED
    BY <1>4, <2>1, <2>2, <2>3 DEF ProcOK
<1>6. Local(p)
  BY <1>1, <1>3 DEF Goto, TypeInv, ProcOK, Local
<1>7. ScriptOK(p)'
  BY <1>2, <1>5 DEF ScriptOK, At
<1>8. ASSUME NEW q \in Procs \ {p} PROVE ScriptOK(q)'
  <2>1. ScriptOK(q)
    BY DEF ProcOK
  <2>2. /\ place'[q] = place[q] /\ prog'[q] = prog[q]
        /\ todo'[q] = todo[q] /\ code'[q] = code[q]
    BY <1>6 DEF Local
  <2> QED
    BY <2>1, <2>2 DEF ScriptOK, At, Call
<1>9. ProcOK'
  BY <1>5, <1>7, <1>8 DEF ProcOK
<1>10. LockOK'
  BY <1>3, <1>5, <1>6, LockSame DEF At, regionVars, lockVars
<1>11. Quiet(p)
  BY <1>3, <1>5, NotDone, SameLeft DEF Quiet, At, regionVars
<1> QED
  BY <1>3, <1>6, <1>9, <1>10, <1>11, QuietStep DEF Kept, EnvOK, StoreOK, envVars, regionVars

-----------------------------------------------------------------------------
\* Ends in trouble.

\* A program cannot open the cache, or cannot unlink it.
LEMMA TroubleKeeps ==
  ASSUME Inv, NEW p \in Procs,
         \/ PublishFails(p) \/ AttachFails(p) \/ UnlinkFails(p)
         \/ Attach(p) /\ OpenFails(p)
  PROVE  Kept
<1> USE DEF Inv, ContractInv
<1>1. /\ place[p] \in {"publish", "attach", "unlink", "reset"} /\ Exit(p)
      /\ UNCHANGED <<store, writer, readers, kills>>
      /\ alarm' \in {alarm, "raised"}
      /\ faults' = faults \/ Fault
      /\ NothingToReport(p) \/ UNCHANGED historyVars
  <2>1. CASE PublishFails(p)
    BY <2>1 DEF PublishFails, OpenFails, At, lockVars
  <2>2. CASE AttachFails(p)
    BY <2>2 DEF AttachFails, OpenFails, At, regionVars
  <2>3. CASE UnlinkFails(p)
    BY <2>3 DEF UnlinkFails, regionVars
  <2>4. CASE Attach(p) /\ OpenFails(p)
    <3>1. readers' = readers
      <4>1. CASE readers' = readers \cup {p} /\ Goto(p, "validate")
        BY <2>4, <4>1 DEF OpenFails, Exit, Goto, TypeInv
      <4> QED
        BY <2>4, <4>1 DEF Attach
    <3> QED
      BY <2>4, <3>1 DEF Attach, OpenFails, At
  <2> QED
    BY <2>1, <2>2, <2>3, <2>4
<1>2. ProcOK' /\ Local(p) /\ place'[p] = "idle"
  BY <1>1, ExitProc
<1>3. LockOK'
  BY <1>1, <1>2, LockSame DEF lockVars
<1>4. Quiet(p)
  BY <1>1, <1>2, NotDone, SameLeft DEF Quiet
<1>5. EnvOK'
  <2>1. faults' = faults \/ (faults' = faults + 1 /\ faults < MaxFaults)
    BY <1>1 DEF Fault
  <2> QED
    BY <1>1, <2>1, BoundsAssumption DEF EnvOK
<1> QED
  BY <1>1, <1>2, <1>3, <1>4, <1>5, QuietStep DEF Kept, StoreOK

-----------------------------------------------------------------------------
\* Opening the cache, and going in and out of the lock.

\* A program that goes on to l, and changes at most the region's life and its lock.
GoesTo(p, l) ==
    /\ Goto(p, l)
    /\ UNCHANGED <<store, prog, todo, code, envVars, historyVars>>

\* Going on keeps everything if it keeps the lock.
LEMMA GoKeeps ==
  ASSUME Inv, NEW p \in Procs, NEW l \in Places \ {"idle"}, GoesTo(p, l),
         ~At(p, "idle"), ~At(p, "close"),
         l = "close" => todo[p] = <<>>,
         l \in {"call", "inside", "record", "recording"} => todo[p] # <<>>,
         l = "inside" => Call(p).op # "BAD",
         l \in {"record", "recording"} => Call(p).op = "GET",
         ProcOK' /\ Local(p) /\ place'[p] = l => LockOK'
  PROVE  Kept
<1> USE DEF Inv, ContractInv
<1>1. ProcOK' /\ Local(p) /\ place'[p] = l
  BY GotoProc DEF GoesTo
<1>2. todo'[p] = todo[p]
  BY DEF GoesTo
<1>3. \A k \in Keys : ~Done(p, k) /\ ~Done(p, k)'
  BY <1>1, <1>2 DEF Done, At, Writes
<1>4. Quiet(p)
  BY <1>3, SameLeft DEF Quiet, GoesTo
<1> QED
  BY <1>1, <1>4, QuietStep DEF Kept, GoesTo, EnvOK, envVars, StoreOK

\* The region is created and published.
LEMMA OpeningKeeps ==
  ASSUME Inv, NEW p \in Procs, Create(p) \/ Publish(p)
  PROVE  Kept
<1> USE DEF Inv, ContractInv
<1>1. PICK l \in {"publish", "attach", "call", "close"} :
          /\ GoesTo(p, l) /\ UNCHANGED lockVars
          /\ l = "call" => todo[p] # <<>>
          /\ l = "close" => todo[p] = <<>>
  BY DEF Create, Publish, Opened, GoesTo
<1>2. place[p] \in {"create", "publish"}
  BY DEF Create, Publish, At
<1>3. ASSUME ProcOK' /\ Local(p) /\ place'[p] = l
      PROVE  LockOK'
  BY <1>1, <1>2, <1>3, LockSame
<1> QED
  BY <1>1, <1>2, <1>3, GoKeeps DEF Places, At

\* An existing region is opened, its lock taken for reading ...
LEMMA AttachKeeps ==
  ASSUME Inv, NEW p \in Procs, Attach(p), ~OpenFails(p)
  PROVE  Kept
<1> USE DEF Inv, ContractInv
<1>1. /\ At(p, "attach") /\ writer = NoProc /\ readers' = readers \cup {p} /\ writer' = writer
      /\ GoesTo(p, "validate")
  BY DEF Attach, GoesTo, envVars
<1>2. ASSUME ProcOK' /\ Local(p) /\ place'[p] = "validate"
      PROVE  LockOK'
  <2>1. ReadsIn(p)' /\ ~WritesIn(p)' /\ p # NoProc
    BY <1>2, ProcsAssumption DEF ReadsIn, WritesIn, At
  <2> QED
    BY <1>1, <1>2, <2>1, LockFrame
<1> QED
  BY <1>1, <1>2, GoKeeps DEF Places, At

\* ... and given back once the header is validated.
LEMMA ValidateKeeps ==
  ASSUME Inv, NEW p \in Procs, Validate(p)
  PROVE  Kept
<1> USE DEF Inv, ContractInv
<1>1. PICK l \in {"call", "close"} :
          /\ GoesTo(p, l) /\ readers' = readers \ {p} /\ writer' = writer
          /\ l = "call" => todo[p] # <<>>
          /\ l = "close" => todo[p] = <<>>
  BY DEF Validate, Opened, GoesTo
<1>2. place[p] = "validate"
  BY DEF Validate, At
<1>3. ASSUME ProcOK' /\ Local(p) /\ place'[p] = l
      PROVE  LockOK'
  <2>1. ~ReadsIn(p)' /\ ~WritesIn(p)' /\ ~WritesIn(p)
    BY <1>1, <1>2, <1>3 DEF ReadsIn, WritesIn, At
  <2>2. p # writer /\ (writer # NoProc => readers = {})
    BY <2>1 DEF LockOK
  <2> QED
    BY <1>1, <1>3, <2>1, <2>2, LockFrame
<1> QED
  BY <1>1, <1>2, <1>3, GoKeeps DEF Places, At

\* A call takes the lock.
LEMMA EnterKeeps ==
  ASSUME Inv, NEW p \in Procs, Enter(p) \/ EnterRecord(p)
  PROVE  Kept
<1> USE DEF Inv, ContractInv
<1>1. PICK l \in {"inside", "recording"} :
          /\ GoesTo(p, l) /\ writer = NoProc
          /\ \/ l = "inside" /\ ReadsFirst(p) /\ readers' = readers \cup {p} /\ writer' = writer
             \/ /\ (l = "inside" /\ ~ReadsFirst(p)) \/ l = "recording"
                /\ readers = {} /\ readers' = readers /\ writer' = p
          /\ l = "inside" => At(p, "call") /\ Call(p).op # "BAD"
          /\ l = "recording" => At(p, "record")
  BY DEF Enter, EnterRecord, GoesTo
<1>2. /\ place[p] \in {"call", "record"} /\ todo[p] # <<>>
      /\ l = "recording" => Call(p).op = "GET"
  BY <1>1 DEF At, ProcOK, ScriptOK
<1>3. ASSUME ProcOK' /\ Local(p) /\ place'[p] = l
      PROVE  LockOK'
  <2>1. ReadsFirst(p)' <=> ReadsFirst(p)
    BY <1>1 DEF GoesTo, ReadsFirst, Call
  <2>2. p # NoProc /\ ~ReadsIn(p) /\ ~WritesIn(p)
    BY <1>2, ProcsAssumption DEF ReadsIn, WritesIn, At
  <2>3. p \notin readers /\ \A q \in Procs : q # writer
    BY <1>1, <2>2, ProcsAssumption DEF LockOK
  <2>4. CASE l = "inside" /\ ReadsFirst(p)
    <3>1. ReadsIn(p)' /\ ~WritesIn(p)'
      BY <1>3, <2>1, <2>4 DEF ReadsIn, WritesIn, At
    <3> QED
      BY <1>1, <1>3, <2>2, <2>4, <3>1, LockFrame
  <2>5. CASE (l = "inside" /\ ~ReadsFirst(p)) \/ l = "recording"
    <3>1. ~ReadsIn(p)' /\ WritesIn(p)'
      BY <1>3, <2>1, <2>5 DEF ReadsIn, WritesIn, At
    <3>2. readers = {} /\ readers' = readers /\ writer' = p
      BY <1>1, <2>5
    <3> QED
      BY <1>3, <2>3, <3>1, <3>2, LockFrame
  <2> QED
    BY <2>4, <2>5
<1> QED
  BY <1>1, <1>2, <1>3, GoKeeps DEF Places, At

\* A GET has read, and goes on to count itself.
LEMMA ReadGetKeeps ==
  ASSUME Inv, NEW p \in Procs, ReadInside(p), Call(p).op = "GET"
  PROVE  Kept
<1> USE DEF Inv, ContractInv
<1>1. /\ GoesTo(p, "record") /\ readers' = readers \ {p} /\ writer' = writer
      /\ place[p] = "inside" /\ ReadsFirst(p)
  BY DEF ReadInside, GoesTo, At
<1>2. todo[p] # <<>>
  BY <1>1 DEF ProcOK, ScriptOK
<1>3. ASSUME ProcOK' /\ Local(p) /\ place'[p] = "record"
      PROVE  LockOK'
  <2>1. ~ReadsIn(p)' /\ ~WritesIn(p)' /\ ~WritesIn(p)
    BY <1>1, <1>3 DEF ReadsIn, WritesIn, At
  <2>2. p # writer /\ (writer # NoProc => readers = {})
    BY <2>1 DEF LockOK
  <2> QED
    BY <1>1, <1>3, <2>1, <2>2, LockFrame
<1> QED
  BY <1>1, <1>2, <1>3, GoKeeps DEF Places, At

-----------------------------------------------------------------------------
\* Calls.

\* The header or the slots have been read.
LEMMA ReadAllKeeps ==
  ASSUME Inv, NEW p \in Procs, ReadInside(p), Call(p).op # "GET"
  PROVE  Kept
<1> USE DEF Inv, ContractInv
<1>1. /\ NextCall(p) /\ Report(p, FALSE) /\ readers' = readers \ {p}
      /\ UNCHANGED <<store, writer, prog, code, envVars>>
      /\ place[p] = "inside" /\ ReadsFirst(p)
  BY DEF ReadInside, At
<1>2. /\ ProcOK' /\ Local(p) /\ place'[p] \in {"call", "close"}
      /\ prog[p] = "bridge" => todo'[p] = todo[p]
  BY <1>1, NextProc
<1>3. LockOK'
  <2>1. ~ReadsIn(p)' /\ ~WritesIn(p)' /\ ~WritesIn(p)
    BY <1>1, <1>2 DEF ReadsIn, WritesIn, At
  <2>2. p # writer /\ (writer # NoProc => readers = {})
    BY <2>1 DEF LockOK
  <2> QED
    BY <1>1, <1>2, <2>1, <2>2, LockFrame
<1>4. \A k \in Keys : ~Done(p, k) /\ ~Done(p, k)'
  BY <1>1, <1>2 DEF Done, At, Writes, Call, ReadsFirst
<1>5. Quiet(p)
  BY <1>1, <1>4, SameLeft DEF Quiet, Report
<1> QED
  BY <1>1, <1>2, <1>3, <1>5, QuietStep DEF Kept, EnvOK, envVars, StoreOK

\* A GET counts itself, and removes an entry that has expired: it may have been told gone.
LEMMA RecordKeeps ==
  ASSUME Inv, NEW p \in Procs, Record(p)
  PROVE  Kept
<1> USE DEF Inv, ContractInv
<1>1. /\ NextCall(p) /\ Report(p, FALSE) /\ writer' = NoProc
      /\ UNCHANGED <<readers, prog, code, envVars>>
      /\ place[p] = "recording"
  BY DEF Record, At
<1>2. /\ ProcOK' /\ Local(p) /\ place'[p] \in {"call", "close"}
      /\ prog[p] = "bridge" => todo'[p] = todo[p]
  BY <1>1, NextProc
<1>3. Call(p).op = "GET" /\ Call(p) \in Calls
  BY <1>1, ListFacts DEF ProcOK, ScriptOK, Call
<1>4. LockOK'
  <2>1. ~ReadsIn(p)' /\ ~WritesIn(p)' /\ ~ReadsIn(p) /\ WritesIn(p)
    BY <1>1, <1>2 DEF ReadsIn, WritesIn, At
  <2>2. p = writer /\ readers = {} /\ \A q \in Procs : q # NoProc
    BY <2>1, ProcsAssumption DEF LockOK
  <2> QED
    BY <1>1, <1>2, <2>1, <2>2, LockFrame
<1>5. \A k \in Keys : ~Done(p, k) /\ ~Done(p, k)'
  BY <1>1, <1>2, <1>3 DEF Done, At, Writes, Call
<1>6. StoreOK' /\ \A k \in Keys : Left(k)' \subseteq Left(k)
  <2>1. CASE store' = store
    BY <2>1, SameLeft DEF StoreOK
  <2>2. CASE /\ Expirable(store[Call(p).key])
             /\ store' = [store EXCEPT ![Call(p).key] = Absent]
    <3>1. Call(p).key \in Keys
      BY <1>3, CallFacts
    <3>2. StoreOK'
      BY <2>2 DEF StoreOK
    <3>3. ASSUME NEW k \in Keys PROVE Left(k)' \subseteq Left(k)
      <4>1. CASE k = Call(p).key
        <5>1. store'[k] = Absent /\ store[k] # Absent /\ store[k].ttl > 0
          BY <2>2, <4>1 DEF StoreOK, Expirable
        <5> QED
          BY <5>1 DEF Left
      <4>2. CASE k # Call(p).key
        BY <2>2, <4>2 DEF StoreOK, Left
      <4> QED
        BY <4>1, <4>2
    <3> QED
      BY <3>2, <3>3
  <2> QED
    BY <2>1, <2>2 DEF Record
<1>7. Quiet(p)
  BY <1>1, <1>5, <1>6 DEF Quiet, Report
<1> QED
  BY <1>1, <1>2, <1>4, <1>6, <1>7, QuietStep DEF Kept, EnvOK, envVars

\* The bridge refuses a command.
LEMMA RefuseKeeps ==
  ASSUME Inv, NEW p \in Procs, Refuse(p)
  PROVE  Kept
<1> USE DEF Inv, ContractInv
<1>1. PICK c \in 1 .. 2 : code' = [code EXCEPT ![p] = c]
  BY DEF Refuse
<1>2. /\ NextCall(p) /\ UNCHANGED <<regionVars, prog, envVars, historyVars>>
      /\ place[p] = "call" /\ Call(p).op = "BAD"
  BY DEF Refuse, At
<1>3. /\ ProcOK' /\ Local(p) /\ place'[p] \in {"call", "close"}
      /\ prog[p] = "bridge" => todo'[p] = todo[p]
  <2>1. c \in 0 .. 2 /\ place[p] \in {"call", "inside", "record", "recording"} /\ prog' = prog
    BY <1>2
  <2> QED
    BY <1>1, <1>2, <2>1, NextProc
<1>4. LockOK'
  BY <1>2, <1>3, LockSame DEF regionVars, lockVars
<1>5. \A k \in Keys : ~Done(p, k) /\ ~Done(p, k)'
  BY <1>2, <1>3 DEF Done, At, Writes, Call
<1>6. Quiet(p)
  BY <1>2, <1>5, SameLeft DEF Quiet, regionVars
<1> QED
  BY <1>2, <1>3, <1>4, <1>6, QuietStep DEF Kept, EnvOK, envVars, StoreOK, regionVars

\* A call cannot have the lock: a bridge that would have written says so by its code.
LEMMA LockFailsKeeps ==
  ASSUME Inv, NEW p \in Procs, LockFails(p)
  PROVE  Kept
<1> USE DEF Inv, ContractInv
<1> DEFINE GivesUp == prog[p] = "writer" /\ Call(p).op = "LOOK"
<1>1. /\ place[p] \in {"call", "record"} /\ Report(p, FALSE)
      /\ UNCHANGED <<regionVars, prog, alarm, kills>>
      /\ faults < MaxFaults /\ faults' = faults + 1
  BY DEF LockFails, Fault, At
<1>2. EnvOK'
  BY <1>1, BoundsAssumption DEF EnvOK
<1>3. ProcOK' /\ Local(p) /\ place'[p] \in {"call", "close"} /\ \A k \in Keys : ~Done(p, k)'
  <2>1. CASE GivesUp
    <3>1. /\ Goto(p, "close") /\ todo' = [todo EXCEPT ![p] = <<>>]
          /\ code' = [code EXCEPT ![p] = 1]
      BY <2>1 DEF LockFails
    <3>2. /\ place'[p] = "close" /\ prog'[p] = "writer" /\ todo'[p] = <<>>
          /\ todo' \in [Procs -> Seq(Calls)] /\ code' \in [Procs -> 0 .. 2]
      BY <1>1, <2>1, <3>1 DEF Goto, TypeInv, ProcOK
    <3>3. Local(p)
      BY <1>1, <3>1 DEF Goto, TypeInv, ProcOK, Local
    <3>4. ScriptOK(p)'
      BY <3>2 DEF ScriptOK, At
    <3>5. \A q \in Procs \ {p} : ScriptOK(q)'
      BY <3>3 DEF ProcOK, ScriptOK, Local, At, Call
    <3> QED
      BY <3>2, <3>3, <3>4, <3>5 DEF ProcOK, Done
  <2>2. CASE ~GivesUp
    <3>1. /\ NextCall(p)
          /\ code' = IF prog[p] = "bridge" /\ Call(p).op # "GET"
                     THEN [code EXCEPT ![p] = 1] ELSE code
      BY <2>2 DEF LockFails
    <3>2. /\ ProcOK' /\ Local(p) /\ place'[p] \in {"call", "close"}
          /\ prog[p] = "bridge" => todo'[p] = todo[p]
      <4>1. /\ 1 \in 0 .. 2 /\ prog' = prog
            /\ code' = code \/ code' = [code EXCEPT ![p] = 1]
            /\ place[p] \in {"call", "inside", "record", "recording"}
        BY <1>1, <3>1
      <4> QED
        BY <3>1, <4>1, NextProc
    <3>3. prog'[p] = "bridge" /\ code'[p] = 0 => Call(p)'.op = "GET"
      BY <1>1, <3>1, <3>2 DEF Call, ProcOK
    <3> QED
      BY <3>2, <3>3 DEF Done, Writes
  <2> QED
    BY <2>1, <2>2
<1>4. LockOK'
  BY <1>1, <1>3, LockSame DEF regionVars, lockVars
<1>5. Quiet(p)
  BY <1>1, <1>3, SameLeft DEF Quiet, Report, regionVars, Done, At
<1> QED
  BY <1>1, <1>2, <1>3, <1>4, <1>5, QuietStep DEF Kept, StoreOK, regionVars

-----------------------------------------------------------------------------
\* Writing calls.

\* What a call does to what is under its key, and whether it has succeeded.
Effect(p, k, ok) ==
    /\ StoreOK' /\ \A j \in Keys \ {k} : Left(j)' = Left(j)
    /\ ok => \A x \in Left(k)' : \/ x \in Sure(Call(p))
                                 \/ Call(p).op = "UPDATE" /\ x = Absent /\ x \in Left(k)
    /\ ~ok => Left(k)' \subseteq Left(k)
    /\ code' = IF prog[p] = "bridge" /\ ~ok THEN [code EXCEPT ![p] = 1] ELSE code
    /\ Report(p, ok)

\* Every writing call has such an effect.
LEMMA WriteEffect ==
  ASSUME Inv, NEW p \in Procs, WriteInside(p)
  PROVE  \E k \in Keys, ok \in BOOLEAN : Writes(p, k) /\ Effect(p, k, ok)
<1> USE DEF Inv
<1>1. /\ place[p] = "inside" /\ todo[p] # <<>> /\ Call(p) \in Calls
      /\ Call(p).op \in {"PUT", "UPDATE", "DELETE"}
  <2>1. place[p] = "inside" /\ ~ReadsFirst(p)
    BY DEF WriteInside, At
  <2>2. todo[p] # <<>> /\ Call(p) \in Calls /\ Call(p).op # "BAD"
    BY <2>1, ListFacts DEF ProcOK, ScriptOK, Call, At
  <2> QED
    BY <2>1, <2>2, CallFacts DEF ReadsFirst
<1>2. PICK k \in Keys : k = Call(p).key
  BY <1>1, CallFacts
<1> DEFINE c == Call(p)
           e == store[k]
<1>0. Writes(p, k)
  BY <1>1, <1>2 DEF Writes, At
<1>3. PICK expired \in IF Expirable(e) THEN BOOLEAN ELSE {FALSE} :
        LET ok == CASE c.op = "PUT"    -> TRUE
                    [] c.op = "UPDATE" -> e # Absent /\ ~expired
                    [] c.op = "DELETE" -> e # Absent
        IN  /\ store' = [store EXCEPT ![k] =
                            CASE c.op = "PUT" -> [value |-> c.value, ttl |-> c.ttl]
                              [] c.op = "UPDATE" /\ ok -> [e EXCEPT !.value = c.value]
                              [] OTHER -> Absent]
            /\ code' = IF prog[p] = "bridge" /\ ~ok THEN [code EXCEPT ![p] = 1] ELSE code
            /\ Report(p, ok)
  BY <1>2 DEF WriteInside
<1>4. c.op \in {"PUT", "UPDATE", "DELETE"} /\ c \in Calls
  BY <1>1
<1>5. /\ c.op = "PUT" => [value |-> c.value, ttl |-> c.ttl] \in Entries
      /\ c.op = "UPDATE" => c.value \in Values
  BY <1>4, CallFacts DEF Entries
<1>6. e \in Entries \/ e = Absent
  BY <1>2 DEF StoreOK
<1>7. ASSUME NEW w \in Entries \cup {Absent}, store' = [store EXCEPT ![k] = w]
      PROVE  StoreOK' /\ store'[k] = w /\ \A j \in Keys \ {k} : Left(j)' = Left(j)
  BY <1>2, <1>7 DEF StoreOK, Left
<1>8. c = Call(p) /\ e = store[k]
  OBVIOUS
<1> HIDE DEF c, e
<1>9. CASE c.op = "PUT"
  <2> DEFINE w == [value |-> c.value, ttl |-> c.ttl]
  <2>1. /\ store' = [store EXCEPT ![k] = w]
        /\ code' = code /\ Report(p, TRUE)
    BY <1>3, <1>9
  <2>2. w \in Entries /\ w # Absent /\ w.value = c.value /\ w.ttl = c.ttl
    BY <1>5, <1>9, AbsentAssumption
  <2>3. store'[k] = w /\ StoreOK' /\ \A j \in Keys \ {k} : Left(j)' = Left(j)
    BY <1>7, <2>1, <2>2
  <2>4. Left(k)' = Sure(c)
    <3> HIDE DEF w
    <3> QED
      BY <1>9, <2>2, <2>3 DEF Left, Sure
  <2>5. Effect(p, k, TRUE)
    BY <1>8, <2>1, <2>3, <2>4 DEF Effect
  <2> QED
    BY <1>0, <2>5
<1>10. CASE c.op = "UPDATE" /\ e # Absent /\ ~expired
  <2> DEFINE w == [e EXCEPT !.value = c.value]
  <2>1. /\ store' = [store EXCEPT ![k] = w]
        /\ code' = code /\ Report(p, TRUE)
    BY <1>3, <1>10
  <2>2. w \in Entries /\ w # Absent /\ w.value = c.value /\ w.ttl = e.ttl
    BY <1>5, <1>6, <1>10, AbsentAssumption DEF Entries
  <2>3. store'[k] = w /\ StoreOK' /\ \A j \in Keys \ {k} : Left(j)' = Left(j)
    BY <1>7, <2>1, <2>2
  <2>4. \A x \in Left(k)' : x = c.value \/ (x = Absent /\ x \in Left(k))
    <3> HIDE DEF w
    <3> QED
      BY <1>8, <1>10, <2>2, <2>3 DEF Left
  <2>5. c.value \in Sure(c)
    BY <1>10 DEF Sure
  <2>6. Effect(p, k, TRUE)
    BY <1>8, <1>10, <2>1, <2>3, <2>4, <2>5 DEF Effect
  <2> QED
    BY <1>0, <2>6
<1>11. CASE c.op = "DELETE" \/ (c.op = "UPDATE" /\ (e = Absent \/ expired))
  <2>1. store' = [store EXCEPT ![k] = Absent]
    BY <1>3, <1>11
  <2>2. store'[k] = Absent /\ StoreOK' /\ \A j \in Keys \ {k} : Left(j)' = Left(j)
    BY <1>7, <2>1
  <2>3. Left(k)' = {Absent}
    BY <2>2 DEF Left
  <2>4. CASE c.op = "DELETE" /\ e # Absent
    <3>1. code' = code /\ Report(p, TRUE)
      BY <1>3, <2>4
    <3>2. Absent \in Sure(c)
      BY <2>4 DEF Sure
    <3>3. Effect(p, k, TRUE)
      BY <1>8, <2>2, <2>3, <3>1, <3>2 DEF Effect
    <3> QED
      BY <1>0, <3>3
  <2>5. CASE e = Absent \/ (c.op = "UPDATE" /\ expired)
    <3>1. /\ code' = IF prog[p] = "bridge" THEN [code EXCEPT ![p] = 1] ELSE code
          /\ Report(p, FALSE)
      BY <1>3, <1>11, <2>5
    <3>2. Absent \in Left(k)
      BY <1>3, <1>8, <2>5 DEF Left, Expirable
    <3>3. Effect(p, k, FALSE)
      BY <1>8, <2>2, <2>3, <3>1, <3>2 DEF Effect
    <3> QED
      BY <1>0, <3>3
  <2> QED
    BY <1>11, <2>4, <2>5
<1> QED
  BY <1>3, <1>4, <1>9, <1>10, <1>11

\* A writing call ends: told at once, or by the bridge when it exits.
LEMMA WriteKeeps ==
  ASSUME Inv, NEW p \in Procs, WriteInside(p)
  PROVE  Kept
<1> USE DEF Inv, ContractInv
<1>1. PICK k \in Keys, ok \in BOOLEAN : Writes(p, k) /\ Effect(p, k, ok)
  BY WriteEffect
<1>2. /\ place[p] = "inside" /\ ~ReadsFirst(p) /\ writer' = NoProc /\ NextCall(p)
      /\ UNCHANGED <<readers, prog, envVars>>
  BY DEF WriteInside, At
<1>3. code' = IF prog[p] = "bridge" /\ ~ok THEN [code EXCEPT ![p] = 1] ELSE code
  BY <1>1 DEF Effect
<1>4. /\ ProcOK' /\ Local(p) /\ place'[p] \in {"call", "close"}
      /\ prog[p] = "bridge" => place'[p] = "close" /\ todo'[p] = todo[p]
  <2>1. /\ 1 \in 0 .. 2 /\ prog' = prog
        /\ code' = code \/ code' = [code EXCEPT ![p] = 1]
        /\ place[p] \in {"call", "inside", "record", "recording"}
    BY <1>2, <1>3
  <2> QED
    BY <1>2, <2>1, NextProc
<1>5. LockOK'
  <2>1. ~ReadsIn(p)' /\ ~WritesIn(p)' /\ ~ReadsIn(p) /\ WritesIn(p)
    BY <1>2, <1>4 DEF ReadsIn, WritesIn, At
  <2>2. p = writer /\ readers = {} /\ \A q \in Procs : q # NoProc
    BY <2>1, ProcsAssumption DEF LockOK
  <2> QED
    BY <1>2, <1>4, <2>1, <2>2, LockFrame
<1>6. StoreOK' /\ EnvOK'
  BY <1>1, <1>2 DEF Effect, EnvOK, envVars
<1>7. \A j \in Keys : KeyInv(j) /\ ~Done(p, j)
  BY <1>2 DEF OutcomeInv, Done, At
<1>8. Call(p).key = k
  BY <1>1 DEF Writes
<1>9. CASE ~ok \/ ~(prog[p] = "bridge" \/ ok)
  <2>1. \A j \in Keys : ~Done(p, j)'
    BY <1>2, <1>3, <1>9 DEF Done, ProcOK
  <2>2. Quiet(p)
    BY <1>1, <1>7, <1>9, <2>1 DEF Quiet, Effect, Report
  <2> QED
    BY <1>4, <1>5, <1>6, <2>2, QuietStep DEF Kept
<1>10. CASE ok /\ prog[p] = "bridge"
  <2>1. UNCHANGED historyVars
    BY <1>1, <1>10 DEF Effect, Report
  <2>2. HistOK'
    BY <2>1, ReportTyped
  <2>3. /\ place'[p] = "close" /\ prog'[p] = "bridge" /\ code'[p] = 0 /\ Call(p)' = Call(p)
        /\ todo'[p] = todo[p] /\ Sure(Call(p))' = Sure(Call(p))
    BY <1>2, <1>3, <1>4, <1>10 DEF ProcOK, ScriptOK, Call, At, Sure
  <2>4. Done(p, k)' /\ \A j \in Keys \ {k} : ~Done(p, j)'
    BY <1>1, <1>8, <2>3 DEF Done, Writes, At
  <2>5. KeyInv(k)'
    <3>1. \A x \in Left(k)' : \/ x \in Sure(Call(p))'
                              \/ Call(p)'.op = "UPDATE" /\ x = Absent /\ x \in Left(k)
      BY <1>1, <1>10, <2>3 DEF Effect
    <3> QED
      BY <1>4, <1>7, <2>1, <2>4, <3>1, KeyDone
  <2>6. ASSUME NEW j \in Keys \ {k} PROVE KeyInv(j)'
    <3>1. KeyInv(j) /\ Silent(p, j) /\ ~Done(p, j) /\ Left(j)' \subseteq Left(j)
      BY <1>1, <1>4, <1>7, <2>4 DEF Silent, Effect
    <3>2. possible' = possible /\ since' = since
      BY <2>1 DEF historyVars
    <3> QED
      BY <3>1, <3>2, KeyFades
  <2> QED
    BY <1>4, <1>5, <1>6, <2>2, <2>5, <2>6 DEF Kept, OutcomeInv
<1>11. CASE ok /\ prog[p] # "bridge"
  <2>1. ReportDone(p)
    BY <1>1, <1>11 DEF Effect, Report
  <2>2. HistOK'
    BY <1>1, <2>1, ReportTyped
  <2>3. \A j \in Keys : Silent(p, j)
    BY <1>2, <1>4, <1>11 DEF Silent, Done
  <2>4. KeyInv(k)'
    <3>1. Outcomes(Call(p)) = Sure(Call(p)) \cup
              (IF Call(p).op = "UPDATE" THEN possible[k] \cap {Absent} ELSE {})
      BY <1>1, OutcomesAre
    <3>2. ASSUME NEW x \in Left(k)'
          PROVE  x \in since[p] \cup Outcomes(Call(p)) \/ DoneBy(k, x, Procs \ {p})
      <4>1. CASE x \in Sure(Call(p))
        BY <3>1, <4>1
      <4>2. CASE Call(p).op = "UPDATE" /\ x = Absent /\ x \in Left(k)
        <5>1. x \in possible[k] \/ DoneBy(k, x, Procs)
          BY <1>7, <4>2 DEF KeyInv
        <5>2. DoneBy(k, x, Procs) => DoneBy(k, x, Procs \ {p})
          BY <1>7 DEF DoneBy
        <5> QED
          BY <3>1, <4>2, <5>1, <5>2
      <4> QED
        BY <1>1, <1>11, <3>2, <4>1, <4>2 DEF Effect
    <3>3. Told(p, k)
      BY <3>2 DEF Told
    <3> QED
      BY <1>1, <2>1, <2>3, <3>3, KeyTold
  <2>5. ASSUME NEW j \in Keys \ {k} PROVE KeyInv(j)'
    <3>1. KeyInv(j) /\ Silent(p, j) /\ ~Done(p, j) /\ Left(j)' \subseteq Left(j)
      BY <1>1, <1>7, <2>3 DEF Effect
    <3>2. possible'[j] = possible[j] /\ \A q \in Procs \ {p} : since[q] \subseteq since'[q]
      BY <1>8, <2>1 DEF ReportDone, Overlapping, HistOK
    <3> QED
      BY <3>1, <3>2, KeyFades
  <2> QED
    BY <1>4, <1>5, <1>6, <2>2, <2>4, <2>5 DEF Kept, OutcomeInv
<1> QED
  BY <1>9, <1>10, <1>11

-----------------------------------------------------------------------------
\* Closing, unlinking, and dying.

\* The cache is closed, and the bridge's exit code tells of its call.
LEMMA CloseKeeps ==
  ASSUME Inv, NEW p \in Procs, Close(p)
  PROVE  Kept
<1> USE DEF Inv, ContractInv
<1>1. /\ place[p] = "close" /\ ReportByCode(p) /\ UNCHANGED <<regionVars, kills, faults>>
      /\ alarm' = IF prog[p] = "init" /\ alarm = "cleaned" THEN "none" ELSE alarm
  BY DEF Close, At
<1>2. ProcOK' /\ Local(p) /\ place'[p] \in {"idle", "unlink"}
  <2>1. CASE prog[p] = "demo"
    BY <1>1, <2>1, GotoProc DEF Close, Places, At
  <2>2. CASE prog[p] # "demo"
    BY <2>2, ExitProc DEF Close
  <2> QED
    BY <2>1, <2>2
<1>3. LockOK'
  BY <1>1, <1>2, LockSame DEF regionVars, lockVars
<1>4. EnvOK' /\ StoreOK' /\ \A k \in Keys : Left(k)' = Left(k)
  BY <1>1, SameLeft DEF EnvOK, StoreOK, regionVars
<1>5. \A k \in Keys : Silent(p, k)
  BY <1>2 DEF Silent, Done, At
<1>6. CASE prog[p] = "bridge" /\ code[p] = 0 /\ \E k \in Keys : Writes(p, k)
  <2>1. PICK k \in Keys : Writes(p, k)
    BY <1>6
  <2>2. ReportDone(p) /\ Done(p, k) /\ Call(p).key = k
    BY <1>1, <1>6, <2>1 DEF ReportByCode, Done, Writes, At
  <2>3. HistOK'
    BY <2>1, <2>2, ReportTyped
  <2>4. KeyInv(k)'
    <3>1. Told(p, k)
      BY <1>4, <2>2 DEF Told, OutcomeInv, KeyInv
    <3> QED
      BY <1>5, <2>1, <2>2, <3>1, KeyTold
  <2>5. ASSUME NEW j \in Keys \ {k} PROVE KeyInv(j)'
    <3>1. KeyInv(j) /\ Silent(p, j) /\ ~Done(p, j) /\ Left(j)' \subseteq Left(j)
      BY <1>4, <1>5, <2>2 DEF OutcomeInv, Done, Writes
    <3>2. possible'[j] = possible[j] /\ \A q \in Procs \ {p} : since[q] \subseteq since'[q]
      BY <2>2 DEF ReportDone, Overlapping, HistOK
    <3> QED
      BY <3>1, <3>2, KeyFades
  <2> QED
    BY <1>2, <1>3, <1>4, <2>3, <2>4, <2>5 DEF Kept, OutcomeInv
<1>7. CASE ~(prog[p] = "bridge" /\ code[p] = 0 /\ \E k \in Keys : Writes(p, k))
  <2>1. NothingToReport(p) /\ \A k \in Keys : ~Done(p, k)
    BY <1>1, <1>7 DEF ReportByCode, Done
  <2>2. Quiet(p)
    BY <1>4, <1>5, <2>1 DEF Quiet, Silent
  <2> QED
    BY <1>2, <1>3, <1>4, <2>2, QuietStep DEF Kept
<1> QED
  BY <1>6, <1>7

\* Nobody else is there when the name goes.
LEMMA GoneKeeps ==
  ASSUME Inv, NEW p \in Procs, Unlink(p) \/ Reset(p)
  PROVE  Kept
<1> USE DEF Inv, ContractInv
<1>1. /\ place[p] \in {"unlink", "reset"} /\ Gone /\ since' = since
      /\ possible' = [k \in Keys |-> {Absent}]
      /\ alarm' \in {alarm, "cleaned"} /\ UNCHANGED <<kills, faults>>
  BY DEF Unlink, Reset, At, envVars
<1>2. ProcOK' /\ Local(p) /\ place'[p] \in {"idle", "create"}
  <2>1. CASE Unlink(p)
    BY <2>1, ExitProc DEF Unlink
  <2>2. CASE Reset(p)
    BY <2>2, GotoProc DEF Reset, Places, At
  <2> QED
    BY <2>1, <2>2
<1>3. \A q \in Procs : place'[q] \in {"idle", "create"}
  <2>1. prog[p] \in Alone /\ ~At(p, "idle")
    BY <1>1 DEF AloneInv, At
  <2>2. \A q \in Procs \ {p} : place[q] = "idle"
    BY <2>1 DEF AloneInv, At
  <2> QED
    BY <1>2, <2>2 DEF Local
<1>4. LockOK'
  BY <1>1, <1>3, ProcsAssumption DEF LockOK, Gone, ReadsIn, WritesIn, At
<1>5. EnvOK' /\ StoreOK' /\ HistOK'
  BY <1>1 DEF EnvOK, StoreOK, HistOK, Gone, Seen
<1>6. ASSUME NEW k \in Keys PROVE KeyInv(k)'
  <2>1. Left(k)' = {Absent} /\ possible'[k] = {Absent}
    BY <1>1 DEF Gone, Left
  <2>2. \A q \in Procs : ~Done(q, k)'
    BY <1>3 DEF Done, At
  <2> QED
    BY <2>1, <2>2 DEF KeyInv
<1> QED
  BY <1>2, <1>4, <1>5, <1>6 DEF Kept, OutcomeInv

\* A killed program may have left what it was about to, and all reckon with it.
LEMMA DiesKeeps ==
  ASSUME Inv, NEW p \in Procs, ~At(p, "idle"), Dies(p), store' = store, EnvOK'
  PROVE  Kept
<1> USE DEF Inv, ContractInv
<1>1. ProcOK' /\ Local(p) /\ place'[p] = "idle"
  BY ExitProc DEF Dies
<1>2. LockOK'
  <2>1. ~ReadsIn(p)' /\ ~WritesIn(p)'
    BY <1>1 DEF ReadsIn, WritesIn, At
  <2>2. /\ writer' = IF writer = p THEN Ghost ELSE writer
        /\ readers' = IF p \in readers THEN (readers \ {p}) \cup {Ghost} ELSE readers
    BY DEF Dies
  <2>3. p # NoProc /\ p # Ghost /\ \A q \in Procs : q # Ghost
    BY ProcsAssumption
  <2>4. writer # NoProc => readers = {}
    BY DEF LockOK
  <2>5. p \notin readers' /\ p # writer' /\ (writer' # NoProc => readers' = {})
    BY <2>2, <2>3, <2>4
  <2>6. \A q \in Procs \ {p} : (q \in readers' <=> q \in readers) /\ (q = writer' <=> q = writer)
    BY <2>2, <2>3
  <2> QED
    BY <1>1, <2>1, <2>5, <2>6, LockFrame
<1>3. HistOK'
  BY ReportTyped DEF Dies
<1>4. ASSUME NEW k \in Keys PROVE KeyInv(k)'
  <2>1. KeyInv(k) /\ Silent(p, k) /\ Left(k)' \subseteq Left(k)
    BY <1>1, SameLeft DEF OutcomeInv, Silent, Done, At
  <2>2. CASE Writes(p, k)
    <3>1. Call(p).key = k /\ Sure(Call(p)) \subseteq Outcomes(Call(p))
      BY <2>2, OutcomesAre
    <3>2. /\ possible' = [possible EXCEPT ![k] = @ \cup Outcomes(Call(p))]
          /\ since' = Overlapping(p, k, Outcomes(Call(p)))
      BY <2>2, <3>1 DEF Dies, ReportUnknown
    <3>3. possible'[k] = possible[k] \cup Outcomes(Call(p))
      BY <3>2 DEF HistOK
    <3>4. \A q \in Procs \ {p} : /\ since[q] \subseteq since'[q]
                                 /\ Writes(q, k) => Outcomes(Call(p)) \subseteq since'[q]
      BY <3>2 DEF Overlapping
    <3>5. \A q \in Procs \ {p} : Done(q, k) => Sure(Call(p)) \subseteq since'[q]
      BY <3>1, <3>4 DEF Done
    <3> QED
      BY <2>1, <3>1, <3>3, <3>4, <3>5, KeyFades
  <2>3. CASE ~Writes(p, k)
    <3>1. ~Done(p, k)
      BY <2>3 DEF Done
    <3>2. possible'[k] = possible[k] /\ \A q \in Procs \ {p} : since[q] \subseteq since'[q]
      <4>1. CASE \E j \in Keys : Writes(p, j)
        <5>1. Call(p).key # k
          BY <2>3, <4>1 DEF Writes
        <5> QED
          BY <4>1, <5>1 DEF Dies, ReportUnknown, Overlapping, HistOK
      <4>2. CASE ~ \E j \in Keys : Writes(p, j)
        BY <4>2 DEF Dies, ReportUnknown, HistOK
      <4> QED
        BY <4>1, <4>2
    <3> QED
      BY <2>1, <3>1, <3>2, KeyFades
  <2> QED
    BY <2>2, <2>3
<1> QED
  BY <1>1, <1>2, <1>3, <1>4 DEF Kept, OutcomeInv, StoreOK

\* A program is killed, or stopped after it has waited for too long.
LEMMA KillKeeps ==
  ASSUME Inv, NEW p \in Procs, Kill(p) \/ TimeOut(p)
  PROVE  Kept
<1>1. CASE Kill(p)
  <2>1. EnvOK'
    BY <1>1, BoundsAssumption DEF Kill, Inv, EnvOK
  <2> QED
    BY <1>1, <2>1, DiesKeeps DEF Kill
<1>2. CASE TimeOut(p)
  <2>1. EnvOK' /\ ~At(p, "idle")
    BY <1>2 DEF TimeOut, Stuck, Inv, EnvOK, At
  <2> QED
    BY <1>2, <2>1, DiesKeeps DEF TimeOut
<1> QED
  BY <1>1, <1>2

-----------------------------------------------------------------------------
\* Every step, and the theorems.

\* The invariant holds when nothing has been started.
LEMMA InvInit == Init => Inv
<1> SUFFICES ASSUME Init PROVE Inv
  OBVIOUS
<1>1. ContractInv
  BY ContractInit
<1>2. EnvOK /\ StoreOK /\ HistOK
  BY BoundsAssumption DEF Init, EnvOK, StoreOK, HistOK, Seen
<1>3. LockOK
  BY ProcsAssumption DEF Init, LockOK, ReadsIn, WritesIn, At
<1>4. ProcOK
  BY DEF Init, ProcOK, ScriptOK, At
<1>5. OutcomeInv
  BY DEF Init, OutcomeInv, KeyInv, Left, Done
<1> QED
  BY <1>1, <1>2, <1>3, <1>4, <1>5 DEF Inv

\* And every step keeps it.
LEMMA InvStep ==
  ASSUME Inv, [Next]_vars
  PROVE  Inv'
<1>1. CASE Next
  <2>1. ContractInv'
    BY ContractStep DEF Inv, Contracted
  <2>2. PICK p \in Procs : \/ \E g \in Alone \cup Others : Start(p, g)
                           \/ Step(p) \/ Fails(p) \/ Kill(p) \/ TimeOut(p)
    BY <1>1 DEF Next
  <2>3. CASE \E g \in Alone \cup Others : Start(p, g)
    BY <2>1, <2>3, StartKeeps DEF Inv, Kept
  <2>4. CASE Create(p) \/ Publish(p)
    BY <2>1, <2>4, OpeningKeeps DEF Inv, Kept
  <2>5. CASE \/ PublishFails(p) \/ AttachFails(p) \/ UnlinkFails(p)
             \/ Attach(p) /\ OpenFails(p)
    BY <2>1, <2>5, TroubleKeeps DEF Inv, Kept
  <2>6. CASE Attach(p) /\ ~OpenFails(p)
    BY <2>1, <2>6, AttachKeeps DEF Inv, Kept
  <2>7. CASE Validate(p)
    BY <2>1, <2>7, ValidateKeeps DEF Inv, Kept
  <2>8. CASE Enter(p) \/ EnterRecord(p)
    BY <2>1, <2>8, EnterKeeps DEF Inv, Kept
  <2>9. CASE ReadInside(p)
    BY <2>1, <2>9, ReadGetKeeps, ReadAllKeeps DEF Inv, Kept
  <2>10. CASE Record(p)
    BY <2>1, <2>10, RecordKeeps DEF Inv, Kept
  <2>11. CASE WriteInside(p)
    BY <2>1, <2>11, WriteKeeps DEF Inv, Kept
  <2>12. CASE LockFails(p)
    BY <2>1, <2>12, LockFailsKeeps DEF Inv, Kept
  <2>13. CASE Refuse(p)
    BY <2>1, <2>13, RefuseKeeps DEF Inv, Kept
  <2>14. CASE Close(p)
    BY <2>1, <2>14, CloseKeeps DEF Inv, Kept
  <2>15. CASE Unlink(p) \/ Reset(p)
    BY <2>1, <2>15, GoneKeeps DEF Inv, Kept
  <2>16. CASE Kill(p) \/ TimeOut(p)
    BY <2>1, <2>16, KillKeeps DEF Inv, Kept
  <2> QED
    BY <2>2, <2>3, <2>4, <2>5, <2>6, <2>7, <2>8, <2>9, <2>10, <2>11, <2>12, <2>13, <2>14,
       <2>15, <2>16 DEF Step, Fails
<1>2. CASE UNCHANGED vars
  <2>1. /\ UNCHANGED <<life, store, writer, readers, prog, place, todo, code>>
        /\ UNCHANGED <<alarm, kills, faults, possible, since>>
    BY <1>2 DEF vars, regionVars, progVars, envVars, historyVars
  <2>2. ContractInv'
    BY <2>1 DEF Inv, ContractInv, TypeInv, AloneInv, LifeInv, At
  <2>3. EnvOK' /\ StoreOK' /\ HistOK' /\ LockOK' /\ ProcOK'
    BY <2>1 DEF Inv, EnvOK, StoreOK, HistOK, LockOK, ProcOK, ReadsIn, WritesIn, ScriptOK,
       At, Call, ReadsFirst
  <2>4. OutcomeInv'
    BY <2>1 DEF Inv, OutcomeInv, KeyInv, Left, Done, DoneBy, Sure, Outcomes, Writes, At, Call
  <2> QED
    BY <2>2, <2>3, <2>4 DEF Inv
<1> QED
  BY <1>1, <1>2

(* The state of the writer, the reader, the demo and the bridge                *)
(* (src/src/ui_bridge.cpp, writer.cpp, reader.cpp, main.cpp) has its types,   *)
(* and the lock is held by exactly those programs that the code has inside it *)
(* and by the dead.                                                           *)
THEOREM ProgramsTypes == Spec => []TypeOK
<1>1. Inv => TypeOK
  BY DEF Inv, ContractInv, TypeInv, EnvOK, StoreOK, HistOK, LockOK, ProcOK, TypeOK,
     ReadsIn, WritesIn, Seen
<1> QED
  BY <1>1, InvInit, InvStep, PTL DEF Spec

(* What the programs print of their calls, and what the bridge's exit codes   *)
(* say of them (src/src/ui_bridge.cpp), is true of the shared cache: for any  *)
(* number of programs, keys, values and TTLs, however the calls overlap, fail *)
(* and are killed.  The invariant also has the bridges whose call has taken   *)
(* effect and who have not exited yet: what is under a key is accounted for   *)
(* by what was told or by one of them, and none of them, when he tells, will  *)
(* deny what another has left.                                                *)
THEOREM OutcomesAreTrue == Spec => []OutcomesTell
<1>1. Inv => OutcomesTell
  BY ToldIsTrue DEF Inv
<1> QED
  BY <1>1, InvInit, InvStep, PTL DEF Spec

-----------------------------------------------------------------------------
\* The repair.

\* Once the operator has cleaned up, nobody dead is in the lock: a program that
\* dies sends him back to the cleanup.
RepairInv == alarm = "cleaned" => writer # Ghost /\ Ghost \notin readers

\* Only a dying program leaves its ghost in the lock.
LEMMA GhostsAreOfTheDead ==
  ASSUME NEW p \in Procs, Step(p) \/ Fails(p)
  PROVE  /\ writer' = Ghost => writer = Ghost
         /\ Ghost \in readers' => Ghost \in readers
<1>1. Ghost # NoProc /\ p # Ghost
  BY ProcsAssumption
<1>2. CASE Create(p) \/ Publish(p) \/ Attach(p) \/ Validate(p) \/ Close(p)
  BY <1>1, <1>2 DEF Create, Publish, Attach, Validate, Close, regionVars, lockVars
<1>3. CASE Enter(p) \/ ReadInside(p) \/ EnterRecord(p) \/ Record(p) \/ WriteInside(p)
  <2>1. CASE Enter(p)
    BY <1>1, <2>1 DEF Enter
  <2>2. CASE ReadInside(p)
    BY <2>2 DEF ReadInside
  <2>3. CASE EnterRecord(p)
    BY <1>1, <2>3 DEF EnterRecord
  <2>4. CASE Record(p) \/ WriteInside(p)
    BY <1>1, <2>4 DEF Record, WriteInside
  <2> QED
    BY <1>3, <2>1, <2>2, <2>3, <2>4
<1>4. CASE Unlink(p) \/ Reset(p)
  BY <1>1, <1>4 DEF Unlink, Reset, Gone
<1>5. CASE Refuse(p) \/ LockFails(p) \/ UnlinkFails(p) \/ AttachFails(p) \/ PublishFails(p)
  BY <1>5 DEF Refuse, LockFails, UnlinkFails, AttachFails, PublishFails, regionVars, lockVars
<1> QED
  BY <1>2, <1>3, <1>4, <1>5 DEF Step, Fails

\* The operator takes the cache to be clean only when the cleanup has removed it.
LEMMA CleanedByUnlink ==
  ASSUME NEW p \in Procs, Step(p) \/ Fails(p), alarm # "cleaned", alarm' = "cleaned"
  PROVE  Unlink(p)
<1>1. alarm' = alarm \/ alarm' \in {"raised", "none"} \/ Unlink(p)
  <2>1. CASE \/ Create(p) \/ Publish(p) \/ Validate(p) \/ Enter(p) \/ ReadInside(p)
             \/ EnterRecord(p) \/ Record(p) \/ WriteInside(p) \/ Refuse(p) \/ Reset(p)
    BY <2>1 DEF Create, Publish, Validate, Enter, ReadInside, EnterRecord, Record,
       WriteInside, Refuse, Reset, envVars
  <2>2. CASE Attach(p) \/ AttachFails(p) \/ PublishFails(p)
    BY <2>2 DEF Attach, AttachFails, PublishFails, OpenFails
  <2>3. CASE LockFails(p) \/ UnlinkFails(p) \/ Close(p)
    BY <2>3 DEF LockFails, UnlinkFails, Close
  <2> QED
    BY <2>1, <2>2, <2>3 DEF Step, Fails
<1> QED
  BY <1>1

\* Every step keeps it.
LEMMA RepairStep ==
  ASSUME RepairInv, [Next]_vars
  PROVE  RepairInv'
<1>1. CASE Next
  <2>1. PICK p \in Procs : \/ \E g \in Alone \cup Others : Start(p, g)
                           \/ Step(p) \/ Fails(p) \/ Kill(p) \/ TimeOut(p)
    BY <1>1 DEF Next
  <2>2. CASE \E g \in Alone \cup Others : Start(p, g)
    BY <2>2 DEF Start, RepairInv, regionVars, envVars
  <2>3. CASE Step(p) \/ Fails(p)
    <3>1. CASE Unlink(p)
      BY <3>1, ProcsAssumption DEF Unlink, Gone, RepairInv
    <3>2. CASE ~Unlink(p)
      BY <2>3, <3>2, GhostsAreOfTheDead, CleanedByUnlink DEF RepairInv
    <3> QED
      BY <3>1, <3>2
  <2>4. CASE Kill(p) \/ TimeOut(p)
    BY <2>4 DEF Kill, TimeOut, RepairInv
  <2> QED
    BY <2>1, <2>2, <2>3, <2>4
<1>2. CASE UNCHANGED vars
  BY <1>2 DEF vars, regionVars, envVars, RepairInv
<1> QED
  BY <1>1, <1>2

\* Trouble ends in one place: an initialization has closed a ready region.
LEMMA OverAtClose ==
  ASSUME ContractInv, RepairInv, [Next]_vars, alarm # "none", alarm' = "none"
  PROVE  Usable'
<1>1. PICK p \in Procs : \/ \E g \in Alone \cup Others : Start(p, g)
                         \/ Step(p) \/ Fails(p) \/ Kill(p) \/ TimeOut(p)
  BY DEF Next, vars, envVars
<1>2. CASE Close(p)
  <2>1. life = "ready" /\ UNCHANGED <<life, writer, readers>>
    BY <1>2 DEF ContractInv, LifeInv, Inside, At, Close, regionVars
  <2>2. alarm = "cleaned"
    BY <1>2 DEF Close
  <2> QED
    BY <2>1, <2>2 DEF RepairInv, Usable
<1>3. CASE ~Close(p)
  <2>1. CASE \/ \E g \in Alone \cup Others : Start(p, g)
             \/ Create(p) \/ Publish(p) \/ Validate(p) \/ Enter(p) \/ ReadInside(p)
             \/ EnterRecord(p) \/ Record(p) \/ WriteInside(p) \/ Refuse(p) \/ Reset(p)
    BY <2>1 DEF Start, Create, Publish, Validate, Enter, ReadInside, EnterRecord, Record,
       WriteInside, Refuse, Reset, envVars
  <2>2. CASE Attach(p) \/ AttachFails(p) \/ PublishFails(p)
    BY <2>2 DEF Attach, AttachFails, PublishFails, OpenFails
  <2>3. CASE LockFails(p) \/ UnlinkFails(p) \/ Unlink(p) \/ Kill(p) \/ TimeOut(p)
    BY <2>3 DEF LockFails, UnlinkFails, Unlink, Kill, TimeOut
  <2> QED
    BY <1>1, <1>3, <2>1, <2>2, <2>3 DEF Step, Fails
<1> QED
  BY <1>2, <1>3

(* When cleanup and then the bridge's init have reported success              *)
(* (src/src/cleanup.cpp, ui_bridge.cpp), the cache is there and no dead       *)
(* program holds its lock, whatever the operator's own commands met with,     *)
(* failures and kills included, and however often he had to begin again.      *)
THEOREM OperatorIsTold == Spec => TroubleIsOver
<1>1. Init => RepairInv
  BY DEF Init, RepairInv
<1>2. ContractInv /\ [Next]_vars => ContractInv'
  BY ContractStep DEF Contracted
<1>3. RepairInv /\ [Next]_vars => RepairInv'
  BY RepairStep
<1>4. ContractInv /\ RepairInv /\ [Next]_vars => [alarm # "none" /\ alarm' = "none" => Usable']_vars
  BY OverAtClose
<1> QED
  BY <1>1, <1>2, <1>3, <1>4, ContractInit, PTL DEF Spec, TroubleIsOver
=============================================================================

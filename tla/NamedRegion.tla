----------------------------- MODULE NamedRegion -----------------------------
(***************************************************************************)
(* What clients may rely on when they share the cache by its name: one     *)
(* region that is absent, being created, or ready; that anybody may join   *)
(* while it is ready; and that goes away only before it is ready, because  *)
(* its creation failed, or when nobody is attached, because the operator   *)
(* cleans up.  There are no objects, descriptors, headers or locks.        *)
(*                                                                         *)
(* The operator's rule is part of the contract: cleanup runs only after    *)
(* all clients have exited.  SharedRegion implements this module.          *)
(***************************************************************************)
EXTENDS Naturals

CONSTANT
    Procs       \* processes that share the cache

VARIABLES
    life,       \* "absent", "creating" or "ready"
    attached,   \* processes that have the cache open
    work        \* operations done on it since it was created

vars == <<life, attached, work>>

Init == life = "absent" /\ attached = {} /\ work = 0

Create ==
    /\ life = "absent"
    /\ life' = "creating"
    /\ UNCHANGED <<attached, work>>

\* A creation that died may leave the region like that.
GiveUp ==
    /\ life = "creating"
    /\ life' = "absent"
    /\ UNCHANGED <<attached, work>>

\* The creator is the first client.
Publish(p) ==
    /\ life = "creating"
    /\ life' = "ready" /\ attached' = attached \cup {p}
    /\ UNCHANGED work

Attach(p) ==
    /\ life = "ready" /\ p \notin attached
    /\ attached' = attached \cup {p}
    /\ UNCHANGED <<life, work>>

Operate(p) ==
    /\ life = "ready" /\ p \in attached
    /\ work' = work + 1
    /\ UNCHANGED <<life, attached>>

\* By closing it, or by dying.
Leave(p) ==
    /\ p \in attached
    /\ attached' = attached \ {p}
    /\ UNCHANGED <<life, work>>

Cleanup ==
    /\ life # "absent" /\ attached = {}
    /\ life' = "absent" /\ work' = 0
    /\ UNCHANGED attached

Next ==
    \/ Create \/ GiveUp \/ Cleanup
    \/ \E p \in Procs : Publish(p) \/ Attach(p) \/ Operate(p) \/ Leave(p)

Spec == Init /\ [][Next]_vars
=============================================================================

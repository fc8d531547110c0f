------------------------------- MODULE KVCache -------------------------------
(***************************************************************************)
(* What the cache promises its clients: a bounded map from keys to values  *)
(* on which every call takes effect at one instant between its invocation  *)
(* and its return.  There are no slots, no lock and no clock.  Because it  *)
(* is a cache, an entry may go away by itself, but only if it was stored   *)
(* with a TTL, or to make room for a new key in a full map.                *)
(*                                                                         *)
(* CacheEngineRefinement shows that CacheEngine implements this module.    *)
(***************************************************************************)
EXTENDS Naturals, FiniteSets

CONSTANTS
    Keys, Values, TTLs, Procs,
    Calls,          \* the calls clients make
    Valid(_),       \* those whose arguments are accepted
    NoCall,         \* the request of a client that is in no call
    Capacity,       \* most keys the map holds
    Absent,         \* the record of a key that is not in the map
    MayRefuse       \* may a call fail for a reason outside the map

VARIABLES
    store,          \* the map: Keys to records, or Absent
    request,        \* the call each client is in
    answer          \* its result, once it has taken effect

vars == <<store, request, answer>>

Record     == [value : Values, ttl : TTLs]
Present    == {k \in Keys : store[k] # Absent}
Expirable  == {k \in Present : store[k].ttl > 0}
IsFull     == Cardinality(Present) >= Capacity

Pending    == [kind |-> "pending"]
Yes        == [kind |-> "yes"]
No         == [kind |-> "no"]
Hit(v)     == [kind |-> "hit", value |-> v]
Listing(S) == [kind |-> "listing", items |-> S]

Init == /\ store = [k \in Keys |-> Absent]
        /\ request = [p \in Procs |-> NoCall]
        /\ answer = [p \in Procs |-> Pending]

\* Client p is in a call of operation op that has not taken effect.
Waits(p, op) == request[p].op = op /\ request[p] # NoCall /\ answer[p] = Pending

Give(p, r) == answer' = [answer EXCEPT ![p] = r] /\ UNCHANGED request

Invoke(p, c) ==
    /\ request[p] = NoCall
    /\ request' = [request EXCEPT ![p] = c]
    /\ answer' = [answer EXCEPT ![p] = IF Valid(c) THEN Pending ELSE No]
    /\ UNCHANGED store

Return(p) ==
    /\ answer[p] # Pending
    /\ request' = [request EXCEPT ![p] = NoCall]
    /\ answer' = [answer EXCEPT ![p] = Pending]
    /\ UNCHANGED store

GetHit(p) ==
    /\ Waits(p, "GET") /\ request[p].key \in Present
    /\ Give(p, Hit(store[request[p].key].value))
    /\ UNCHANGED store

\* An entry with a TTL may be past it, and still be in the map.
GetMiss(p) ==
    /\ Waits(p, "GET") /\ request[p].key \notin Present \ Expirable
    /\ Give(p, No)
    /\ UNCHANGED store

Put(p) ==
    /\ Waits(p, "PUT")
    /\ request[p].key \in Present \/ ~IsFull
    /\ store' = [store EXCEPT ![request[p].key] =
                    [value |-> request[p].value, ttl |-> request[p].ttl]]
    /\ Give(p, Yes)

\* Room for a key that is not there is made in a full map only, one entry at
\* a time.
Evict(p, k) ==
    /\ Waits(p, "PUT") /\ request[p].key \notin Present /\ IsFull
    /\ k \in Present
    /\ store' = [store EXCEPT ![k] = Absent]
    /\ UNCHANGED <<request, answer>>

Expire(S) ==
    /\ S # {} /\ S \subseteq Expirable
    /\ store' = [k \in Keys |-> IF k \in S THEN Absent ELSE store[k]]
    /\ UNCHANGED <<request, answer>>

\* An update never creates an entry and never changes its TTL.
Update(p) ==
    /\ Waits(p, "UPDATE") /\ request[p].key \in Present
    /\ store' = [store EXCEPT ![request[p].key].value = request[p].value]
    /\ Give(p, Yes)

UpdateAbsent(p) ==
    /\ Waits(p, "UPDATE") /\ request[p].key \notin Present
    /\ Give(p, No)
    /\ UNCHANGED store

UpdateExpired(p) ==
    /\ Waits(p, "UPDATE") /\ request[p].key \in Expirable
    /\ store' = [store EXCEPT ![request[p].key] = Absent]
    /\ Give(p, No)

Delete(p) ==
    /\ Waits(p, "DELETE")
    /\ store' = [store EXCEPT ![request[p].key] = Absent]
    /\ Give(p, IF request[p].key \in Present THEN Yes ELSE No)

\* Is there a place for the key?
Find(p) ==
    /\ Waits(p, "FIND")
    /\ Give(p, IF request[p].key \in Present \/ ~IsFull THEN Yes ELSE No)
    /\ UNCHANGED store

List(p) ==
    /\ Waits(p, "SNAPSHOT")
    /\ Give(p, Listing(Present))
    /\ UNCHANGED store

Refuse(p) ==
    /\ MayRefuse
    /\ request[p] # NoCall /\ answer[p] = Pending
    /\ Give(p, No)
    /\ UNCHANGED store

Next ==
    \/ \E p \in Procs :
          \/ \E c \in Calls : Invoke(p, c)
          \/ GetHit(p) \/ GetMiss(p) \/ Put(p) \/ Update(p) \/ UpdateAbsent(p)
          \/ UpdateExpired(p) \/ Delete(p) \/ Find(p) \/ List(p)
          \/ Refuse(p) \/ Return(p)
          \/ \E k \in Keys : Evict(p, k)
    \/ \E S \in SUBSET Keys : Expire(S)

Spec == Init /\ [][Next]_vars
=============================================================================

------------------------ MODULE CacheEngineRefinement ------------------------
(***************************************************************************)
(* CacheEngine implements KVCache.  The map is what probing can reach; a   *)
(* call takes effect where its result is decided:                          *)
(*   - a hit when cache_get copies the entry, a miss when its probe ends   *)
(*     (so also the miss of an expired entry, which is removed later);     *)
(*   - a put or an update when the record is stored, before its stamp;     *)
(*   - a deletion, a listing, a find_slot in the step that does it.        *)
(***************************************************************************)
EXTENDS CacheEngine

CONSTANT Absent

ASSUME AbsentAssumption == Absent \notin [value : Values, ttl : TTLs]

\* The record in an occupied slot.  Between the two writes of a put its TTL
\* is the one about to be written.
RecordAt(s) ==
    LET stampers == {p \in Procs : pc[p] = "stamp" /\ slot[p] = s /\ call[p].op = "PUT"}
    IN  [value |-> entries[s].value,
         ttl   |-> IF stampers = {} THEN entries[s].ttl
                   ELSE call[CHOOSE p \in stampers : TRUE].ttl]

StoreView ==
    [k \in Keys |-> LET held == {s \in Slots : Holds(entries[s], k)}
                    IN  IF held = {} THEN Absent
                        ELSE RecordAt(CHOOSE s \in held : TRUE)]

\* What the call will return, from the instant that is decided.
AnswerView(p) ==
    CASE pc[p] = "stamp"
           -> [kind |-> "yes"]
      [] call[p].op = "GET" /\ pc[p] \in {"rd_unlock", "expired_lock", "remove"}
                            /\ reply[p] = Pending
           -> [kind |-> "no"]
      [] reply[p].kind = "hit"
           -> [kind |-> "hit", value |-> reply[p].value]
      [] reply[p].kind = "index"
           -> [kind |-> IF reply[p].index = NoSlot THEN "no" ELSE "yes"]
      [] reply[p].kind = "snapshot"
           -> [kind |-> "listing", items |-> reply[p].items]
      [] OTHER
           -> reply[p]

IdleRequest == [op |-> "none"]

KV == INSTANCE KVCache WITH
          NoCall    <- IdleRequest,
          MayRefuse <- LockCanFail,
          store     <- StoreView,
          request   <- [p \in Procs |-> IF pc[p] = "idle" THEN IdleRequest ELSE call[p]],
          answer    <- [p \in Procs |-> AnswerView(p)]

\* Every behaviour of the engine, lock errors and clock steps included, is
\* one of a bounded map whose calls are atomic: a GET returns a value its
\* key had during the call, no call takes effect twice or in part, and only
\* an entry with a TTL, or one evicted from a full table, goes away unasked.
ImplementsKVCache == KV!Spec
=============================================================================

------------------------------- MODULE Layout -------------------------------
(***************************************************************************)
(* Bytes: the header and the slots of a region as valid_capacity,          *)
(* cache_validate_layout and get_entry_ptr lay them out, with the 32-bit   *)
(* offset of a slot.  The region is found with any header in it, left by   *)
(* another version or another program, and may be initialized.             *)
(* <Definition>_<Mistake> is <Definition> with a plausible mistake.        *)
(***************************************************************************)
EXTENDS Integers

CONSTANTS
    Word,           \* 2^32: what an offset is reduced modulo
    HeaderSize,     \* sizeof(CacheHeader)
    EntrySize,      \* sizeof(CacheEntry)
    Sizes,          \* sizes of regions
    Capacities,     \* capacities asked for, or found in a header
    Offsets         \* data_offsets found in a header

\* valid_capacity does not ask for the first: it admits regions of more than
\* 4 GiB, in which offsets wrap around.  The programs' regions have 4 MiB.
ASSUME SizesAssumption   == Word \in Nat \ {0} /\ Sizes \subseteq 0 .. Word
ASSUME LayoutAssumption  == HeaderSize \in Nat \ {0} /\ EntrySize \in Nat \ {0}
ASSUME HeadersAssumption == /\ Capacities \subseteq Nat
                            /\ Offsets \subseteq Nat /\ HeaderSize \in Offsets

VARIABLES
    size,       \* of the region
    header,     \* magic and version are right or not; capacity and data_offset
    attached,   \* it was initialized, or validated
    memory,     \* per byte: the slot that it was last written for, or -1
    written     \* slots that were written

vars == <<size, header, attached, memory, written>>

\* Offsets may lead anywhere below 2^32, and an entry goes on from there.
Addresses == 0 .. Word + EntrySize

HeaderType == [ready : BOOLEAN, capacity : Capacities, data_offset : Offsets]

Init == /\ size \in Sizes
        /\ header \in HeaderType
        /\ attached = FALSE
        /\ memory = [a \in Addresses |-> -1]
        /\ written = {}

-----------------------------------------------------------------------------

\* The room is divided among the entries, and the header's share is forgotten.
valid_capacity_NoHeader(s, c) == s >= HeaderSize /\ c > 0 /\ c <= s \div EntrySize

valid_capacity(s, c) == s >= HeaderSize /\ c > 0 /\ c <= (s - HeaderSize) \div EntrySize

cache_initialize_region(c) ==
    /\ valid_capacity(size, c)
    /\ header' = [ready |-> TRUE, capacity |-> c, data_offset |-> HeaderSize]
    /\ attached' = TRUE
    /\ memory' = [a \in Addresses |-> -1] /\ written' = {}
    /\ UNCHANGED size

cache_validate_layout_AnyOffset ==
    /\ ~attached
    /\ size >= HeaderSize /\ header.ready /\ valid_capacity(size, header.capacity)
    /\ attached' = TRUE
    /\ UNCHANGED <<size, header, memory, written>>

\* Where it fails, nobody attaches.
cache_validate_layout ==
    /\ ~attached
    /\ size >= HeaderSize /\ header.ready /\ valid_capacity(size, header.capacity)
    /\ header.data_offset = HeaderSize
    /\ attached' = TRUE
    /\ UNCHANGED <<size, header, memory, written>>

get_entry_ptr(i) == (header.data_offset + i * EntrySize) % Word

Extent(i) == get_entry_ptr(i) .. get_entry_ptr(i) + EntrySize - 1

\* An operation fills a slot; every index is reduced modulo the capacity.
Write(i) ==
    /\ attached /\ i < header.capacity
    /\ memory' = [a \in Addresses |-> IF a \in Extent(i) THEN i ELSE memory[a]]
    /\ written' = written \cup {i}
    /\ UNCHANGED <<size, header, attached>>

Next == \/ \E c \in Capacities : cache_initialize_region(c)
        \/ cache_validate_layout
        \/ \E i \in 0 .. header.capacity - 1 : Write(i)

Spec == Init /\ [][Next]_vars

-----------------------------------------------------------------------------

TypeOK ==
    /\ size \in Sizes /\ header \in HeaderType /\ attached \in BOOLEAN
    /\ memory \in [Addresses -> Int] /\ written \subseteq 0 .. header.capacity - 1

\* Whatever header the region was found with: once it is accepted, slots are
\* written inside the region only, behind the header, and none over another.
Intact ==
    /\ \A a \in Addresses : memory[a] # -1 => a \in HeaderSize .. size - 1
    /\ \A i \in written : \A a \in Extent(i) : memory[a] = i
=============================================================================

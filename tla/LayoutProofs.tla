---------------------------- MODULE LayoutProofs ----------------------------
(* Theorems about Layout, for words, headers and entries of every size. *)
EXTENDS Layout, TLAPS

-----------------------------------------------------------------------------
\* Products.

\* A product, under a name so that the provers leave it alone.
Times(a, b) == a * b

\* Products of successive numbers are N apart, and of different ones at least.
LEMMA TimesGrows ==
  ASSUME NEW N \in Nat \ {0}, NEW a \in Int, NEW b \in Int
  PROVE  /\ Times(N, a) \in Int
         /\ Times(N, a + 1) = Times(N, a) + N
         /\ a < b => Times(N, a) + N <= Times(N, b)
<1>1. N * (a + 1) = N * a + N /\ N * a \in Int
  OBVIOUS
<1>2. ASSUME a < b PROVE N * a + N <= N * b
  <2>1. N * (b - a - 1) >= 0
    BY <1>2
  <2>2. N * (b - a - 1) = N * b - N * a - N
    OBVIOUS
  <2> QED
    BY <2>1, <2>2
<1> QED
  BY <1>1, <1>2 DEF Times

-----------------------------------------------------------------------------
\* Where the slots are.

LEMMA EntriesApart ==
  ASSUME NEW a \in Int, NEW b \in Int, a < b
  PROVE  /\ Times(EntrySize, a) \in Int /\ Times(EntrySize, b) \in Int
         /\ Times(EntrySize, a) + EntrySize <= Times(EntrySize, b)
  BY TimesGrows, LayoutAssumption, Zenon

\* The entries that valid_capacity admits have room behind the header.
LEMMA EntriesFit ==
  ASSUME NEW s \in Sizes, NEW c \in Capacities, valid_capacity(s, c)
  PROVE  HeaderSize + Times(EntrySize, c) <= s
<1> USE SizesAssumption, LayoutAssumption, HeadersAssumption
<1> DEFINE room == s - HeaderSize
<1>1. room \in Nat /\ c \in Nat /\ c <= room \div EntrySize
  BY DEF valid_capacity
<1>2. room = EntrySize * (room \div EntrySize) + (room % EntrySize)
      /\ room % EntrySize \in Nat /\ room \div EntrySize \in Int
  BY <1>1
<1>3. Times(EntrySize, room \div EntrySize) <= room
      /\ Times(EntrySize, room \div EntrySize) \in Int
  <2>1. Times(EntrySize, room \div EntrySize) = EntrySize * (room \div EntrySize)
    BY DEF Times
  <2>2. Times(EntrySize, room \div EntrySize) \in Int
    BY <1>2, TimesGrows
  <2> QED
    BY <1>1, <1>2, <2>1, <2>2
<1>4. Times(EntrySize, c) <= Times(EntrySize, room \div EntrySize)
  <2>1. c < room \div EntrySize \/ c = room \div EntrySize
    BY <1>1, <1>2
  <2>2. Times(EntrySize, c) \in Int
    BY <1>1, EntriesApart
  <2>3. c < room \div EntrySize =>
            Times(EntrySize, c) + EntrySize <= Times(EntrySize, room \div EntrySize)
    BY <1>1, <1>2, EntriesApart
  <2> QED
    BY <1>3, <2>1, <2>2, <2>3
<1>5. Times(EntrySize, c) \in Int
  BY <1>1, TimesGrows
<1> QED
  BY <1>1, <1>3, <1>4, <1>5

\* What an accepted header says of the region.
Accepted == /\ valid_capacity(size, header.capacity)
            /\ header.data_offset = HeaderSize

\* Below the capacity, the 32-bit offset of a slot is its offset.
LEMMA OffsetIsExact ==
  ASSUME TypeOK, Accepted, NEW i \in 0 .. header.capacity - 1
  PROVE  /\ get_entry_ptr(i) = HeaderSize + Times(EntrySize, i)
         /\ Times(EntrySize, i) \in Nat
         /\ get_entry_ptr(i) + EntrySize <= size
<1> USE SizesAssumption, LayoutAssumption, HeadersAssumption
<1>1. size \in Sizes /\ header.capacity \in Capacities /\ header.capacity \in Nat
  BY DEF TypeOK, HeaderType
<1>2. HeaderSize + Times(EntrySize, header.capacity) <= size
  BY <1>1, EntriesFit DEF Accepted
<1>3. /\ Times(EntrySize, i) + EntrySize <= Times(EntrySize, header.capacity)
      /\ Times(EntrySize, i) \in Int /\ Times(EntrySize, header.capacity) \in Int
  BY <1>1, EntriesApart
<1>4. 0 <= Times(EntrySize, i)
  <2>1. Times(EntrySize, 0) = 0
    BY DEF Times
  <2>2. i = 0 \/ 0 < i
    OBVIOUS
  <2>3. 0 < i => Times(EntrySize, 0) + EntrySize <= Times(EntrySize, i)
    BY <1>1, EntriesApart
  <2> QED
    BY <1>3, <2>1, <2>2, <2>3
<1> DEFINE at == HeaderSize + Times(EntrySize, i)
<1>5. at \in 0 .. Word - 1 /\ at + EntrySize <= size
  BY <1>1, <1>2, <1>3, <1>4
<1>6. at % Word = at
  BY <1>5
<1>7. i * EntrySize = Times(EntrySize, i)
  BY <1>1 DEF Times
<1>8. get_entry_ptr(i) = at % Word
  BY <1>7 DEF get_entry_ptr, Accepted
<1> QED
  BY <1>3, <1>4, <1>5, <1>6, <1>8

\* The slots are in the region, behind the header, and no two overlap.
LEMMA SlotsApart ==
  ASSUME TypeOK, Accepted, NEW i \in 0 .. header.capacity - 1
  PROVE  /\ Extent(i) \subseteq HeaderSize .. size - 1
         /\ Extent(i) \subseteq Addresses
         /\ \A j \in 0 .. header.capacity - 1 : j # i => Extent(i) \cap Extent(j) = {}
<1> USE SizesAssumption, LayoutAssumption, HeadersAssumption
<1>1. size \in Nat /\ size <= Word /\ header.capacity \in Nat
  <2>1. size \in Sizes /\ header \in HeaderType
    BY DEF TypeOK
  <2>2. size \in 0 .. Word
    BY <2>1, Zenon
  <2>3. header.capacity \in Nat
    BY <2>1 DEF HeaderType
  <2> QED
    BY <2>2, <2>3
<1>2. /\ get_entry_ptr(i) \in Nat /\ HeaderSize <= get_entry_ptr(i)
      /\ get_entry_ptr(i) + EntrySize <= size
  BY OffsetIsExact
<1>3. Extent(i) \subseteq HeaderSize .. size - 1 /\ Extent(i) \subseteq Addresses
  BY <1>1, <1>2 DEF Extent, Addresses
<1>4. ASSUME NEW j \in 0 .. header.capacity - 1, j # i
      PROVE  Extent(i) \cap Extent(j) = {}
  <2>1. /\ get_entry_ptr(i) = HeaderSize + Times(EntrySize, i) /\ Times(EntrySize, i) \in Nat
        /\ get_entry_ptr(j) = HeaderSize + Times(EntrySize, j) /\ Times(EntrySize, j) \in Nat
    BY OffsetIsExact
  <2>2. /\ i < j => Times(EntrySize, i) + EntrySize <= Times(EntrySize, j)
        /\ j < i => Times(EntrySize, j) + EntrySize <= Times(EntrySize, i)
    BY <1>1, EntriesApart
  <2>3. \/ get_entry_ptr(i) + EntrySize <= get_entry_ptr(j)
        \/ get_entry_ptr(j) + EntrySize <= get_entry_ptr(i)
    BY <1>1, <1>4, <2>1, <2>2
  <2> QED
    BY <2>1, <2>3 DEF Extent
<1> QED
  BY <1>3, <1>4

-----------------------------------------------------------------------------
\* The state and its steps.

\* Whoever is attached has an accepted header; before that nothing was written.
AcceptedInv == /\ attached => Accepted
               /\ ~attached => written = {}

LayoutInv == TypeOK /\ AcceptedInv /\ Intact

LEMMA LayoutInit == Init => LayoutInv
<1> SUFFICES ASSUME Init PROVE LayoutInv
  OBVIOUS
<1>1. TypeOK
  <2>1. memory \in [Addresses -> Int]
    BY DEF Init
  <2>2. /\ size \in Sizes /\ header \in HeaderType /\ attached \in BOOLEAN
        /\ written \subseteq 0 .. header.capacity - 1
    BY DEF Init
  <2> QED
    BY <2>1, <2>2 DEF TypeOK
<1>2. AcceptedInv /\ Intact
  BY DEF Init, AcceptedInv, Intact
<1> QED
  BY <1>1, <1>2 DEF LayoutInv

LEMMA InitializeStep ==
  ASSUME LayoutInv, NEW c \in Capacities, cache_initialize_region(c)
  PROVE  LayoutInv'
<1> USE HeadersAssumption DEF cache_initialize_region
<1>1. header'.capacity = c /\ header'.data_offset = HeaderSize /\ header' \in HeaderType
  BY DEF HeaderType
<1>2. TypeOK'
  BY <1>1 DEF LayoutInv, TypeOK
<1>3. AcceptedInv'
  BY <1>1 DEF AcceptedInv, Accepted, valid_capacity
<1>4. Intact'
  BY DEF Intact
<1> QED
  BY <1>2, <1>3, <1>4 DEF LayoutInv

LEMMA ValidateStep ==
  ASSUME LayoutInv, cache_validate_layout
  PROVE  LayoutInv'
<1> USE DEF cache_validate_layout
<1>1. TypeOK'
  BY DEF LayoutInv, TypeOK
<1>2. AcceptedInv'
  BY DEF AcceptedInv, Accepted, valid_capacity
<1>3. Intact'
  BY DEF LayoutInv, Intact, Extent, get_entry_ptr
<1> QED
  BY <1>1, <1>2, <1>3 DEF LayoutInv

LEMMA WriteStep ==
  ASSUME LayoutInv, NEW i \in 0 .. header.capacity - 1, Write(i)
  PROVE  LayoutInv'
<1> USE DEF Write
<1>1. TypeOK /\ Accepted /\ Intact /\ header.capacity \in Nat
  BY HeadersAssumption DEF LayoutInv, AcceptedInv, TypeOK, HeaderType
<1>2. TypeOK'
  BY <1>1 DEF TypeOK
<1>3. AcceptedInv'
  BY <1>1 DEF AcceptedInv, Accepted, valid_capacity
<1>4. /\ Extent(i) \subseteq HeaderSize .. size - 1
      /\ Extent(i) \subseteq Addresses
      /\ \A j \in 0 .. header.capacity - 1 : j # i => Extent(i) \cap Extent(j) = {}
  BY <1>1, SlotsApart
<1>5. ASSUME NEW a \in Addresses, memory'[a] # -1
      PROVE  a \in HeaderSize .. size - 1
  BY <1>1, <1>4, <1>5 DEF Intact
<1>6. ASSUME NEW j \in written', NEW a \in Extent(j)
      PROVE  memory'[a] = j
  <2>1. CASE j = i
    BY <1>4, <1>6, <2>1
  <2>2. CASE j # i
    <3>1. j \in written /\ j \in 0 .. header.capacity - 1
      BY <1>1, <1>6, <2>2 DEF TypeOK
    <3>2. a \notin Extent(i) /\ a \in Addresses
      BY <1>1, <1>4, <1>6, <2>2, <3>1, SlotsApart
    <3> QED
      BY <1>1, <1>6, <3>1, <3>2 DEF Intact
  <2> QED
    BY <2>1, <2>2
<1>7. Intact'
  BY <1>5, <1>6 DEF Intact, Extent, get_entry_ptr
<1> QED
  BY <1>2, <1>3, <1>7 DEF LayoutInv

LEMMA LayoutStep == LayoutInv /\ [Next]_vars => LayoutInv'
<1> SUFFICES ASSUME LayoutInv, [Next]_vars PROVE LayoutInv'
  OBVIOUS
<1>1. ASSUME NEW c \in Capacities, cache_initialize_region(c) PROVE LayoutInv'
  BY <1>1, InitializeStep
<1>2. CASE cache_validate_layout
  BY <1>2, ValidateStep
<1>3. ASSUME NEW i \in 0 .. header.capacity - 1, Write(i) PROVE LayoutInv'
  BY <1>3, WriteStep
<1>4. CASE UNCHANGED vars
  BY <1>4 DEF vars, LayoutInv, TypeOK, AcceptedInv, Accepted, valid_capacity, Intact, Extent,
              get_entry_ptr
<1> QED
  BY <1>1, <1>2, <1>3, <1>4 DEF Next

\* The state keeps its types, and no slot is written below the capacity of an
\* earlier header only: initializing forgets what was written.
THEOREM LayoutTypes == Spec => []TypeOK
<1>1. LayoutInv => TypeOK
  BY DEF LayoutInv
<1> QED
  BY <1>1, LayoutInit, LayoutStep, PTL DEF Spec

\* In regions of at most 2^32 bytes, whatever the sizes of header and entries and
\* whatever header an open accepts: slots stay in the region, off the header, and
\* off each other, although offsets are computed in 32 bits.
THEOREM LayoutIntact == Spec => []Intact
<1>1. LayoutInv => Intact
  BY DEF LayoutInv
<1> QED
  BY <1>1, LayoutInit, LayoutStep, PTL DEF Spec
=============================================================================

------------------------------ MODULE BoundCheck ------------------------------
(***************************************************************************)
(* The run-time bounds checker (bcheck.c).  Memory is divided into blocks  *)
(* of 2^T3_BITS bytes.  A table of two levels, __bound_t1 and its pages,   *)
(* has an entry for each block: the list of the regions that touch it.     *)
(* A region is [start, start + size], with the byte past its end.          *)
(* malloc and the stack frames of the checked program decide where regions *)
(* lie; the checker learns of each, and judges every pointer operation.    *)
(***************************************************************************)
EXTENDS Integers, Sequences, FiniteSets, FiniteSetsExt

CONSTANTS
  BOUND_T1_BITS, BOUND_T2_BITS, BOUND_T3_BITS,
  BOUND_E_BITS,          \* log2 of sizeof(BoundEntry)
  HeapStart, HeapSize,   \* what is marked invalid from &_end on
  Places,                \* bound: where regions may start
  Sizes,                 \* bound: how large they may be
  MaxRegions,            \* bound: regions at a time
  DeleteAcrossPages      \* may a region that spans two pages be deleted?

T2_SIZE   == 2 ^ BOUND_T2_BITS
T3_SIZE   == 2 ^ BOUND_T3_BITS
T23_SIZE  == T2_SIZE * T3_SIZE
Pages     == 0 .. 2 ^ BOUND_T1_BITS - 1
Slots     == 0 .. T2_SIZE - 1
Space     == 2 ^ (BOUND_T1_BITS + BOUND_T2_BITS + BOUND_T3_BITS)
Addr      == 0 .. Space - 1

EMPTY_SIZE      == Space - 1
INVALID_SIZE    == 0
INVALID_POINTER == Space - 2

Region == [start : Addr, size : Addr]

ASSUME BoundCheckAssumption ==
  /\ BOUND_T1_BITS \in Nat \ {0}
  /\ BOUND_T2_BITS \in Nat \ {0}
  /\ BOUND_T3_BITS \in Nat \ {0}
  /\ BOUND_E_BITS \in Nat
  /\ HeapStart \in Addr
  /\ HeapSize \in Addr
  /\ Places \subseteq Addr \ {0}
  /\ Sizes \subseteq Nat
  /\ \A p \in Places, n \in Sizes : p + n < Space - T23_SIZE
  /\ MaxRegions \in Nat

\* What the sizes are to each other; arithmetic that provers do not know.
ASSUME PowersOfTwo ==
  /\ T2_SIZE \in Nat \ {0, 1}
  /\ T3_SIZE \in Nat \ {0, 1}
  /\ 2 ^ BOUND_T1_BITS \in Nat \ {0, 1}
  /\ Space = 2 ^ BOUND_T1_BITS * T23_SIZE

VARIABLES
  t1,         \* __bound_t1: page -> [own, e]; the shared pages are not owned
  allocated,  \* the arrays and chunks the program has (external)
  error       \* what bound_error stopped the program with, or "none"

vars == <<t1, allocated, error>>

Minus(a, b) == (a - b) % Space
Plus(a, b)  == (a + b) % Space

(***************************************************************************)
(* Entries.  regions is the entry and what its next pointers lead to; an   *)
(* entry without a region has start 0.                                     *)
(***************************************************************************)
NoRegion(size) == [start |-> 0, size |-> size]
Entry(size, invalid) == [regions |-> <<NoRegion(size)>>, is_invalid |-> invalid]

__bound_new_page     == [own |-> TRUE,  e |-> [j \in Slots |-> Entry(EMPTY_SIZE, FALSE)]]
__bound_empty_t2     == [own |-> FALSE, e |-> [j \in Slots |-> Entry(EMPTY_SIZE, FALSE)]]
__bound_invalid_t2   == [own |-> FALSE, e |-> [j \in Slots |-> Entry(INVALID_SIZE, TRUE)]]

\* A page that may be written; a page shared until now is replaced by an empty one.
get_page(t, i) == IF t[i].own THEN t[i] ELSE __bound_new_page

Block(a) == a \div T3_SIZE
PageOf(b) == b \div T2_SIZE
SlotOf(b) == b % T2_SIZE
EntryAt(t, a) == t[PageOf(Block(a))].e[SlotOf(Block(a))]

\* The places in a list of the regions that hold a.  Mutant: the byte past the
\* end is not theirs.
HitsInside(l, a) == {i \in DOMAIN l : Minus(a, l[i].start) < l[i].size}
Hits(l, a) == {i \in DOMAIN l : Minus(a, l[i].start) <= l[i].size}

\* What the head of the list shows for a after __bound_find_region.
FoundRegion(entry, a) ==
  LET l == entry.regions
  IN  IF Hits(l, a) # {} THEN l[Min(Hits(l, a))]
      ELSE NoRegion(IF entry.is_invalid THEN INVALID_SIZE ELSE EMPTY_SIZE)

\* __bound_find_region puts the region it finds at the head.
Swapped(l, i) == [l EXCEPT ![1] = l[i], ![i] = l[1]]
__bound_find_region(t, a) ==
  LET l == EntryAt(t, a).regions
  IN  IF Hits(l, a) = {} THEN t
      ELSE [t EXCEPT ![PageOf(Block(a))].e[SlotOf(Block(a))].regions =
              Swapped(l, Min(Hits(l, a)))]

SetHead(entry, r) == [entry EXCEPT !.regions = <<r>> \o Tail(@)]

add_region(entry, r) ==
  IF Head(entry.regions).start = 0 THEN SetHead(entry, r)
  ELSE [entry EXCEPT !.regions = <<r>> \o @]

\* Mutant: the next region is copied to the head without a test for one.
DeleteWithoutNullTest(entry, p, empty_size) ==
  LET l == entry.regions IN
  IF Hits(l, p) = {} THEN entry
  ELSE LET i == Min(Hits(l, p))
       IN  [entry EXCEPT !.regions = SubSeq(l, 1, i - 1) \o SubSeq(l, i + 1, Len(l))]

delete_region(entry, p, empty_size) ==
  LET l == entry.regions IN
  IF Hits(l, p) = {} THEN entry
  ELSE IF l = <<Head(l)>> THEN SetHead(entry, NoRegion(empty_size))
  ELSE LET i == Min(Hits(l, p))
       IN  [entry EXCEPT !.regions = SubSeq(l, 1, i - 1) \o SubSeq(l, i + 1, Len(l))]

(***************************************************************************)
(* Creating and deleting regions.  The first and the last block of a       *)
(* region may have others; those between are its own.                      *)
(***************************************************************************)

\* Mutant: the block of the byte past the end is left out.
LastBlockOfBytes(r) == Block(r.start + (IF r.size = 0 THEN 0 ELSE r.size - 1))
FirstBlock(r) == Block(r.start)
LastBlock(r)  == Block(r.start + r.size)

__bound_new_region(t, r) ==
  LET b1 == FirstBlock(r)
      b2 == LastBlock(r)
      slot(i, j) ==
        LET b == i * T2_SIZE + j
            entry == get_page(t, i).e[j]
        IN  IF b \in {b1, b2} THEN add_region(entry, r)
            ELSE IF b \in b1 .. b2 THEN SetHead(entry, r) ELSE entry
  IN  [i \in Pages |-> IF i \in PageOf(b1) .. PageOf(b2)
                       THEN [own |-> TRUE, e |-> [j \in Slots |-> slot(i, j)]]
                       ELSE t[i]]

\* The page whose entries up to the last block are emptied: get_page is given
\* t2_end, the last block's offset in its page in bytes, instead of t1_end.
LastPage(b2) == SlotOf(b2) * 2 ^ BOUND_E_BITS

\* Mutant: a pointer into the middle of a region will do.
AnswerAnyInside(t, p) ==
  IF FoundRegion(EntryAt(t, p), p).size = EMPTY_SIZE THEN -1 ELSE 0

\* The answer of __bound_delete_region: 0, or -1 and no region goes.
DeleteAnswer(t, p) ==
  LET r == FoundRegion(EntryAt(t, p), p)
  IN  IF r.size = EMPTY_SIZE \/ r.start # p THEN -1 ELSE 0

\* First the blocks up to the end of the region or of its first page, then the
\* pages between, then the last one.
__bound_delete_region(t, p) ==
  LET r  == FoundRegion(EntryAt(t, p), p)
      b1 == FirstBlock(r)
      b2 == LastBlock(r)
      empty_size == IF EntryAt(t, p).is_invalid THEN INVALID_SIZE ELSE EMPTY_SIZE
      found == __bound_find_region(t, p)
      onePage == PageOf(b1) = PageOf(b2)
      stop  == IF onePage THEN b2 ELSE PageOf(b2) * T2_SIZE
      slot(i, j) ==
        LET b == i * T2_SIZE + j
            entry == get_page(found, i).e[j]
        IN  IF b = b1 \/ (onePage /\ b = b2) THEN delete_region(entry, p, empty_size)
            ELSE IF b \in b1 .. stop - 1 THEN SetHead(entry, NoRegion(empty_size))
            ELSE entry
      emptied == [i \in Pages |-> IF i = PageOf(b1) \/ i \in PageOf(b1) .. PageOf(b2) - 1
                  THEN [own |-> TRUE, e |-> [j \in Slots |-> slot(i, j)]]
                  ELSE found[i]]
      last(j) ==
        LET entry == get_page(emptied, LastPage(b2)).e[j]
        IN  IF j < SlotOf(b2) THEN SetHead(entry, NoRegion(empty_size))
            ELSE IF j = SlotOf(b2) THEN delete_region(entry, p, empty_size)
            ELSE entry
  IN  IF onePage THEN emptied
      ELSE [emptied EXCEPT ![LastPage(b2)] =
              [own |-> TRUE, e |-> [j \in Slots |-> last(j)]]]

(***************************************************************************)
(* __bound_init                                                            *)
(***************************************************************************)

\* mark_invalid, where the zone covers at least one whole page.
ZoneFirst(addr)      == (addr + T3_SIZE - 1) \div T3_SIZE
ZoneEnd(addr, size)  == IF Plus(addr, size) = 0 THEN Space \div T3_SIZE
                        ELSE Block(Plus(addr, size))
mark_invalid(t, addr, size) ==
  LET b1 == ZoneFirst(addr)
      b2 == ZoneEnd(addr, size)
      whole(i) == b1 <= i * T2_SIZE /\ (i + 1) * T2_SIZE <= b2
      slot(i, j) == IF i * T2_SIZE + j \in b1 .. b2 - 1
                    THEN [SetHead(get_page(t, i).e[j], [Head(get_page(t, i).e[j].regions)
                                                          EXCEPT !.size = INVALID_SIZE])
                            EXCEPT !.is_invalid = TRUE]
                    ELSE get_page(t, i).e[j]
  IN  [i \in Pages |->
         IF whole(i) THEN __bound_invalid_t2
         ELSE IF i \in PageOf(b1) .. PageOf(b2 - 1)
         THEN [own |-> TRUE, e |-> [j \in Slots |-> slot(i, j)]]
         ELSE t[i]]

InvalidPage == INVALID_POINTER - (INVALID_POINTER % T23_SIZE)
EmptyTable == [i \in Pages |-> __bound_empty_t2]

Init ==
  /\ t1 = mark_invalid(mark_invalid(EmptyTable, InvalidPage, T23_SIZE), HeapStart, HeapSize)
  /\ allocated = {}
  /\ error = "none"

(***************************************************************************)
(* Pointer operations: offset added to p, d bytes read or written there    *)
(* (none for __bound_ptr_add), where r is the region found for p.          *)
(***************************************************************************)
PtrResult(r, p, offset, d) ==
  IF Plus(Minus(p, r.start), offset + d) > r.size THEN INVALID_POINTER
  ELSE Plus(p, offset)

CheckPointer(p) ==
  /\ error = "none"
  /\ t1' = __bound_find_region(t1, p)
  /\ UNCHANGED <<allocated, error>>

(***************************************************************************)
(* malloc, free, realloc and stack frames                                  *)
(***************************************************************************)
Bytes(r) == r.start .. r.start + r.size

\* malloc(size + 1), and the byte between arrays, keep regions apart.
Free(r) == /\ \A q \in allocated : Bytes(q) \cap Bytes(r) = {}
           /\ Cardinality(allocated) < MaxRegions

\* __bound_malloc, __bound_memalign, an array of __bound_local_new or of .bounds.
New(p, size) ==
  LET r == [start |-> p, size |-> size] IN
  /\ error = "none"
  /\ Free(r)
  /\ t1' = __bound_new_region(t1, r)
  /\ allocated' = allocated \cup {r}
  /\ UNCHANGED error

\* A page number past the table is read from what lies behind it.
MayDelete(t, p) ==
  LET r == FoundRegion(EntryAt(t, p), p)
  IN  PageOf(FirstBlock(r)) # PageOf(LastBlock(r)) =>
        DeleteAcrossPages /\ LastPage(LastBlock(r)) \in Pages

\* __bound_free, or an array of __bound_local_delete.
Delete(p) ==
  /\ error = "none"
  /\ IF DeleteAnswer(t1, p) = 0
     THEN /\ MayDelete(t1, p)
          /\ t1' = __bound_delete_region(t1, p)
          /\ allocated' = {r \in allocated : r.start # p}
          /\ UNCHANGED error
     ELSE /\ t1' = __bound_find_region(t1, p)
          /\ error' = "freeing invalid region"
          /\ UNCHANGED allocated

RegionSize(t, p) ==
  LET r == FoundRegion(EntryAt(t, p), p)
  IN  IF r.start = p THEN r.size ELSE EMPTY_SIZE

\* __bound_realloc of p to q: the new region is there before the old one goes.
\* The contents, copied in the old size, are not modelled.
Realloc(p, q, size) ==
  LET r   == [start |-> q, size |-> size]
      t   == __bound_new_region(t1, r)
      t_2 == __bound_find_region(t, p)
  IN
  /\ error = "none"
  /\ size > 0
  /\ Free(r)
  /\ IF RegionSize(t, p) = EMPTY_SIZE
     THEN /\ error' = "realloc'ing invalid pointer"
          /\ t1' = t_2
          /\ allocated' = allocated \cup {r}
     ELSE /\ MayDelete(t_2, p)
          /\ t1' = __bound_delete_region(t_2, p)
          /\ allocated' = {o \in allocated \cup {r} : o.start # p}
          /\ UNCHANGED error

Next ==
  \/ \E p \in Places, size \in Sizes : New(p, size)
  \/ \E p \in Places : Delete(p)
  \/ \E p, q \in Places, size \in Sizes : Realloc(p, q, size)
  \/ \E p \in UNION {Bytes(r) : r \in allocated} : CheckPointer(p)

Spec == Init /\ [][Next]_vars

(***************************************************************************)
(* Properties                                                              *)
(***************************************************************************)
TableTypeOK ==
  /\ DOMAIN t1 = Pages
  /\ \A i \in Pages, j \in Slots :
       /\ t1[i].e[j].regions \in Seq(Region)
       /\ t1[i].e[j].regions # <<>>
       /\ t1[i].e[j].is_invalid \in BOOLEAN
  /\ allocated \subseteq Region
  /\ error \in {"none", "freeing invalid region", "realloc'ing invalid pointer"}

Listed(entry) == {entry.regions[i] : i \in {i \in DOMAIN entry.regions : entry.regions[i].start # 0}}

\* The table is exact: each block lists just the regions that touch it, each
\* once, whatever the order of allocations, releases and searches was.
TableIsExact ==
  \A i \in Pages, j \in Slots :
    LET b == i * T2_SIZE + j
        entry == t1[i].e[j]
        touching == {r \in allocated : \E a \in Bytes(r) : Block(a) = b}
    IN  /\ Listed(entry) = touching
        /\ Len(entry.regions) = IF touching = {} THEN 1 ELSE Cardinality(touching)

Zone == (ZoneFirst(HeapStart) .. ZoneEnd(HeapStart, HeapSize) - 1)
          \cup (Block(InvalidPage) .. Block(Space - 1))
\* NULL is nobody's, and free lets it pass.
Tried == {a \in Addr \ {0} : \E p \in Places, n \in Sizes : a \in p - 1 .. p + n + 1}
Holder(p) == {r \in allocated : p \in Bytes(r)}

\* What is added to a pointer, and how many bytes are read or written there.
TriedOffsets == {-5, -1, 0, 3}
TriedWidths  == {0, 1, 2}

\* What a program may do with a region: read and write its own bytes, and let
\* a pointer reach the byte past its end.
Allowed(h, a, d) == h.start <= a /\ a + d <= h.start + h.size
\* An access that begins before the region and ends at its start or later.
BeginsBefore(h, a, d) == a < h.start /\ h.start <= a + d

\* A pointer into a region, or just past it, is passed exactly when what is
\* done with it is allowed; accesses that begin before the region but end in
\* it are left to AccessesAreInside.  "when a pointer comes from
\* unchecked code, it is assumed to be valid" (www/tinycc-doc.html:1029).
ChecksAgree ==
  \A p \in Tried, offset \in TriedOffsets, d \in TriedWidths :
    LET answer == PtrResult(FoundRegion(EntryAt(t1, p), p), p, offset, d)
    IN IF Holder(p) = {}
       THEN Block(p) \notin Zone => answer = Plus(p, offset)
       ELSE \A h \in Holder(p) :
              \/ BeginsBefore(h, p + offset, d)
              \/ answer = IF Allowed(h, p + offset, d) THEN Plus(p, offset)
                          ELSE INVALID_POINTER

\* Every access that is passed lies in the region of its pointer: "the
\* resulting must be strictly inside the region" (bcheck.c:175).
AccessesAreInside ==
  \A p \in Tried, offset \in TriedOffsets, d \in TriedWidths \ {0} :
    \A h \in Holder(p) :
      \/ PtrResult(FoundRegion(EntryAt(t1, p), p), p, offset, d) = INVALID_POINTER
      \/ Allowed(h, p + offset, d)

\* free and realloc recognise just the starts of regions, and realloc copies
\* as many bytes as were allocated.
FreesAgree ==
  \A p \in Tried :
    LET owner == {r \in allocated : r.start = p} IN
    /\ DeleteAnswer(t1, p) = 0 <=> owner # {}
    /\ \A r \in owner : RegionSize(t1, p) = r.size

\* Whatever was searched for last, checks, free and realloc take a pointer for
\* the same region, until bound_error stops the program.
CheckersAgree == error = "none" => ChecksAgree /\ FreesAgree
===============================================================================

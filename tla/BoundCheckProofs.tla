--------------------------- MODULE BoundCheckProofs ---------------------------
(***************************************************************************)
(* Theorems about module BoundCheck, for every size of the table and every *)
(* set of places.  A table of regions is exact because each entry lists    *)
(* the regions that touch its block once, in whatever order searches have  *)
(* left them, because regions are apart, and because a page that is still  *)
(* shared has none.                                                        *)
(***************************************************************************)
EXTENDS BoundCheck, FiniteSetTheorems, TLAPS

(***************************************************************************)
(* Arithmetic: division, addresses and blocks                              *)
(***************************************************************************)
\* A number is where quotient and remainder say.
LEMMA Division ==
  ASSUME NEW x \in Nat, NEW s \in Nat \ {0}
  PROVE  /\ x \div s \in Nat
         /\ x % s \in 0 .. s - 1
         /\ x = (x \div s) * s + (x % s)
PROOF
  <1>1. x \div s \in Nat /\ (x \div s) * s <= x /\ x < (x \div s) * s + s
    OBVIOUS
  <1>2. ASSUME NEW y \in Nat, NEW j \in 0 .. s - 1 PROVE (y * s + j) % s = j
    OBVIOUS
  <1>3. PICK y \in Nat : y = x \div s
    BY <1>1
  <1>4. PICK j \in 0 .. s - 1 : x = y * s + j
    <2>1. x - y * s \in 0 .. s - 1
      BY <1>1, <1>3
    <2> QED
      BY <2>1
  <1>5. (y * s + j) % s = j
    BY <1>2, <1>3, <1>4
  <1>6. x % s = j
    BY <1>4, <1>5
  <1>7. x = (x \div s) * s + (x % s)
    BY <1>3, <1>4, <1>6, Zenon
  <1>8. x % s \in 0 .. s - 1
    BY <1>4, <1>6, Zenon
  <1> QED
    BY <1>1, <1>7, <1>8

\* A number is its quotient's multiple and something less than the divisor.
LEMMA Quotient ==
  ASSUME NEW x \in Nat, NEW s \in Nat \ {0}
  PROVE  x \div s \in Nat /\ \E r \in 0 .. s - 1 : x = (x \div s) * s + r
PROOF
  <1>1. PICK r : r = x % s
    OBVIOUS
  <1>2. x \div s \in Nat /\ r \in 0 .. s - 1 /\ x = (x \div s) * s + r
    BY <1>1, Division, Zenon
  <1> QED
    BY <1>2, Zenon

\* What lies between two multiples has this quotient and remainder.
LEMMA DivisionIs ==
  ASSUME NEW s \in Nat \ {0}, NEW y \in Nat, NEW j \in 0 .. s - 1
  PROVE  (y * s + j) \div s = y /\ (y * s + j) % s = j
PROOF OBVIOUS

\* Division keeps the order.
LEMMA DivisionMonotonic ==
  ASSUME NEW s \in Nat \ {0}, NEW x \in Nat, NEW y \in Nat, x <= y
  PROVE  x \div s <= y \div s
PROOF OBVIOUS

\* Multiples keep the order.
LEMMA Multiples ==
  ASSUME NEW s \in Nat \ {0}, NEW y \in Nat, NEW z \in Nat, y < z
  PROVE  y * s + s <= z * s
PROOF OBVIOUS

\* Addresses wrap once at most.
LEMMA Wraps ==
  ASSUME NEW s \in Nat \ {0}, NEW x \in Int
  PROVE  /\ 0 <= x /\ x < s => x % s = x
         /\ -s <= x /\ x < 0 => x % s = x + s
PROOF OBVIOUS

\* The sizes, and how many blocks there are.
LEMMA SizesAre ==
  /\ T2_SIZE \in Nat \ {0, 1}
  /\ T3_SIZE \in Nat \ {0, 1}
  /\ T23_SIZE \in Nat
  /\ T23_SIZE = T2_SIZE * T3_SIZE
  /\ T23_SIZE >= 4
  /\ 2 ^ BOUND_T1_BITS \in Nat \ {0, 1}
  /\ Space \in Nat \ {0}
  /\ Space = (2 ^ BOUND_T1_BITS * T2_SIZE) * T3_SIZE
  /\ Space >= T23_SIZE + T23_SIZE
PROOF
  <1>1. PICK k, m, n : k = 2 ^ BOUND_T1_BITS /\ m = T2_SIZE /\ n = T3_SIZE
    OBVIOUS
  <1>2. k \in Nat \ {0, 1} /\ m \in Nat \ {0, 1} /\ n \in Nat \ {0, 1}
    BY <1>1, PowersOfTwo
  <1>3. T23_SIZE = m * n /\ Space = k * (m * n)
    BY <1>1, PowersOfTwo DEF T23_SIZE
  <1>4. m * n \in Nat /\ m * n >= 4
    BY <1>2
  <1>5. ASSUME NEW x \in Nat, x >= 4 PROVE k * x >= x + x /\ k * x \in Nat \ {0}
    <2>1. PICK h \in Nat : k = h + 2
      <3>1. k - 2 \in Nat /\ k = (k - 2) + 2
        BY <1>2
      <3> QED
        BY <3>1
    <2>2. h * x \in Nat /\ (h + 2) * x = h * x + (x + x)
      BY <2>1
    <2> QED
      BY <1>5, <2>1, <2>2
  <1>6. k * (m * n) = (k * m) * n
    BY <1>2
  <1> QED
    BY <1>1, <1>2, <1>3, <1>4, <1>5, <1>6

\* Page and slot number the blocks.
LEMMA SlotsAreBlocks ==
  ASSUME NEW i \in Pages, NEW j \in Slots
  PROVE  /\ i * T2_SIZE + j \in Nat
         /\ PageOf(i * T2_SIZE + j) = i
         /\ SlotOf(i * T2_SIZE + j) = j
PROOF
  <1>1. i \in Nat /\ j \in 0 .. T2_SIZE - 1 /\ T2_SIZE \in Nat \ {0}
    BY SizesAre DEF Pages, Slots
  <1> HIDE DEF T2_SIZE
  <1>2. i * T2_SIZE + j \in Nat
    BY <1>1
  <1> QED
    BY <1>1, <1>2, DivisionIs DEF PageOf, SlotOf

\* Every address has its block, page and slot.
LEMMA AddressesAreInBlocks ==
  ASSUME NEW a \in Addr
  PROVE  /\ Block(a) \in Nat
         /\ PageOf(Block(a)) \in Pages
         /\ SlotOf(Block(a)) \in Slots
         /\ Block(a) = PageOf(Block(a)) * T2_SIZE + SlotOf(Block(a))
PROOF
  <1>1. PICK k, m, n, b, p : /\ k = 2 ^ BOUND_T1_BITS /\ m = T2_SIZE /\ n = T3_SIZE
                             /\ b = Block(a) /\ p = PageOf(Block(a))
    OBVIOUS
  <1>2. k \in Nat \ {0} /\ m \in Nat \ {0} /\ n \in Nat \ {0} /\ Space = (k * m) * n
        /\ a \in Nat /\ a < Space
    BY <1>1, SizesAre DEF Addr
  <1>3. b \in Nat /\ a >= b * n
    <2>1. b = a \div n
      BY <1>1, Zenon DEF Block
    <2>2. PICK r : b \in Nat /\ r \in 0 .. n - 1 /\ a = b * n + r
      BY <1>2, <2>1, Quotient, Zenon
    <2> QED
      BY <1>2, <2>2
  <1>4. k * m \in Nat
    BY <1>2
  <1>5. b < k * m
    <2>1. CASE k * m < b
      BY <1>2, <1>3, <1>4, <2>1, Multiples
    <2>2. CASE k * m = b
      BY <1>2, <1>3, <1>4, <2>2
    <2> QED
      BY <1>3, <1>4, <2>1, <2>2
  <1>6. PICK r : p \in Nat /\ b = p * m + r /\ r \in 0 .. m - 1 /\ r = SlotOf(b)
    BY <1>1, <1>2, <1>3, Division DEF PageOf, SlotOf
  <1>7. p < k
    <2>1. CASE k < p
      <3>1. k * m + m <= p * m /\ p * m \in Nat
        BY <1>2, <1>6, <2>1, Multiples
      <3> QED
        BY <1>2, <1>4, <1>5, <1>6, <3>1
    <2>2. CASE k = p
      BY <1>2, <1>4, <1>5, <1>6, <2>2
    <2> QED
      BY <1>2, <1>6, <2>1, <2>2
  <1> QED
    BY <1>1, <1>2, <1>3, <1>6, <1>7 DEF Pages, Slots

(***************************************************************************)
(* Regions                                                                 *)
(***************************************************************************)
\* A region as malloc and the stack give it: not at NULL, and well below the
\* top of the address space.
Placed(r) ==
  /\ r \in Region
  /\ r.start # 0
  /\ r.start + r.size < Space - T23_SIZE
Apart(S) == \A q, r \in S : q # r => Bytes(q) \cap Bytes(r) = {}
RegionsOK(S) == (\A r \in S : Placed(r)) /\ Apart(S)

\* The regions of S that touch block b.
Touching(S, b) == {r \in S : b \in FirstBlock(r) .. LastBlock(r)}

\* What a placed region is made of.
LEMMA PlacedIs ==
  ASSUME NEW r, Placed(r)
  PROVE  /\ r = [start |-> r.start, size |-> r.size]
         /\ r.start \in Nat \ {0} /\ r.size \in Nat
         /\ r.start \in Addr /\ r.start + r.size \in Addr
         /\ r.size < EMPTY_SIZE
         /\ r.start \in Bytes(r)
         /\ Bytes(r) \subseteq Addr \ {0}
         /\ FirstBlock(r) \in Nat /\ LastBlock(r) \in Nat
         /\ FirstBlock(r) <= LastBlock(r)
         /\ PageOf(FirstBlock(r)) \in Pages /\ PageOf(LastBlock(r)) \in Pages
PROOF
  <1>1. /\ r = [start |-> r.start, size |-> r.size]
        /\ r.start \in Addr /\ r.size \in Addr /\ r.start # 0
        /\ r.start + r.size < Space - T23_SIZE
    BY DEF Placed, Region
  <1>2. Space \in Nat /\ T23_SIZE \in Nat /\ T23_SIZE >= 4
    BY SizesAre
  <1>3. r.start \in Nat \ {0} /\ r.size \in Nat
    BY <1>1, <1>2 DEF Addr
  <1>4. r.start + r.size \in Addr
    BY <1>1, <1>2, <1>3 DEF Addr
  <1>5. r.size < EMPTY_SIZE
    BY <1>1, <1>2, <1>3 DEF EMPTY_SIZE
  <1>6. r.start \in Bytes(r) /\ Bytes(r) \subseteq Addr \ {0}
    BY <1>1, <1>2, <1>3, <1>4 DEF Bytes, Addr
  <1>7. FirstBlock(r) \in Nat /\ PageOf(FirstBlock(r)) \in Pages
    BY <1>1, AddressesAreInBlocks DEF FirstBlock
  <1>8. LastBlock(r) \in Nat /\ PageOf(LastBlock(r)) \in Pages
    BY <1>4, AddressesAreInBlocks DEF LastBlock
  <1>9. FirstBlock(r) <= LastBlock(r)
    <2>1. ASSUME NEW s \in Nat \ {0}, NEW x \in Nat, NEW y \in Nat
          PROVE  x \div s <= (x + y) \div s
      BY <2>1, DivisionMonotonic
    <2> QED
      BY <1>3, <2>1, SizesAre DEF FirstBlock, LastBlock, Block
  <1> QED
    BY <1>1, <1>3, <1>4, <1>5, <1>6, <1>7, <1>8, <1>9

\* A block that a region touches holds one of its bytes, and the blocks between
\* its first and its last hold nothing else.
LEMMA TouchedBlocks ==
  ASSUME NEW r, Placed(r), NEW b \in Nat
  PROVE  /\ (\E a \in Bytes(r) : Block(a) = b) <=> b \in FirstBlock(r) .. LastBlock(r)
         /\ \A a \in Nat : FirstBlock(r) < Block(a) /\ Block(a) < LastBlock(r) => a \in Bytes(r)
PROOF
  <1>1. PICK s, z, n, f, l :
          /\ s = r.start /\ z = r.start + r.size /\ n = T3_SIZE
          /\ f = FirstBlock(r) /\ l = LastBlock(r)
    OBVIOUS
  <1>2. s \in Nat /\ z \in Nat /\ s <= z /\ n \in Nat \ {0} /\ Bytes(r) = s .. z
    BY <1>1, PlacedIs, SizesAre DEF Bytes
  <1>3. f = s \div n /\ l = z \div n /\ f \in Nat /\ l \in Nat /\ f <= l
    BY <1>1, PlacedIs DEF FirstBlock, LastBlock, Block
  <1>4. \A a : Block(a) = a \div n
    BY <1>1 DEF Block
  <1>5. ASSUME NEW a \in s .. z PROVE Block(a) \in f .. l
    <2>1. a \in Nat /\ s <= a /\ a <= z
      BY <1>2
    <2>2. s \div n <= a \div n /\ a \div n <= z \div n /\ a \div n \in Nat
      BY <1>2, <2>1, DivisionMonotonic, Quotient, Zenon
    <2>3. f <= Block(a) /\ Block(a) <= l /\ Block(a) \in Nat
      BY <1>3, <1>4, <2>2, Zenon
    <2> QED
      BY <1>3, <2>3
  <1>6. ASSUME b \in f .. l PROVE \E a \in s .. z : Block(a) = b
    <2>1. CASE b = f
      BY <1>2, <1>3, <1>4, <2>1
    <2>2. CASE f < b
      <3>1. b * n \in Nat /\ (b * n) \div n = b
        <4>1. 0 \in 0 .. n - 1 /\ b * n \in Nat /\ b * n + 0 = b * n
          BY <1>2
        <4> QED
          BY <1>2, <4>1, DivisionIs
      <3>2. s < b * n
        <4>1. PICK j \in 0 .. n - 1 : s = f * n + j
          BY <1>2, <1>3, Division
        <4>2. f * n + n <= b * n /\ f * n \in Nat
          BY <1>2, <1>3, <2>2, Multiples
        <4> QED
          BY <1>2, <3>1, <4>1, <4>2
      <3>3. b * n <= z
        <4>1. PICK j \in 0 .. n - 1 : z = l * n + j
          BY <1>2, <1>3, Division
        <4>2. l * n \in Nat /\ (b = l \/ b * n + n <= l * n)
          BY <1>2, <1>3, <1>6, Multiples
        <4> QED
          BY <1>2, <3>1, <4>1, <4>2
      <3>4. b * n \in s .. z
        BY <1>2, <3>1, <3>2, <3>3
      <3>5. Block(b * n) = b
        BY <1>4, <3>1, Zenon
      <3> QED
        BY <3>4, <3>5, Zenon
    <2> QED
      BY <1>3, <1>6, <2>1, <2>2
  <1>7. ASSUME NEW a \in Nat, f < Block(a), Block(a) < l PROVE a \in s .. z
    <2>1. PICK b1 : b1 = Block(a)
      OBVIOUS
    <2>2. b1 = a \div n /\ b1 \in Nat
      BY <1>2, <1>4, <2>1, Quotient, Zenon
    <2>3. f < b1 /\ b1 < l
      BY <1>7, <2>1
    <2>4. a < s => b1 <= f
      <3>1. a < s => a \div n <= s \div n
        <4>1. a < s => a <= s
          BY <1>2
        <4> QED
          BY <1>2, <4>1, DivisionMonotonic, Zenon
      <3> QED
        BY <1>3, <2>2, <3>1, Zenon
    <2>5. z < a => l <= b1
      <3>1. z < a => z \div n <= a \div n
        <4>1. z < a => z <= a
          BY <1>2
        <4> QED
          BY <1>2, <4>1, DivisionMonotonic, Zenon
      <3> QED
        BY <1>3, <2>2, <3>1, Zenon
    <2>6. ~(a < s) /\ ~(z < a)
      <3>1. f \in Nat /\ l \in Nat /\ b1 \in Nat
        BY <1>3, <2>2
      <3>2. ~(b1 <= f) /\ ~(l <= b1)
        BY <2>3, <3>1
      <3> QED
        BY <2>4, <2>5, <3>2
    <2> QED
      BY <1>2, <2>6
  <1> QED
    BY <1>1, <1>2, <1>5, <1>6, <1>7

\* The test of __bound_find_region: a pointer is in the region, or just past it.
LEMMA HitIsHolding ==
  ASSUME NEW r, Placed(r), NEW a \in Addr
  PROVE  Minus(a, r.start) <= r.size <=> a \in Bytes(r)
PROOF
  <1>1. PICK s, n, m, x, y :
          /\ s = r.start /\ n = r.size /\ m = Space
          /\ x = a - s /\ y = Minus(a, r.start)
    OBVIOUS
  <1>2. /\ s \in Nat /\ n \in Nat /\ a \in Nat /\ a < m /\ m \in Nat \ {0}
        /\ s + n < m /\ Bytes(r) = s .. s + n
    BY <1>1, PlacedIs, SizesAre DEF Bytes, Addr
  <1>3. y = x % m
    BY <1>1, Zenon DEF Minus
  <1>4. x \in Int /\ x = a - s
    BY <1>1, <1>2
  <1>5. CASE s <= a
    <2>1. 0 <= x /\ x < m
      BY <1>2, <1>4, <1>5
    <2>2. y = x
      BY <1>2, <1>3, <1>4, <2>1, Wraps, Zenon
    <2> QED
      BY <1>1, <1>2, <1>4, <1>5, <2>2
  <1>6. CASE a < s
    <2>1. -m <= x /\ x < 0
      BY <1>2, <1>4, <1>6
    <2>2. y = x + m
      BY <1>2, <1>3, <1>4, <2>1, Wraps, Zenon
    <2> QED
      BY <1>1, <1>2, <1>4, <1>6, <2>2
  <1> QED
    BY <1>2, <1>5, <1>6

(***************************************************************************)
(* Entries                                                                 *)
(***************************************************************************)
EntryType == [regions : Seq(Region), is_invalid : BOOLEAN]

\* l lists the regions T, each once; where there is none it is one entry that
\* says so.
ListsNone(l) == Len(l) = 1 /\ \E x \in {EMPTY_SIZE, INVALID_SIZE} : l[1] = NoRegion(x)
ListsAll(l, T) ==
  /\ \A k \in 1 .. Len(l) : l[k] \in T
  /\ \A r \in T : \E k \in 1 .. Len(l) : l[k] = r
  /\ \A k, m \in 1 .. Len(l) : l[k] = l[m] => k = m
Lists(l, T) == IF T = {} THEN ListsNone(l) ELSE ListsAll(l, T)
EntryOK(e, T) == e \in EntryType /\ Lists(e.regions, T)

\* What stands for no region is a region that starts at NULL.
LEMMA NoRegionIs ==
  /\ EMPTY_SIZE \in Addr /\ INVALID_SIZE \in Addr /\ 0 \in Addr
  /\ EMPTY_SIZE # INVALID_SIZE
  /\ \A x \in Addr : NoRegion(x) \in Region
  /\ \A x : NoRegion(x).start = 0 /\ NoRegion(x).size = x
PROOF
  <1>1. EMPTY_SIZE \in Addr /\ INVALID_SIZE \in Addr /\ 0 \in Addr /\ EMPTY_SIZE # INVALID_SIZE
    BY SizesAre DEF EMPTY_SIZE, INVALID_SIZE, Addr
  <1> QED
    BY <1>1 DEF NoRegion, Region

\* Lists are never empty.
LEMMA ListIs ==
  ASSUME NEW l \in Seq(Region), NEW T, Lists(l, T)
  PROVE  /\ Len(l) \in Nat \ {0} /\ DOMAIN l = 1 .. Len(l) /\ l # <<>>
         /\ Head(l) = l[1] /\ l[1] \in Region
         /\ T = {} => l = <<l[1]>> /\ l[1].start = 0
         /\ T # {} => l[1] \in T
PROOF
  <1>1. Len(l) \in Nat /\ DOMAIN l = 1 .. Len(l)
    OBVIOUS
  <1>2. Len(l) # 0
    BY <1>1 DEF Lists, ListsNone, ListsAll
  <1>3. l # <<>> /\ Head(l) = l[1] /\ l[1] \in Region
    BY <1>1, <1>2
  <1>4. T = {} => l = <<l[1]>> /\ l[1].start = 0
    <2>1. ASSUME T = {} PROVE l = <<l[1]>>
      <3>1. Len(l) = 1
        BY <2>1 DEF Lists, ListsNone
      <3> QED
        BY <1>1, <1>3, <3>1
    <2>2. ASSUME T = {} PROVE l[1].start = 0
      BY <2>2, NoRegionIs DEF Lists, ListsNone
    <2> QED
      BY <2>1, <2>2
  <1> QED
    BY <1>1, <1>2, <1>3, <1>4 DEF Lists, ListsAll

\* A list finds the one region that holds a.
LEMMA FindsHolder ==
  ASSUME NEW l \in Seq(Region), NEW T, Lists(l, T), RegionsOK(T), NEW a \in Addr,
         NEW h \in T, a \in Bytes(h)
  PROVE  \E k \in 1 .. Len(l) : Hits(l, a) = {k} /\ l[k] = h /\ Min(Hits(l, a)) = k
PROOF
  <1>1. ListsAll(l, T)
    BY DEF Lists
  <1>2. PICK k \in 1 .. Len(l) : l[k] = h
    BY <1>1 DEF ListsAll
  <1>3. DOMAIN l = 1 .. Len(l)
    OBVIOUS
  <1>4. ASSUME NEW m \in 1 .. Len(l)
        PROVE  Minus(a, l[m].start) <= l[m].size <=> m = k
    <2>1. PICK q : q = l[m]
      OBVIOUS
    <2>2. q \in T /\ Placed(q)
      BY <1>1, <2>1 DEF ListsAll, RegionsOK
    <2>3. Minus(a, q.start) <= q.size <=> a \in Bytes(q)
      BY <2>2, HitIsHolding
    <2>4. a \in Bytes(q) <=> q = h
      BY <2>2 DEF RegionsOK, Apart
    <2>5. q = h <=> m = k
      BY <1>1, <1>2, <2>1 DEF ListsAll
    <2> QED
      BY <2>1, <2>3, <2>4, <2>5
  <1>5. Hits(l, a) = {k}
    BY <1>3, <1>4 DEF Hits
  <1>6. Min({k}) = k
    BY <1>2 DEF Min
  <1> QED
    BY <1>2, <1>5, <1>6

\* Where nothing holds a, no region is found.
LEMMA FindsNone ==
  ASSUME NEW l \in Seq(Region), NEW T, Lists(l, T), RegionsOK(T), NEW a \in Addr \ {0},
         \A h \in T : a \notin Bytes(h)
  PROVE  /\ T # {} => Hits(l, a) = {}
         /\ T = {} => \/ Hits(l, a) = {}
                      \/ Hits(l, a) = {1} /\ Min(Hits(l, a)) = 1 /\ l[1] = NoRegion(EMPTY_SIZE)
PROOF
  <1>1. DOMAIN l = 1 .. Len(l)
    OBVIOUS
  <1>2. ASSUME T # {} PROVE Hits(l, a) = {}
    <2>1. ASSUME NEW m \in 1 .. Len(l) PROVE ~(Minus(a, l[m].start) <= l[m].size)
      <3>1. PICK q : q = l[m]
        OBVIOUS
      <3>2. q \in T /\ Placed(q)
        BY <1>2, <3>1 DEF Lists, ListsAll, RegionsOK
      <3> QED
        BY <3>1, <3>2, HitIsHolding
    <2> QED
      BY <1>1, <2>1 DEF Hits
  <1>3. ASSUME T = {}
        PROVE  \/ Hits(l, a) = {}
               \/ Hits(l, a) = {1} /\ Min(Hits(l, a)) = 1 /\ l[1] = NoRegion(EMPTY_SIZE)
    <2>1. Len(l) = 1 /\ \E x \in {EMPTY_SIZE, INVALID_SIZE} : l[1] = NoRegion(x)
      BY <1>3 DEF Lists, ListsNone
    <2>2. Hits(l, a) \subseteq {1}
      BY <1>1, <2>1 DEF Hits
    <2>3. Min({1}) = 1
      BY DEF Min
    <2>4. CASE l[1] = NoRegion(EMPTY_SIZE)
      BY <2>2, <2>3, <2>4
    <2>5. CASE l[1] = NoRegion(INVALID_SIZE)
      <3>1. Minus(a, 0) = a /\ a \in Nat /\ a > 0
        <4>1. PICK s : s = Space
          OBVIOUS
        <4>2. s \in Nat \ {0} /\ a \in Nat /\ a > 0 /\ a < s /\ a - 0 = a
          BY <4>1, SizesAre DEF Addr
        <4>3. a % s = a
          BY <4>2, Wraps
        <4> QED
          BY <4>1, <4>2, <4>3, Zenon DEF Minus
      <3>2. l[1].start = 0 /\ l[1].size = 0
        BY <2>5 DEF NoRegion, INVALID_SIZE
      <3>3. 1 \notin Hits(l, a)
        BY <3>1, <3>2 DEF Hits
      <3> QED
        BY <2>2, <3>3
    <2> QED
      BY <2>1, <2>4, <2>5
  <1> QED
    BY <1>2, <1>3

\* What the head of an entry shows for a: the region that holds it.
LEMMA FoundIs ==
  ASSUME NEW e, NEW T, EntryOK(e, T), RegionsOK(T), NEW a \in Addr \ {0}
  PROVE  /\ \A h \in T : a \in Bytes(h) => FoundRegion(e, a) = h
         /\ (\A h \in T : a \notin Bytes(h)) =>
              \E x \in {EMPTY_SIZE, INVALID_SIZE} :
                FoundRegion(e, a) = NoRegion(x) /\ (~e.is_invalid => x = EMPTY_SIZE)
PROOF
  <1>1. PICK l : l = e.regions
    OBVIOUS
  <1>2. l \in Seq(Region) /\ Lists(l, T)
    BY <1>1 DEF EntryOK, EntryType
  <1>3. FoundRegion(e, a) =
          IF Hits(l, a) # {} THEN l[Min(Hits(l, a))]
          ELSE NoRegion(IF e.is_invalid THEN INVALID_SIZE ELSE EMPTY_SIZE)
    BY <1>1 DEF FoundRegion
  <1>4. ASSUME NEW h \in T, a \in Bytes(h) PROVE FoundRegion(e, a) = h
    <2>1. PICK k \in 1 .. Len(l) : Hits(l, a) = {k} /\ l[k] = h /\ Min(Hits(l, a)) = k
      BY <1>2, <1>4, FindsHolder
    <2>2. Hits(l, a) # {}
      BY <2>1
    <2> QED
      BY <1>3, <2>1, <2>2
  <1>5. ASSUME \A h \in T : a \notin Bytes(h)
        PROVE  \E x \in {EMPTY_SIZE, INVALID_SIZE} :
                 FoundRegion(e, a) = NoRegion(x) /\ (~e.is_invalid => x = EMPTY_SIZE)
    <2>1. CASE Hits(l, a) = {}
      BY <1>3, <2>1
    <2>2. CASE Hits(l, a) # {}
      <3>1. Min(Hits(l, a)) = 1 /\ l[1] = NoRegion(EMPTY_SIZE)
        BY <1>2, <1>5, <2>2, FindsNone
      <3> QED
        BY <1>3, <2>2, <3>1
    <2> QED
      BY <2>1, <2>2
  <1> QED
    BY <1>4, <1>5

\* A search only changes the order of a list.
LEMMA SwapKeeps ==
  ASSUME NEW l \in Seq(Region), NEW T, Lists(l, T), NEW i \in 1 .. Len(l)
  PROVE  Swapped(l, i) \in Seq(Region) /\ Lists(Swapped(l, i), T)
PROOF
  <1>1. PICK s : s = Swapped(l, i)
    OBVIOUS
  <1>2. s = [[l EXCEPT ![1] = l[i]] EXCEPT ![i] = l[1]]
    BY <1>1 DEF Swapped
  <1>3. Len(l) \in Nat \ {0} /\ DOMAIN l = 1 .. Len(l)
    BY ListIs
  <1>4. s \in Seq(Region) /\ Len(s) = Len(l)
    BY <1>2, <1>3
  <1>5. \A k \in 1 .. Len(l) : s[k] = IF k = i THEN l[1] ELSE IF k = 1 THEN l[i] ELSE l[k]
    BY <1>2, <1>3
  <1>6. CASE T = {}
    <2>3. ListsNone(l)
      BY <1>6 DEF Lists
    <2>4. Len(l) = 1
      BY <2>3 DEF ListsNone
    <2>1. i = 1 /\ Len(l) = 1
      BY <2>4
    <2>2. s[1] = l[1]
      BY <1>5, <2>1
    <2> QED
      BY <1>1, <1>4, <1>6, <2>2, <2>3, <2>4 DEF Lists, ListsNone
  <1>7. CASE T # {}
    <2>1. ListsAll(l, T)
      BY <1>7 DEF Lists
    <2>2. \A k \in 1 .. Len(l) : \E m \in 1 .. Len(l) : s[k] = l[m]
      BY <1>3, <1>5
    <2>3. \A m \in 1 .. Len(l) : \E k \in 1 .. Len(l) : s[k] = l[m]
      <3>1. ASSUME NEW m \in 1 .. Len(l) PROVE \E k \in 1 .. Len(l) : s[k] = l[m]
        <4>1. CASE m = 1
          BY <1>5, <4>1
        <4>2. CASE m = i /\ m # 1
          BY <1>3, <1>5, <4>2
        <4>3. CASE m # i /\ m # 1
          BY <1>5, <4>3
        <4> QED
          BY <4>1, <4>2, <4>3
      <3> QED
        BY <3>1
    <2>4. \A k, m \in 1 .. Len(l) : s[k] = s[m] => k = m
      BY <1>3, <1>5, <2>1 DEF ListsAll
    <2>5. ListsAll(s, T)
      <3>1. \A k \in 1 .. Len(s) : s[k] \in T
        BY <1>4, <2>1, <2>2 DEF ListsAll
      <3>2. ASSUME NEW r \in T PROVE \E k \in 1 .. Len(s) : s[k] = r
        <4>1. PICK m \in 1 .. Len(l) : l[m] = r
          BY <2>1 DEF ListsAll
        <4> QED
          BY <1>4, <2>3, <4>1
      <3> QED
        BY <1>4, <2>4, <3>1, <3>2 DEF ListsAll
    <2> QED
      BY <1>1, <1>4, <1>7, <2>5 DEF Lists
  <1> QED
    BY <1>6, <1>7

\* A region put in front of a list.
LEMMA PutInFront ==
  ASSUME NEW l \in Seq(Region), NEW r \in Region
  PROVE  /\ <<r>> \o l \in Seq(Region)
         /\ Len(<<r>> \o l) = Len(l) + 1
         /\ (<<r>> \o l)[1] = r
         /\ \A k \in 1 .. Len(l) : (<<r>> \o l)[k + 1] = l[k]
PROOF OBVIOUS

\* Two lists put together.
LEMMA Joining ==
  ASSUME NEW a \in Seq(Region), NEW b \in Seq(Region)
  PROVE  /\ a \o b \in Seq(Region)
         /\ Len(a \o b) = Len(a) + Len(b)
         /\ \A k \in 1 .. Len(a) : (a \o b)[k] = a[k]
         /\ \A k \in 1 .. Len(b) : (a \o b)[Len(a) + k] = b[k]
PROOF OBVIOUS

\* SetHead of an entry with one region or none.
LEMMA OneHead ==
  ASSUME NEW e \in EntryType, Len(e.regions) = 1, NEW r \in Region
  PROVE  /\ SetHead(e, r) \in EntryType
         /\ SetHead(e, r).is_invalid = e.is_invalid
         /\ SetHead(e, r).regions = <<r>>
PROOF
  <1>1. PICK l, n : l = e.regions /\ n = <<r>> \o Tail(l)
    OBVIOUS
  <1>2. l \in Seq(Region) /\ Len(l) = 1
    BY <1>1 DEF EntryType
  <1>3. Tail(l) \in Seq(Region) /\ Len(Tail(l)) = 0
    BY <1>2
  <1>4. n \in Seq(Region) /\ Len(n) = 1 /\ n[1] = r
    BY <1>1, <1>3, PutInFront
  <1>5. n = <<r>>
    BY <1>4
  <1>6. SetHead(e, r) = [e EXCEPT !.regions = n]
    BY <1>1 DEF SetHead
  <1> QED
    BY <1>4, <1>5, <1>6 DEF EntryType

\* The block has no region, and is given one.
LEMMA GivenOne ==
  ASSUME NEW e, EntryOK(e, {}), NEW r \in Region
  PROVE  /\ EntryOK(SetHead(e, r), {r})
         /\ SetHead(e, r).is_invalid = e.is_invalid
PROOF
  <1>1. e \in EntryType /\ Len(e.regions) = 1
    BY DEF EntryOK, Lists, ListsNone
  <1>2. PICK s : s = SetHead(e, r)
    OBVIOUS
  <1>3. s \in EntryType /\ s.is_invalid = e.is_invalid /\ s.regions = <<r>>
    BY <1>1, <1>2, OneHead
  <1>4. ListsAll(<<r>>, {r})
    BY DEF ListsAll
  <1> QED
    BY <1>2, <1>3, <1>4 DEF EntryOK, Lists

\* The block has one region, and is left without.
LEMMA LeftNone ==
  ASSUME NEW e, NEW r, EntryOK(e, {r}), NEW x \in {EMPTY_SIZE, INVALID_SIZE}
  PROVE  /\ EntryOK(SetHead(e, NoRegion(x)), {})
         /\ SetHead(e, NoRegion(x)).is_invalid = e.is_invalid
PROOF
  <1>1. e \in EntryType /\ ListsAll(e.regions, {r}) /\ e.regions \in Seq(Region)
    BY DEF EntryOK, Lists, EntryType
  <1>2. Len(e.regions) = 1
    <2>1. PICK l, n : l = e.regions /\ n = Len(l)
      OBVIOUS
    <2>2. n \in Nat /\ ListsAll(l, {r})
      BY <1>1, <2>1
    <2>3. \E k \in 1 .. n : l[k] = r
      BY <2>1, <2>2 DEF ListsAll
    <2>4. n >= 2 => 1 \in 1 .. n /\ 2 \in 1 .. n
      BY <2>2
    <2>5. n >= 2 => l[1] = r /\ l[2] = r
      BY <2>1, <2>2, <2>4 DEF ListsAll
    <2>6. n >= 2 => 1 = 2
      BY <2>1, <2>2, <2>4, <2>5 DEF ListsAll
    <2>7. n # 0
      BY <2>3
    <2>8. n = 1
      BY <2>2, <2>6, <2>7
    <2> QED
      BY <2>1, <2>8
  <1>3. PICK s, n : s = SetHead(e, n) /\ n = NoRegion(x)
    OBVIOUS
  <1>4. n \in Region
    BY <1>3, NoRegionIs
  <1>5. s \in EntryType /\ s.is_invalid = e.is_invalid /\ s.regions = <<n>>
    BY <1>1, <1>2, <1>3, <1>4, OneHead
  <1>6. ListsNone(<<n>>)
    BY <1>3 DEF ListsNone
  <1> QED
    BY <1>3, <1>5, <1>6 DEF EntryOK, Lists

\* add_region: one more region in the list.
LEMMA AddKeeps ==
  ASSUME NEW e, NEW T, EntryOK(e, T), RegionsOK(T), NEW r \in Region, r \notin T
  PROVE  /\ EntryOK(add_region(e, r), T \cup {r})
         /\ add_region(e, r).is_invalid = e.is_invalid
PROOF
  <1>1. PICK l : l = e.regions
    OBVIOUS
  <1>2. l \in Seq(Region) /\ Lists(l, T) /\ e \in EntryType
    BY <1>1 DEF EntryOK, EntryType
  <1>3. Head(l) = l[1] /\ Len(l) \in Nat \ {0}
    BY <1>2, ListIs
  <1>4. CASE T = {}
    <2>1. Head(l).start = 0
      BY <1>2, <1>3, <1>4, ListIs
    <2>2. add_region(e, r) = SetHead(e, r)
      BY <1>1, <2>1 DEF add_region
    <2> QED
      BY <1>4, <2>2, GivenOne
  <1>5. CASE T # {}
    <2>1. ListsAll(l, T)
      BY <1>2, <1>5 DEF Lists
    <2>2. Head(l).start # 0
      <3>1. l[1] \in T
        BY <1>2, <1>5, ListIs
      <3> QED
        BY <1>3, <3>1 DEF RegionsOK, Placed
    <2>3. PICK n : n = <<r>> \o l
      OBVIOUS
    <2>4. n \in Seq(Region) /\ Len(n) = Len(l) + 1 /\ n[1] = r
          /\ \A k \in 1 .. Len(l) : n[k + 1] = l[k]
      BY <1>2, <2>3, PutInFront
    <2>5. add_region(e, r) = [e EXCEPT !.regions = n]
      BY <1>1, <2>2, <2>3 DEF add_region
    <2>6. add_region(e, r) \in EntryType /\ add_region(e, r).regions = n
          /\ add_region(e, r).is_invalid = e.is_invalid
      BY <1>2, <2>4, <2>5 DEF EntryType
    <2>7. \A k \in 1 .. Len(n) : k = 1 \/ (k - 1 \in 1 .. Len(l) /\ n[k] = l[k - 1])
      BY <1>3, <2>4
    <2>8. ListsAll(n, T \cup {r})
      <3>1. \A k \in 1 .. Len(n) : n[k] \in T \cup {r}
        BY <2>1, <2>4, <2>7 DEF ListsAll
      <3>2. \A q \in T \cup {r} : \E k \in 1 .. Len(n) : n[k] = q
        BY <1>3, <2>1, <2>4 DEF ListsAll
      <3>3. ASSUME NEW k \in 1 .. Len(n), NEW m \in 1 .. Len(n), n[k] = n[m]
            PROVE  k = m
        <4>1. \A j \in 1 .. Len(n) : j = 1 \/ n[j] \in T
          BY <2>1, <2>7 DEF ListsAll
        <4>4. n[1] = r /\ r \notin T
          BY <2>4
        <4>2. CASE k = 1
          BY <3>3, <4>1, <4>2, <4>4
        <4>3. CASE k # 1
          <5>1. m # 1
            BY <3>3, <4>1, <4>3, <4>4
          <5>2. /\ k - 1 \in 1 .. Len(l) /\ m - 1 \in 1 .. Len(l)
                /\ l[k - 1] = l[m - 1]
            BY <2>7, <3>3, <4>3, <5>1
          <5>3. k - 1 = m - 1
            BY <2>1, <5>2 DEF ListsAll
          <5> QED
            BY <2>4, <1>3, <5>3
        <4> QED
          BY <4>2, <4>3
      <3> QED
        BY <3>1, <3>2, <3>3 DEF ListsAll
    <2> QED
      BY <2>6, <2>8 DEF EntryOK, Lists
  <1> QED
    BY <1>4, <1>5

\* delete_region: the region that starts at p goes, the others stay.
LEMMA DeleteKeeps ==
  ASSUME NEW e, NEW T, EntryOK(e, T), RegionsOK(T), NEW r \in T,
         NEW x \in {EMPTY_SIZE, INVALID_SIZE}
  PROVE  /\ EntryOK(delete_region(e, r.start, x), T \ {r})
         /\ delete_region(e, r.start, x).is_invalid = e.is_invalid
PROOF
  <1>1. PICK l, p, d : l = e.regions /\ p = r.start /\ d = delete_region(e, r.start, x)
    OBVIOUS
  <1>2. l \in Seq(Region) /\ ListsAll(l, T) /\ Lists(l, T) /\ e \in EntryType
    BY <1>1 DEF EntryOK, EntryType, Lists
  <1>3. Head(l) = l[1] /\ Len(l) \in Nat \ {0}
    BY <1>2, ListIs
  <1>4. p \in Addr /\ p \in Bytes(r)
    BY <1>1, PlacedIs DEF RegionsOK
  <1>5. PICK k \in 1 .. Len(l) : Hits(l, p) = {k} /\ l[k] = r /\ Min(Hits(l, p)) = k
    BY <1>2, <1>4, FindsHolder
  <1>6. Hits(l, p) # {}
    BY <1>5
  <1>7. d = IF l = <<Head(l)>> THEN SetHead(e, NoRegion(x))
            ELSE [e EXCEPT !.regions = SubSeq(l, 1, k - 1) \o SubSeq(l, k + 1, Len(l))]
    BY <1>1, <1>5, <1>6 DEF delete_region
  <1>8. CASE l = <<Head(l)>>
    <2>1. Len(l) = 1 /\ k = 1
      <3>1. PICK h : l = <<h>>
        BY <1>8
      <3> QED
        BY <1>5, <3>1
    <2>2. T = {r}
      BY <1>2, <1>5, <2>1 DEF ListsAll
    <2> QED
      BY <1>1, <1>7, <1>8, <2>2, LeftNone
  <1>9. CASE l # <<Head(l)>>
    <2>1. Len(l) # 1
      BY <1>2, <1>3, <1>9
    <2>2. PICK a, b, n : a = SubSeq(l, 1, k - 1) /\ b = SubSeq(l, k + 1, Len(l)) /\ n = a \o b
      OBVIOUS
    <2>3. a \in Seq(Region) /\ Len(a) = k - 1 /\ \A m \in 1 .. k - 1 : a[m] = l[m]
      BY <1>2, <1>3, <2>2
    <2>4. b \in Seq(Region) /\ Len(b) = Len(l) - k /\ \A m \in 1 .. Len(l) - k : b[m] = l[k + m]
      BY <1>2, <1>3, <2>2
    <2>10. /\ n \in Seq(Region) /\ Len(n) = Len(a) + Len(b)
           /\ \A m \in 1 .. Len(a) : n[m] = a[m]
           /\ \A m \in 1 .. Len(b) : n[Len(a) + m] = b[m]
      BY <2>2, <2>3, <2>4, Joining, Zenon
    <2>5. n \in Seq(Region) /\ Len(n) = Len(l) - 1
      BY <1>3, <2>3, <2>4, <2>10
    <2>6. ASSUME NEW m \in 1 .. Len(l) - 1 PROVE n[m] = IF m < k THEN l[m] ELSE l[m + 1]
      <3>1. CASE m < k
        <4>1. m \in 1 .. k - 1
          BY <1>3, <3>1
        <4> QED
          BY <2>3, <2>10, <3>1, <4>1
      <3>2. CASE ~(m < k)
        <4>1. PICK j : j = m - (k - 1)
          OBVIOUS
        <4>2. j \in 1 .. Len(l) - k /\ m = Len(a) + j /\ k + j = m + 1
          BY <1>3, <2>3, <3>2, <4>1
        <4>3. n[m] = b[j]
          BY <2>4, <2>10, <4>2
        <4> QED
          BY <2>4, <3>2, <4>2, <4>3
      <3> QED
        BY <3>1, <3>2
    <2>7. d \in EntryType /\ d.regions = n /\ d.is_invalid = e.is_invalid
      BY <1>2, <1>7, <1>9, <2>2, <2>5 DEF EntryType
    <2>8. ListsAll(n, T \ {r})
      <3>1. \A m \in 1 .. Len(n) : n[m] \in T \ {r}
        BY <1>2, <1>3, <1>5, <2>5, <2>6 DEF ListsAll
      <3>2. ASSUME NEW q \in T \ {r} PROVE \E m \in 1 .. Len(n) : n[m] = q
        <4>1. PICK m \in 1 .. Len(l) : l[m] = q /\ m # k
          BY <1>2, <1>5 DEF ListsAll
        <4>2. CASE m < k
          BY <1>3, <2>5, <2>6, <4>1, <4>2
        <4>3. CASE m > k
          <5>1. m - 1 \in 1 .. Len(n) /\ ~(m - 1 < k) /\ (m - 1) + 1 = m
            BY <1>3, <2>5, <4>1, <4>3
          <5> QED
            BY <2>5, <2>6, <4>1, <5>1
        <4> QED
          BY <4>1, <4>2, <4>3
      <3>3. ASSUME NEW m \in 1 .. Len(n), NEW j \in 1 .. Len(n), n[m] = n[j]
            PROVE  m = j
        BY <1>2, <1>3, <2>5, <2>6, <3>3 DEF ListsAll
      <3> QED
        BY <3>1, <3>2, <3>3 DEF ListsAll
    <2>9. T \ {r} # {}
      <3>1. \E m \in 1 .. Len(l) : m # k
        <4>1. 1 \in 1 .. Len(l) /\ 2 \in 1 .. Len(l)
          <5>1. PICK c : c = Len(l)
            OBVIOUS
          <5>2. c \in Nat /\ c # 0 /\ c # 1
            BY <1>3, <2>1, <5>1
          <5> QED
            BY <5>1, <5>2
        <4> QED
          BY <4>1
      <3> QED
        BY <1>2, <1>5, <3>1 DEF ListsAll
    <2> QED
      BY <1>1, <2>7, <2>8, <2>9 DEF EntryOK, Lists
  <1> QED
    BY <1>8, <1>9

(***************************************************************************)
(* Tables                                                                  *)
(***************************************************************************)
Table == [Pages -> [own : BOOLEAN, e : [Slots -> EntryType]]]

\* The table t lists the regions S, a shared page has none, and only the blocks
\* that were marked are invalid.
BlockOK(e, S, b) == EntryOK(e, Touching(S, b)) /\ (e.is_invalid => b \in Zone)
TableOK(t, S) ==
  /\ t \in Table
  /\ \A i \in Pages, j \in Slots : BlockOK(t[i].e[j], S, i * T2_SIZE + j)
  /\ \A i \in Pages : ~t[i].own => \A j \in Slots : Touching(S, i * T2_SIZE + j) = {}

\* Less than regions that are apart is apart.
LEMMA SomeRegions ==
  ASSUME NEW S, RegionsOK(S), NEW T, T \subseteq S
  PROVE  RegionsOK(T)
PROOF
  BY DEF RegionsOK, Apart

\* One region more.
LEMMA TouchingMore ==
  ASSUME NEW S, NEW r, NEW b
  PROVE  /\ b \in FirstBlock(r) .. LastBlock(r) =>
              Touching(S \cup {r}, b) = Touching(S, b) \cup {r}
         /\ b \notin FirstBlock(r) .. LastBlock(r) => Touching(S \cup {r}, b) = Touching(S, b)
PROOF
  BY DEF Touching

\* One region less.
LEMMA TouchingLess ==
  ASSUME NEW S, NEW r, NEW b
  PROVE  /\ Touching(S \ {r}, b) = Touching(S, b) \ {r}
         /\ b \notin FirstBlock(r) .. LastBlock(r) => Touching(S \ {r}, b) = Touching(S, b)
PROOF
  BY DEF Touching

\* The blocks between the first and the last of a region are its own.
LEMMA OwnBlocks ==
  ASSUME NEW S, RegionsOK(S), NEW r \in S, NEW b \in Nat, FirstBlock(r) < b, b < LastBlock(r)
  PROVE  Touching(S, b) = {r}
PROOF
  <1>1. Placed(r) /\ Apart(S)
    BY DEF RegionsOK
  <1>2. FirstBlock(r) \in Nat /\ LastBlock(r) \in Nat
    BY <1>1, PlacedIs
  <1>3. r \in Touching(S, b)
    BY <1>2 DEF Touching
  <1>4. ASSUME NEW q \in Touching(S, b) PROVE q = r
    <2>1. q \in S /\ b \in FirstBlock(q) .. LastBlock(q) /\ Placed(q)
      BY DEF Touching, RegionsOK
    <2>2. PICK a \in Bytes(q) : Block(a) = b
      BY <2>1, TouchedBlocks
    <2>3. a \in Nat
      BY <2>1, <2>2, PlacedIs, SizesAre DEF Addr
    <2>4. a \in Bytes(r)
      BY <1>1, <2>2, <2>3, TouchedBlocks
    <2> QED
      BY <1>1, <2>1, <2>2, <2>4 DEF Apart
  <1> QED
    BY <1>3, <1>4

\* Pages outside a region's have none of its blocks.
LEMMA OtherPages ==
  ASSUME NEW r, Placed(r), NEW i \in Pages, NEW j \in Slots,
         i \notin PageOf(FirstBlock(r)) .. PageOf(LastBlock(r))
  PROVE  i * T2_SIZE + j \notin FirstBlock(r) .. LastBlock(r)
PROOF
  <1>1. PICK b, f, l, s : /\ b = i * T2_SIZE + j /\ s = T2_SIZE
                          /\ f = FirstBlock(r) /\ l = LastBlock(r)
    OBVIOUS
  <1>2. /\ b \in Nat /\ PageOf(b) = i /\ f \in Nat /\ l \in Nat /\ s \in Nat \ {0}
        /\ PageOf(f) \in Nat /\ PageOf(l) \in Nat /\ i \in Nat
    BY <1>1, SlotsAreBlocks, PlacedIs, SizesAre DEF Pages
  <1>3. \A x : PageOf(x) = x \div s
    BY <1>1 DEF PageOf
  <1>4. f <= b => PageOf(f) <= PageOf(b)
    BY <1>2, <1>3, DivisionMonotonic, Zenon
  <1>5. b <= l => PageOf(b) <= PageOf(l)
    BY <1>2, <1>3, DivisionMonotonic, Zenon
  <1>6. ~(PageOf(f) <= i /\ i <= PageOf(l))
    BY <1>1, <1>2
  <1>7. ~(f <= b /\ b <= l)
    BY <1>2, <1>4, <1>5, <1>6
  <1> QED
    BY <1>1, <1>2, <1>7

\* get_page: the page may be replaced, the regions it lists are the same.
LEMMA PageToWrite ==
  ASSUME NEW t, NEW S, TableOK(t, S), NEW i \in Pages, NEW j \in Slots
  PROVE  BlockOK(get_page(t, i).e[j], S, i * T2_SIZE + j)
PROOF
  <1>1. CASE t[i].own
    BY <1>1 DEF get_page, TableOK
  <1>2. CASE ~t[i].own
    <2>1. PICK n, e : n = NoRegion(EMPTY_SIZE) /\ e = Entry(EMPTY_SIZE, FALSE)
      OBVIOUS
    <2>2. get_page(t, i).e[j] = e
      BY <1>2, <2>1 DEF get_page, __bound_new_page
    <2>3. e = [regions |-> <<n>>, is_invalid |-> FALSE] /\ n \in Region
      BY <2>1, NoRegionIs DEF Entry
    <2>4. e \in EntryType /\ ListsNone(e.regions) /\ ~e.is_invalid
      <3>1. e \in EntryType /\ ~e.is_invalid /\ e.regions = <<n>>
        BY <2>3 DEF EntryType
      <3>2. ListsNone(<<n>>)
        BY <2>1 DEF ListsNone
      <3> QED
        BY <3>1, <3>2
    <2>5. Touching(S, i * T2_SIZE + j) = {}
      BY <1>2 DEF TableOK
    <2> QED
      BY <2>2, <2>4, <2>5 DEF BlockOK, EntryOK, Lists
  <1> QED
    BY <1>1, <1>2

\* The entry of an address.
LEMMA EntryOfAddress ==
  ASSUME NEW t, NEW S, TableOK(t, S), NEW a \in Addr
  PROVE  BlockOK(EntryAt(t, a), S, Block(a))
PROOF
  <1>1. PICK i, j : i = PageOf(Block(a)) /\ j = SlotOf(Block(a))
    OBVIOUS
  <1>2. i \in Pages /\ j \in Slots /\ Block(a) = i * T2_SIZE + j
    BY <1>1, AddressesAreInBlocks
  <1>3. EntryAt(t, a) = t[i].e[j]
    BY <1>1 DEF EntryAt
  <1> QED
    BY <1>2, <1>3 DEF TableOK

\* A region touches the blocks of its bytes.
LEMMA HolderTouches ==
  ASSUME NEW S, RegionsOK(S), NEW r \in S, NEW a \in Bytes(r)
  PROVE  r \in Touching(S, Block(a)) /\ a \in Addr \ {0}
PROOF
  <1>1. Placed(r)
    BY DEF RegionsOK
  <1>2. a \in Addr \ {0}
    BY <1>1, PlacedIs
  <1>3. Block(a) \in FirstBlock(r) .. LastBlock(r)
    BY <1>1, <1>2, AddressesAreInBlocks, TouchedBlocks
  <1> QED
    BY <1>2, <1>3 DEF Touching

\* What is found for an address: the region that holds it, or none.
LEMMA FoundInTable ==
  ASSUME NEW t, NEW S, TableOK(t, S), RegionsOK(S), NEW a \in Addr \ {0}
  PROVE  /\ \A h \in S : a \in Bytes(h) => FoundRegion(EntryAt(t, a), a) = h
         /\ (\A h \in S : a \notin Bytes(h)) =>
              \E x \in {EMPTY_SIZE, INVALID_SIZE} :
                /\ FoundRegion(EntryAt(t, a), a) = NoRegion(x)
                /\ Block(a) \notin Zone => x = EMPTY_SIZE
PROOF
  <1>1. PICK e, T : e = EntryAt(t, a) /\ T = Touching(S, Block(a))
    OBVIOUS
  <1>2. EntryOK(e, T) /\ (e.is_invalid => Block(a) \in Zone) /\ T \subseteq S
    BY <1>1, EntryOfAddress DEF BlockOK, Touching
  <1>3. RegionsOK(T)
    BY <1>2, SomeRegions
  <1>4. ASSUME NEW h \in S, a \in Bytes(h) PROVE FoundRegion(e, a) = h
    <2>1. h \in T
      BY <1>1, <1>4, HolderTouches
    <2> QED
      BY <1>2, <1>3, <1>4, <2>1, FoundIs
  <1>5. ASSUME \A h \in S : a \notin Bytes(h)
        PROVE  \E x \in {EMPTY_SIZE, INVALID_SIZE} :
                 FoundRegion(e, a) = NoRegion(x) /\ (~e.is_invalid => x = EMPTY_SIZE)
    <2>1. \A h \in T : a \notin Bytes(h)
      BY <1>2, <1>5
    <2> QED
      BY <1>2, <1>3, <2>1, FoundIs
  <1> QED
    BY <1>1, <1>2, <1>4, <1>5

\* __bound_find_region: the table lists what it listed.
LEMMA FindKeeps ==
  ASSUME NEW t, NEW S, TableOK(t, S), RegionsOK(S), NEW a \in Addr
  PROVE  TableOK(__bound_find_region(t, a), S)
PROOF
  <1>1. PICK i, j, l, u : /\ i = PageOf(Block(a)) /\ j = SlotOf(Block(a))
                          /\ l = EntryAt(t, a).regions /\ u = __bound_find_region(t, a)
    OBVIOUS
  <1>2. i \in Pages /\ j \in Slots /\ Block(a) = i * T2_SIZE + j
    BY <1>1, AddressesAreInBlocks
  <1>3. l = t[i].e[j].regions
    BY <1>1 DEF EntryAt
  <1>4. t \in Table /\ t[i].e[j] \in EntryType /\ l \in Seq(Region)
        /\ Lists(l, Touching(S, i * T2_SIZE + j))
    BY <1>2, <1>3 DEF TableOK, BlockOK, EntryOK, EntryType
  <1>5. CASE Hits(l, a) = {}
    BY <1>1, <1>5 DEF __bound_find_region
  <1>6. CASE Hits(l, a) # {}
    <2>1. PICK k, s, e : /\ k = Min(Hits(l, a)) /\ s = Swapped(l, k)
                         /\ e = [t[i].e[j] EXCEPT !.regions = s]
      OBVIOUS
    <2>2. u = [t EXCEPT ![i].e[j].regions = s]
      BY <1>1, <1>6, <2>1 DEF __bound_find_region
    <2>3. k \in 1 .. Len(l)
      <3>1. PICK h \in 1 .. Len(l) : h \in Hits(l, a)
        BY <1>4, <1>6 DEF Hits
      <3>2. PICK T : T = Touching(S, i * T2_SIZE + j)
        OBVIOUS
      <3>3. CASE T = {}
        <4>1. Len(l) = 1
          BY <1>4, <3>2, <3>3 DEF Lists, ListsNone
        <4>2. Hits(l, a) = {1}
          BY <1>4, <1>6, <4>1 DEF Hits
        <4>3. Min({1}) = 1
          BY DEF Min
        <4> QED
          BY <2>1, <4>1, <4>2, <4>3
      <3>4. CASE T # {}
        <4>1. PICK q : q = l[h]
          OBVIOUS
        <4>2. q \in T /\ q \in S
          BY <1>4, <3>1, <3>2, <3>4, <4>1 DEF Lists, ListsAll, Touching
        <4>3. Placed(q) /\ Minus(a, q.start) <= q.size
          BY <3>1, <4>1, <4>2 DEF Hits, RegionsOK
        <4>4. a \in Bytes(q)
          BY <4>3, HitIsHolding
        <4>5. RegionsOK(T)
          BY <3>2, SomeRegions DEF Touching
        <4> QED
          BY <1>4, <2>1, <3>2, <4>2, <4>4, <4>5, FindsHolder
      <3> QED
        BY <3>3, <3>4
    <2>4. s \in Seq(Region) /\ Lists(s, Touching(S, i * T2_SIZE + j))
      BY <1>4, <2>1, <2>3, SwapKeeps
    <2>5. e \in EntryType /\ e.regions = s /\ e.is_invalid = t[i].e[j].is_invalid
      BY <1>4, <2>1, <2>4 DEF EntryType
    <2>6. BlockOK(e, S, i * T2_SIZE + j)
      BY <1>2, <2>4, <2>5 DEF BlockOK, EntryOK, TableOK
    <2>7. PICK g, f : f = [t[i].e EXCEPT ![j] = e] /\ g = [t[i] EXCEPT !.e = f]
      OBVIOUS
    <2>8. u = [t EXCEPT ![i] = g]
      BY <2>1, <2>2, <2>7
    <2>9. f \in [Slots -> EntryType] /\ f[j] = e /\ \A m \in Slots : m # j => f[m] = t[i].e[m]
      BY <1>2, <1>4, <2>5, <2>7 DEF Table
    <2>10. g \in [own : BOOLEAN, e : [Slots -> EntryType]] /\ g.e = f /\ g.own = t[i].own
      BY <1>2, <1>4, <2>7, <2>9 DEF Table
    <2>11. u \in Table /\ u[i] = g /\ \A n \in Pages : n # i => u[n] = t[n]
      BY <1>2, <1>4, <2>8, <2>10 DEF Table
    <2>12. \A n \in Pages, m \in Slots : BlockOK(u[n].e[m], S, n * T2_SIZE + m)
      <3>1. ASSUME NEW n \in Pages, NEW m \in Slots
            PROVE  BlockOK(u[n].e[m], S, n * T2_SIZE + m)
        <4>1. CASE n = i /\ m = j
          BY <2>6, <2>9, <2>10, <2>11, <4>1
        <4>2. CASE ~(n = i /\ m = j)
          BY <2>9, <2>10, <2>11, <4>2 DEF TableOK
        <4> QED
          BY <4>1, <4>2
      <3> QED
        BY <3>1
    <2>13. \A n \in Pages : u[n].own = t[n].own
      BY <2>10, <2>11
    <2> QED
      BY <1>1, <2>11, <2>12, <2>13 DEF TableOK
  <1> QED
    BY <1>5, <1>6

\* __bound_new_region: the table lists one region more.
LEMMA NewRegionKeeps ==
  ASSUME NEW t, NEW S, TableOK(t, S), NEW r, r \notin S, RegionsOK(S \cup {r})
  PROVE  TableOK(__bound_new_region(t, r), S \cup {r})
PROOF
  <1>1. PICK b1, b2, u, R : /\ b1 = FirstBlock(r) /\ b2 = LastBlock(r)
                            /\ u = __bound_new_region(t, r) /\ R = S \cup {r}
    OBVIOUS
  <1>2. Placed(r) /\ RegionsOK(R) /\ RegionsOK(S) /\ r \in Region
    BY <1>1, SomeRegions DEF RegionsOK, Placed
  <1>3. b1 \in Nat /\ b2 \in Nat /\ b1 <= b2
    BY <1>1, <1>2, PlacedIs
  <1> DEFINE entry(i, j) == get_page(t, i).e[j]
             slot(i, j) ==
               IF i * T2_SIZE + j \in {b1, b2} THEN add_region(entry(i, j), r)
               ELSE IF i * T2_SIZE + j \in b1 .. b2 THEN SetHead(entry(i, j), r)
               ELSE entry(i, j)
             In(i) == i \in PageOf(b1) .. PageOf(b2)
  <1>4. u = [i \in Pages |-> IF In(i) THEN [own |-> TRUE, e |-> [j \in Slots |-> slot(i, j)]]
                             ELSE t[i]]
    BY <1>1 DEF __bound_new_region
  <1>5. ASSUME NEW i \in Pages, NEW j \in Slots
        PROVE  BlockOK(slot(i, j), R, i * T2_SIZE + j)
    <2>1. PICK b, e, T : b = i * T2_SIZE + j /\ e = entry(i, j) /\ T = Touching(S, b)
      OBVIOUS
    <2>2. b \in Nat /\ EntryOK(e, T) /\ (e.is_invalid => b \in Zone)
      BY <2>1, PageToWrite, SlotsAreBlocks DEF BlockOK
    <2>3. RegionsOK(T) /\ r \notin T
      BY <1>2, <2>1, SomeRegions DEF Touching
    <2>4. /\ b \in b1 .. b2 => Touching(R, b) = T \cup {r}
          /\ b \notin b1 .. b2 => Touching(R, b) = T
      <3>1. /\ b \in FirstBlock(r) .. LastBlock(r) =>
                 Touching(S \cup {r}, b) = Touching(S, b) \cup {r}
            /\ b \notin FirstBlock(r) .. LastBlock(r) =>
                 Touching(S \cup {r}, b) = Touching(S, b)
        BY TouchingMore
      <3> QED
        BY <1>1, <2>1, <3>1
    <2>5. slot(i, j) = IF b \in {b1, b2} THEN add_region(e, r)
                       ELSE IF b \in b1 .. b2 THEN SetHead(e, r) ELSE e
      BY <2>1
    <2> HIDE DEF slot, entry
    <2>6. CASE b \in {b1, b2}
      <3>1. b \in b1 .. b2
        BY <1>3, <2>6
      <3>2. EntryOK(add_region(e, r), T \cup {r}) /\ add_region(e, r).is_invalid = e.is_invalid
        BY <1>2, <2>2, <2>3, AddKeeps
      <3> QED
        BY <2>1, <2>2, <2>4, <2>5, <2>6, <3>1, <3>2 DEF BlockOK
    <2>7. CASE b \notin {b1, b2} /\ b \in b1 .. b2
      <3>1. T = {}
        <4>1. b1 < b /\ b < b2
          BY <1>3, <2>2, <2>7
        <4>2. Touching(R, b) = {r}
          BY <1>1, <1>2, <2>2, <4>1, OwnBlocks
        <4> QED
          BY <2>3, <2>4, <2>7, <4>2
      <3>2. EntryOK(SetHead(e, r), {r}) /\ SetHead(e, r).is_invalid = e.is_invalid
        BY <1>2, <2>2, <3>1, GivenOne
      <3> QED
        BY <2>1, <2>2, <2>4, <2>5, <2>7, <3>1, <3>2 DEF BlockOK
    <2>8. CASE b \notin {b1, b2} /\ b \notin b1 .. b2
      BY <2>1, <2>2, <2>4, <2>5, <2>8 DEF BlockOK
    <2> QED
      BY <2>6, <2>7, <2>8
  <1> HIDE DEF slot, entry
  <1>6. ASSUME NEW i \in Pages, NEW j \in Slots, ~In(i)
        PROVE  Touching(R, i * T2_SIZE + j) = Touching(S, i * T2_SIZE + j)
    <2>1. i * T2_SIZE + j \notin FirstBlock(r) .. LastBlock(r)
      BY <1>1, <1>2, <1>6, OtherPages
    <2>2. PICK b : b = i * T2_SIZE + j
      OBVIOUS
    <2>3. Touching(S \cup {r}, b) = Touching(S, b)
      BY <2>1, <2>2, TouchingMore
    <2> QED
      BY <1>1, <2>2, <2>3
  <1>7. \A i \in Pages, j \in Slots : slot(i, j) \in EntryType
    BY <1>5 DEF BlockOK, EntryOK
  <1>8. t \in Table
    BY DEF TableOK
  <1>9. u \in Table
    BY <1>4, <1>7, <1>8 DEF Table
  <1>10. ASSUME NEW i \in Pages, NEW j \in Slots
         PROVE  BlockOK(u[i].e[j], R, i * T2_SIZE + j)
    <2>1. CASE In(i)
      BY <1>4, <1>5, <2>1
    <2>2. CASE ~In(i)
      <3>1. u[i].e[j] = t[i].e[j]
        BY <1>4, <2>2
      <3> QED
        BY <1>6, <2>2, <3>1 DEF TableOK, BlockOK
    <2> QED
      BY <2>1, <2>2
  <1>11. ASSUME NEW i \in Pages, ~u[i].own, NEW j \in Slots
         PROVE  Touching(R, i * T2_SIZE + j) = {}
    <2>1. ~In(i)
      BY <1>4, <1>11
    <2>2. u[i] = t[i]
      BY <1>4, <2>1
    <2> QED
      BY <1>6, <1>11, <2>1, <2>2 DEF TableOK
  <1> QED
    BY <1>1, <1>9, <1>10, <1>11 DEF TableOK

\* __bound_delete_region, in one page: the table lists one region less.
LEMMA DeleteRegionKeeps ==
  ASSUME NEW t, NEW S, TableOK(t, S), RegionsOK(S), NEW r \in S,
         PageOf(FirstBlock(r)) = PageOf(LastBlock(r))
  PROVE  TableOK(__bound_delete_region(t, r.start), S \ {r})
PROOF
  <1>1. PICK p, b1, b2, x, found, u, R, g :
          /\ p = r.start /\ b1 = FirstBlock(r) /\ b2 = LastBlock(r)
          /\ x = IF EntryAt(t, p).is_invalid THEN INVALID_SIZE ELSE EMPTY_SIZE
          /\ found = __bound_find_region(t, p)
          /\ u = __bound_delete_region(t, p) /\ R = S \ {r} /\ g = PageOf(b1)
    OBVIOUS
  <1>2. Placed(r) /\ RegionsOK(R)
    BY <1>1, SomeRegions DEF RegionsOK
  <1>3. b1 \in Nat /\ b2 \in Nat /\ b1 <= b2 /\ p \in Addr \ {0} /\ p \in Bytes(r)
        /\ g \in Pages /\ PageOf(b2) = g
    BY <1>1, <1>2, PlacedIs
  <1>4. FoundRegion(EntryAt(t, p), p) = r
    BY <1>3, FoundInTable
  <1>5. TableOK(found, S)
    BY <1>1, <1>3, FindKeeps
  <1>6. x \in {EMPTY_SIZE, INVALID_SIZE}
    BY <1>1
  <1> DEFINE entry(i, j) == get_page(found, i).e[j]
             slot(i, j) ==
               IF i * T2_SIZE + j = b1 \/ i * T2_SIZE + j = b2 THEN delete_region(entry(i, j), p, x)
               ELSE IF i * T2_SIZE + j \in b1 .. b2 - 1 THEN SetHead(entry(i, j), NoRegion(x))
               ELSE entry(i, j)
  <1>7. u = [i \in Pages |-> IF i = g THEN [own |-> TRUE, e |-> [j \in Slots |-> slot(i, j)]]
                             ELSE found[i]]
    <2>1. \A i \in Pages : i \notin g .. g - 1
      BY <1>3 DEF Pages
    <2> QED
      BY <1>1, <1>3, <1>4, <2>1 DEF __bound_delete_region
  <1>8. ASSUME NEW i \in Pages, NEW j \in Slots
        PROVE  BlockOK(slot(i, j), R, i * T2_SIZE + j)
    <2>1. PICK b, e, T : b = i * T2_SIZE + j /\ e = entry(i, j) /\ T = Touching(S, b)
      OBVIOUS
    <2>2. b \in Nat /\ EntryOK(e, T) /\ (e.is_invalid => b \in Zone)
      BY <1>5, <2>1, PageToWrite, SlotsAreBlocks DEF BlockOK
    <2>3. RegionsOK(T)
      BY <2>1, SomeRegions DEF Touching
    <2>4. Touching(R, b) = T \ {r} /\ (b \notin b1 .. b2 => Touching(R, b) = T)
          /\ (b \in b1 .. b2 => r \in T)
      BY <1>1, <2>1, TouchingLess DEF Touching
    <2>5. slot(i, j) = IF b = b1 \/ b = b2 THEN delete_region(e, p, x)
                       ELSE IF b \in b1 .. b2 - 1 THEN SetHead(e, NoRegion(x)) ELSE e
      BY <2>1
    <2> HIDE DEF slot, entry
    <2>6. CASE b = b1 \/ b = b2
      <3>1. r \in T
        BY <1>3, <2>4, <2>6
      <3>2. EntryOK(delete_region(e, p, x), T \ {r})
            /\ delete_region(e, p, x).is_invalid = e.is_invalid
        BY <1>1, <1>6, <2>2, <2>3, <3>1, DeleteKeeps
      <3> QED
        BY <2>1, <2>2, <2>4, <2>5, <2>6, <3>2 DEF BlockOK
    <2>7. CASE ~(b = b1 \/ b = b2) /\ b \in b1 .. b2 - 1
      <3>1. T = {r}
        <4>1. b1 < b /\ b < b2
          BY <1>3, <2>2, <2>7
        <4> QED
          BY <1>1, <2>1, <2>2, <4>1, OwnBlocks
      <3>2. EntryOK(SetHead(e, NoRegion(x)), {}) /\ SetHead(e, NoRegion(x)).is_invalid = e.is_invalid
        BY <1>6, <2>2, <3>1, LeftNone
      <3>3. Touching(R, b) = {}
        BY <2>4, <3>1
      <3> QED
        BY <2>1, <2>2, <2>5, <2>7, <3>2, <3>3 DEF BlockOK
    <2>8. CASE ~(b = b1 \/ b = b2) /\ b \notin b1 .. b2 - 1
      <3>1. b \notin b1 .. b2
        BY <1>3, <2>2, <2>8
      <3> QED
        BY <2>1, <2>2, <2>4, <2>5, <2>8, <3>1 DEF BlockOK
    <2> QED
      BY <2>6, <2>7, <2>8
  <1> HIDE DEF slot, entry
  <1>9. ASSUME NEW i \in Pages, NEW j \in Slots, i # g
        PROVE  Touching(R, i * T2_SIZE + j) = Touching(S, i * T2_SIZE + j)
    <2>1. i \notin g .. g
      BY <1>9 DEF Pages
    <2>2. i * T2_SIZE + j \notin FirstBlock(r) .. LastBlock(r)
      BY <1>1, <1>2, <1>3, <2>1, OtherPages
    <2> QED
      BY <1>1, <2>2, TouchingLess
  <1>10. \A i \in Pages, j \in Slots : slot(i, j) \in EntryType
    BY <1>8 DEF BlockOK, EntryOK
  <1>11. found \in Table
    BY <1>5 DEF TableOK
  <1>12. u \in Table
    BY <1>7, <1>10, <1>11 DEF Table
  <1>13. ASSUME NEW i \in Pages, NEW j \in Slots
         PROVE  BlockOK(u[i].e[j], R, i * T2_SIZE + j)
    <2>1. CASE i = g
      BY <1>7, <1>8, <2>1
    <2>2. CASE i # g
      <3>1. u[i].e[j] = found[i].e[j]
        BY <1>7, <2>2
      <3> QED
        BY <1>5, <1>9, <2>2, <3>1 DEF TableOK, BlockOK
    <2> QED
      BY <2>1, <2>2
  <1>14. ASSUME NEW i \in Pages, ~u[i].own, NEW j \in Slots
         PROVE  Touching(R, i * T2_SIZE + j) = {}
    <2>1. i # g
      BY <1>7, <1>14
    <2>2. u[i] = found[i]
      BY <1>7, <2>1
    <2> QED
      BY <1>5, <1>9, <1>14, <2>1, <2>2 DEF TableOK
  <1> QED
    BY <1>1, <1>12, <1>13, <1>14 DEF TableOK

(***************************************************************************)
(* __bound_init                                                            *)
(***************************************************************************)
\* No block has a region of none.
LEMMA NoneTouch ==
  ASSUME NEW b
  PROVE  Touching({}, b) = {}
PROOF
  BY DEF Touching

\* The table starts without regions.
LEMMA EmptyTableOK == TableOK(EmptyTable, {})
PROOF
  <1>1. PICK n, e : n = NoRegion(EMPTY_SIZE) /\ e = Entry(EMPTY_SIZE, FALSE)
    OBVIOUS
  <1>2. e = [regions |-> <<n>>, is_invalid |-> FALSE] /\ n \in Region
    BY <1>1, NoRegionIs DEF Entry
  <1>3. e \in EntryType /\ ~e.is_invalid /\ e.regions = <<n>>
    BY <1>2 DEF EntryType
  <1>4. ListsNone(<<n>>)
    BY <1>1 DEF ListsNone
  <1>5. \A b : BlockOK(e, {}, b)
    BY <1>3, <1>4, NoneTouch DEF BlockOK, EntryOK, Lists
  <1>6. EmptyTable = [i \in Pages |-> [own |-> FALSE, e |-> [j \in Slots |-> e]]]
    BY <1>1 DEF EmptyTable, __bound_empty_t2
  <1>7. EmptyTable \in Table
    BY <1>3, <1>6 DEF Table
  <1>8. \A i \in Pages, j \in Slots : EmptyTable[i].e[j] = e
    BY <1>6
  <1> QED
    BY <1>5, <1>7, <1>8, NoneTouch DEF TableOK

\* mark_invalid: no region comes, and only blocks of the zone are marked.
LEMMA MarkKeeps ==
  ASSUME NEW t, TableOK(t, {}), NEW addr, NEW size,
         ZoneFirst(addr) \in Int, ZoneEnd(addr, size) \in Int,
         ZoneFirst(addr) .. ZoneEnd(addr, size) - 1 \subseteq Zone
  PROVE  TableOK(mark_invalid(t, addr, size), {})
PROOF
  <1>1. PICK b1, b2, u : /\ b1 = ZoneFirst(addr) /\ b2 = ZoneEnd(addr, size)
                         /\ u = mark_invalid(t, addr, size)
    OBVIOUS
  <1> DEFINE entry(i, j) == get_page(t, i).e[j]
             whole(i) == b1 <= i * T2_SIZE /\ (i + 1) * T2_SIZE <= b2
             marked(i, j) == [SetHead(entry(i, j), [Head(entry(i, j).regions)
                                                      EXCEPT !.size = INVALID_SIZE])
                                EXCEPT !.is_invalid = TRUE]
             slot(i, j) == IF i * T2_SIZE + j \in b1 .. b2 - 1 THEN marked(i, j) ELSE entry(i, j)
             In(i) == i \in PageOf(b1) .. PageOf(b2 - 1)
  <1>2. u = [i \in Pages |-> IF whole(i) THEN __bound_invalid_t2
                             ELSE IF In(i) THEN [own |-> TRUE, e |-> [j \in Slots |-> slot(i, j)]]
                             ELSE t[i]]
    BY <1>1 DEF mark_invalid
  <1>3. b1 \in Int /\ b2 \in Int /\ b1 .. b2 - 1 \subseteq Zone
    BY <1>1
  <1>4. ASSUME NEW i \in Pages, NEW j \in Slots
        PROVE  BlockOK(slot(i, j), {}, i * T2_SIZE + j)
    <2>1. PICK b, e, m, n : /\ b = i * T2_SIZE + j /\ e = entry(i, j) /\ m = marked(i, j)
                            /\ n = NoRegion(INVALID_SIZE)
      OBVIOUS
    <2>2. BlockOK(e, {}, b)
      BY <2>1, PageToWrite
    <2>3. EntryOK(e, {}) /\ (e.is_invalid => b \in Zone)
      BY <2>2, NoneTouch DEF BlockOK
    <2>4. slot(i, j) = IF b \in b1 .. b2 - 1 THEN m ELSE e
      BY <2>1
    <2>5. CASE b \in b1 .. b2 - 1
      <3>1. e \in EntryType /\ ListsNone(e.regions) /\ e.regions \in Seq(Region)
        BY <2>3 DEF EntryOK, Lists, EntryType
      <3>2. PICK h, x : h = Head(e.regions) /\ h = NoRegion(x)
        BY <3>1 DEF ListsNone
      <3>3. [h EXCEPT !.size = INVALID_SIZE] = n
        BY <2>1, <3>2 DEF NoRegion
      <3>4. PICK s : s = SetHead(e, n)
        OBVIOUS
      <3>5. s \in EntryType /\ s.regions = <<n>>
        BY <2>1, <3>1, <3>4, OneHead, NoRegionIs DEF ListsNone
      <3>6. m = [s EXCEPT !.is_invalid = TRUE]
        BY <2>1, <3>2, <3>3, <3>4
      <3>7. m \in EntryType /\ m.regions = <<n>>
        BY <3>5, <3>6 DEF EntryType
      <3>8. ListsNone(<<n>>)
        BY <2>1 DEF ListsNone
      <3> HIDE DEF slot, marked, entry
      <3> QED
        BY <1>3, <2>1, <2>4, <2>5, <3>7, <3>8, NoneTouch DEF BlockOK, EntryOK, Lists
    <2>6. CASE b \notin b1 .. b2 - 1
      <3> HIDE DEF slot, marked, entry
      <3> QED
        BY <2>1, <2>2, <2>4, <2>6
    <2> QED
      BY <2>5, <2>6
  <1>5. ASSUME NEW i \in Pages, NEW j \in Slots, whole(i)
        PROVE  BlockOK(Entry(INVALID_SIZE, TRUE), {}, i * T2_SIZE + j)
    <2>1. PICK b, e, n : /\ b = i * T2_SIZE + j /\ e = Entry(INVALID_SIZE, TRUE)
                         /\ n = NoRegion(INVALID_SIZE)
      OBVIOUS
    <2>2. b \in Zone
      <3>1. PICK s, x : s = T2_SIZE /\ x = i * s
        OBVIOUS
      <3>2. s \in Nat \ {0} /\ i \in Nat /\ j \in 0 .. s - 1
        BY <3>1, SizesAre DEF Pages, Slots
      <3>3. x \in Nat /\ (i + 1) * s = x + s
        BY <3>1, <3>2
      <3>4. b1 <= x /\ x + s <= b2 /\ b = x + j
        BY <1>5, <2>1, <3>1, <3>3
      <3>5. b \in b1 .. b2 - 1
        BY <1>3, <3>2, <3>3, <3>4
      <3> QED
        BY <1>3, <3>5
    <2>3. e = [regions |-> <<n>>, is_invalid |-> TRUE] /\ n \in Region
      BY <2>1, NoRegionIs DEF Entry
    <2>4. e \in EntryType /\ e.regions = <<n>>
      BY <2>3 DEF EntryType
    <2>5. ListsNone(<<n>>)
      BY <2>1 DEF ListsNone
    <2> QED
      BY <2>1, <2>2, <2>4, <2>5, NoneTouch DEF BlockOK, EntryOK, Lists
  <1> HIDE DEF slot, marked, entry, whole
  <1>6. \A i \in Pages, j \in Slots : slot(i, j) \in EntryType
    BY <1>4 DEF BlockOK, EntryOK
  <1>7. t \in Table
    BY DEF TableOK
  <1>8. ASSUME NEW i \in Pages
        PROVE  /\ u[i] \in [own : BOOLEAN, e : [Slots -> EntryType]]
               /\ \A j \in Slots : BlockOK(u[i].e[j], {}, i * T2_SIZE + j)
    <2>1. CASE whole(i)
      <3>1. PICK v : v = Entry(INVALID_SIZE, TRUE)
        OBVIOUS
      <3>2. u[i] = [own |-> FALSE, e |-> [j \in Slots |-> v]]
        BY <1>2, <2>1, <3>1 DEF __bound_invalid_t2
      <3>3. \A j \in Slots : BlockOK(v, {}, i * T2_SIZE + j)
        BY <1>5, <2>1, <3>1
      <3>4. v \in EntryType
        <4>1. 0 \in Slots
          BY SizesAre DEF Slots
        <4> QED
          BY <3>3, <4>1 DEF BlockOK, EntryOK
      <3> QED
        BY <3>2, <3>3, <3>4
    <2>2. CASE ~whole(i) /\ In(i)
      <3>1. u[i] = [own |-> TRUE, e |-> [j \in Slots |-> slot(i, j)]]
        BY <1>2, <2>2
      <3> QED
        BY <1>4, <1>6, <3>1
    <2>3. CASE ~whole(i) /\ ~In(i)
      <3>1. u[i] = t[i]
        BY <1>2, <2>3
      <3> QED
        BY <1>7, <3>1 DEF TableOK, Table
    <2> QED
      BY <2>1, <2>2, <2>3
  <1>9. u \in Table
    <2>1. \E f : u = [i \in Pages |-> f[i]]
      <3>1. u = [i \in Pages |-> u[i]]
        BY <1>2
      <3> QED
        BY <3>1
    <2> QED
      BY <1>8, <2>1 DEF Table
  <1> QED
    BY <1>1, <1>8, <1>9, NoneTouch DEF TableOK

\* The page of INVALID_POINTER is the last one.
LEMMA LastPageIsInvalid ==
  /\ ZoneFirst(InvalidPage) \in Int
  /\ ZoneEnd(InvalidPage, T23_SIZE) \in Int
  /\ ZoneFirst(InvalidPage) .. ZoneEnd(InvalidPage, T23_SIZE) - 1 \subseteq Zone
PROOF
  <1>1. PICK k, m, n, w, s, c : /\ k = 2 ^ BOUND_T1_BITS /\ m = T2_SIZE /\ n = T3_SIZE
                                /\ w = T23_SIZE /\ s = Space /\ c = k * m
    OBVIOUS
  <1>2. /\ k \in Nat \ {0, 1} /\ m \in Nat \ {0, 1} /\ n \in Nat \ {0, 1}
        /\ w \in Nat /\ w = m * n /\ w >= 4 /\ s \in Nat \ {0} /\ s = c * n /\ s >= w + w
    BY <1>1, SizesAre
  <1>3. c \in Nat \ {0}
    BY <1>1, <1>2
  <1>4. s = k * w
    BY <1>1, <1>2
  <1>5. PICK h, v : h = k - 1 /\ v = h * w
    OBVIOUS
  <1>6. h \in Nat /\ v \in Nat /\ s = v + w
    BY <1>2, <1>4, <1>5
  <1>7. InvalidPage = v
    <2>1. PICK x, y : x = w - 2 /\ y = s - 2
      OBVIOUS
    <2>2. x \in 0 .. w - 1 /\ y = v + x /\ y \in Nat /\ x \in Nat
      BY <1>2, <1>6, <2>1
    <2>3. y % w = x
      <3>1. (h * w + x) % w = x
        <4>1. w \in Nat \ {0}
          BY <1>2
        <4> QED
          BY <1>6, <2>2, <4>1, DivisionIs
      <3> QED
        BY <1>5, <2>2, <3>1, Zenon
    <2>4. InvalidPage = y - (y % w)
      BY <1>1, <2>1, Zenon DEF InvalidPage, INVALID_POINTER
    <2>5. InvalidPage = y - x
      BY <2>3, <2>4, Zenon
    <2> QED
      BY <1>6, <2>2, <2>5
  <1>8. Plus(InvalidPage, T23_SIZE) = 0
    <2>1. s % s = 0
      <3>1. 1 * s + 0 = s /\ 0 \in 0 .. s - 1
        BY <1>2
      <3>2. (1 * s + 0) % s = 0
        BY <1>2, <3>1, DivisionIs
      <3> QED
        BY <3>1, <3>2, Zenon
    <2>2. InvalidPage + T23_SIZE = s
      BY <1>1, <1>6, <1>7
    <2> QED
      BY <1>1, <2>1, <2>2, Zenon DEF Plus
  <1>9. ZoneEnd(InvalidPage, T23_SIZE) = c
    <2>1. (c * n + 0) \div n = c /\ c * n + 0 = c * n
      <3>1. 0 \in 0 .. n - 1 /\ c * n + 0 = c * n
        BY <1>2, <1>3
      <3> QED
        BY <1>2, <1>3, <3>1, DivisionIs
    <2> QED
      BY <1>1, <1>2, <1>8, <2>1, Zenon DEF ZoneEnd
  <1>10. Block(Space - 1) = c - 1
    <2>1. PICK d, x : d = c - 1 /\ x = n - 1
      OBVIOUS
    <2>2. d \in Nat /\ x \in 0 .. n - 1 /\ c * n = d * n + n /\ d * n \in Nat
      BY <1>2, <1>3, <2>1
    <2>3. s - 1 = d * n + x
      BY <1>2, <2>1, <2>2
    <2>4. (d * n + x) \div n = d
      BY <1>2, <2>2, DivisionIs
    <2> QED
      BY <1>1, <2>1, <2>3, <2>4, Zenon DEF Block
  <1>11. /\ ZoneFirst(InvalidPage) \in Nat /\ Block(InvalidPage) \in Nat
         /\ Block(InvalidPage) <= ZoneFirst(InvalidPage)
    <2>1. PICK x : x = v + (n - 1)
      OBVIOUS
    <2>2. x \in Nat /\ v <= x
      BY <1>2, <1>6, <2>1
    <2>3. v \div n <= x \div n /\ x \div n \in Nat /\ v \div n \in Nat
      BY <1>2, <1>6, <2>2, DivisionMonotonic, Quotient
    <2> QED
      BY <1>1, <1>7, <2>1, <2>3, Zenon DEF ZoneFirst, Block
  <1>12. \A b \in Int : ZoneFirst(InvalidPage) <= b /\ b <= c - 1 =>
                          Block(InvalidPage) <= b /\ b <= c - 1
    BY <1>3, <1>11
  <1> QED
    BY <1>3, <1>9, <1>10, <1>11, <1>12 DEF Zone

\* The blocks of the heap.
LEMMA HeapIsInvalid ==
  /\ ZoneFirst(HeapStart) \in Int
  /\ ZoneEnd(HeapStart, HeapSize) \in Int
  /\ ZoneFirst(HeapStart) .. ZoneEnd(HeapStart, HeapSize) - 1 \subseteq Zone
PROOF
  <1>1. PICK n, s, a, b : n = T3_SIZE /\ s = Space /\ a = HeapStart /\ b = HeapSize
    OBVIOUS
  <1>2. n \in Nat \ {0} /\ s \in Nat \ {0} /\ a \in Nat /\ b \in Nat
    BY <1>1, SizesAre, BoundCheckAssumption DEF Addr
  <1>3. ZoneFirst(HeapStart) \in Int
    <2>1. PICK x : x = a + (n - 1)
      OBVIOUS
    <2>2. x \in Nat
      BY <1>2, <2>1
    <2>3. x \div n \in Nat
      BY <1>2, <2>2, Quotient
    <2>4. ZoneFirst(HeapStart) = x \div n
      BY <1>1, <2>1, Zenon DEF ZoneFirst
    <2> QED
      BY <2>3, <2>4
  <1>4. ZoneEnd(HeapStart, HeapSize) \in Int
    <2>1. PICK x : x = Plus(HeapStart, HeapSize)
      OBVIOUS
    <2>2. x \in Nat
      <3>1. (a + b) % s \in 0 .. s - 1
        <4>1. a + b \in Nat
          BY <1>2
        <4> QED
          BY <1>2, <4>1, Division
      <3>2. x = (a + b) % s
        BY <1>1, <2>1, Zenon DEF Plus
      <3> QED
        BY <1>2, <3>1, <3>2
    <2>3. x \div n \in Nat /\ s \div n \in Nat
      BY <1>2, <2>2, Quotient
    <2>4. ZoneEnd(HeapStart, HeapSize) = IF x = 0 THEN s \div n ELSE x \div n
      BY <1>1, <2>1, Zenon DEF ZoneEnd, Block
    <2> QED
      BY <2>3, <2>4
  <1> QED
    BY <1>3, <1>4 DEF Zone

(***************************************************************************)
(* The inductive invariant                                                 *)
(***************************************************************************)
Errors == {"none", "freeing invalid region", "realloc'ing invalid pointer"}
BoundInv == TableOK(t1, allocated) /\ RegionsOK(allocated) /\ error \in Errors

\* Nothing is allocated at first.
LEMMA BoundInit ==
  ASSUME Init
  PROVE  BoundInv
PROOF
  <1>1. PICK t, u : /\ t = mark_invalid(EmptyTable, InvalidPage, T23_SIZE)
                    /\ u = mark_invalid(t, HeapStart, HeapSize)
    OBVIOUS
  <1>2. TableOK(t, {})
    BY <1>1, EmptyTableOK, LastPageIsInvalid, MarkKeeps
  <1>3. TableOK(u, {})
    BY <1>1, <1>2, HeapIsInvalid, MarkKeeps
  <1>4. t1 = u /\ allocated = {} /\ error = "none"
    BY <1>1 DEF Init
  <1>5. RegionsOK({})
    BY DEF RegionsOK, Apart
  <1> QED
    BY <1>3, <1>4, <1>5 DEF BoundInv, Errors

\* A place that is free may be given to a region.
LEMMA NewIsPlaced ==
  ASSUME RegionsOK(allocated), NEW p \in Places, NEW size \in Sizes,
         NEW r, r = [start |-> p, size |-> size], Free(r)
  PROVE  r \notin allocated /\ RegionsOK(allocated \cup {r})
PROOF
  <1>1. /\ p \in Addr /\ p # 0 /\ size \in Nat /\ p + size < Space - T23_SIZE
        /\ Space \in Nat /\ T23_SIZE \in Nat
    BY BoundCheckAssumption, SizesAre
  <1>2. size \in Addr
    BY <1>1 DEF Addr
  <1>3. r.start = p /\ r.size = size
    OBVIOUS
  <1>4. Placed(r)
    BY <1>1, <1>2, <1>3 DEF Placed, Region
  <1>5. \A q \in allocated : Bytes(q) \cap Bytes(r) = {}
    BY DEF Free
  <1>6. r \notin allocated
    BY <1>4, <1>5, PlacedIs
  <1> QED
    BY <1>4, <1>5, <1>6 DEF RegionsOK, Apart

\* A region whose start is p is found for p, and only such a region is.
LEMMA FoundStart ==
  ASSUME NEW t, NEW S, TableOK(t, S), RegionsOK(S), NEW p \in Addr \ {0}
  PROVE  /\ \A r \in S : r.start = p => FoundRegion(EntryAt(t, p), p) = r
         /\ FoundRegion(EntryAt(t, p), p).start = p => FoundRegion(EntryAt(t, p), p) \in S
PROOF
  <1>1. ASSUME NEW r \in S, r.start = p PROVE FoundRegion(EntryAt(t, p), p) = r
    <2>1. p \in Bytes(r)
      BY <1>1, PlacedIs DEF RegionsOK
    <2> QED
      BY <2>1, FoundInTable
  <1>2. ASSUME \A r \in S : p \notin Bytes(r) PROVE FoundRegion(EntryAt(t, p), p).start # p
    <2>1. \E x : FoundRegion(EntryAt(t, p), p) = NoRegion(x)
      BY <1>2, FoundInTable
    <2> QED
      BY <2>1, NoRegionIs
  <1>3. ASSUME NEW r \in S, p \in Bytes(r) PROVE FoundRegion(EntryAt(t, p), p) \in S
    BY <1>3, FoundInTable
  <1> QED
    BY <1>1, <1>2, <1>3

\* The region that starts at p is the only one.
LEMMA OneStart ==
  ASSUME NEW S, RegionsOK(S), NEW r \in S
  PROVE  {q \in S : q.start # r.start} = S \ {r}
PROOF
  <1>1. ASSUME NEW q \in S, q.start = r.start PROVE q = r
    <2>1. r.start \in Bytes(r) /\ r.start \in Bytes(q)
      BY <1>1, PlacedIs DEF RegionsOK
    <2> QED
      BY <2>1 DEF RegionsOK, Apart
  <1> QED
    BY <1>1

\* Every step, if no region that spans two pages is deleted.
LEMMA BoundNext ==
  ASSUME ~DeleteAcrossPages, BoundInv, [Next]_vars
  PROVE  BoundInv'
PROOF
  <1>1. TableOK(t1, allocated) /\ RegionsOK(allocated) /\ error \in Errors
    BY DEF BoundInv
  <1>2. \A p \in Places : p \in Addr \ {0}
    BY BoundCheckAssumption
  <1>3. ASSUME NEW p \in Places, NEW size \in Sizes, New(p, size) PROVE BoundInv'
    <2>1. PICK r : r = [start |-> p, size |-> size]
      OBVIOUS
    <2>2. /\ Free(r) /\ t1' = __bound_new_region(t1, r) /\ allocated' = allocated \cup {r}
          /\ error' = error
      BY <1>3, <2>1 DEF New
    <2>3. r \notin allocated /\ RegionsOK(allocated \cup {r})
      BY <1>1, <2>1, <2>2, NewIsPlaced
    <2>4. TableOK(__bound_new_region(t1, r), allocated \cup {r})
      BY <1>1, <2>3, NewRegionKeeps
    <2> QED
      BY <1>1, <2>2, <2>3, <2>4 DEF BoundInv
  <1>4. ASSUME NEW p \in Places, Delete(p) PROVE BoundInv'
    <2>1. CASE DeleteAnswer(t1, p) = 0
      <3>1. PICK r : r = FoundRegion(EntryAt(t1, p), p)
        OBVIOUS
      <3>2. r.start = p
        BY <2>1, <3>1 DEF DeleteAnswer
      <3>3. r \in allocated
        BY <1>1, <1>2, <3>1, <3>2, FoundStart
      <3>4. /\ MayDelete(t1, p) /\ t1' = __bound_delete_region(t1, p)
            /\ allocated' = {q \in allocated : q.start # p} /\ error' = error
        BY <1>4, <2>1 DEF Delete
      <3>5. PageOf(FirstBlock(r)) = PageOf(LastBlock(r))
        BY <3>1, <3>4 DEF MayDelete
      <3>6. TableOK(__bound_delete_region(t1, p), allocated \ {r})
        BY <1>1, <3>2, <3>3, <3>5, DeleteRegionKeeps
      <3>7. allocated' = allocated \ {r}
        BY <1>1, <3>2, <3>3, <3>4, OneStart
      <3>8. RegionsOK(allocated \ {r})
        BY <1>1, SomeRegions
      <3> QED
        BY <1>1, <3>4, <3>6, <3>7, <3>8 DEF BoundInv
    <2>2. CASE DeleteAnswer(t1, p) # 0
      <3>1. /\ t1' = __bound_find_region(t1, p) /\ allocated' = allocated
            /\ error' = "freeing invalid region"
        BY <1>4, <2>2 DEF Delete
      <3>2. TableOK(__bound_find_region(t1, p), allocated)
        BY <1>1, <1>2, FindKeeps
      <3> QED
        BY <1>1, <3>1, <3>2 DEF BoundInv, Errors
    <2> QED
      BY <2>1, <2>2
  <1>5. ASSUME NEW p \in Places, NEW q \in Places, NEW size \in Sizes, Realloc(p, q, size)
        PROVE  BoundInv'
    <2>1. PICK r, t, u, S : /\ r = [start |-> q, size |-> size]
                            /\ t = __bound_new_region(t1, r)
                            /\ u = __bound_find_region(t, p)
                            /\ S = allocated \cup {r}
      OBVIOUS
    <2>2. Free(r)
      BY <1>5, <2>1 DEF Realloc
    <2>3. r \notin allocated /\ RegionsOK(S)
      BY <1>1, <2>1, <2>2, NewIsPlaced
    <2>4. TableOK(t, S)
      BY <1>1, <2>1, <2>3, NewRegionKeeps
    <2>5. TableOK(u, S)
      BY <1>2, <2>1, <2>3, <2>4, FindKeeps
    <2>6. CASE RegionSize(t, p) = EMPTY_SIZE
      <3>1. t1' = u /\ allocated' = S /\ error' = "realloc'ing invalid pointer"
        BY <1>5, <2>1, <2>6 DEF Realloc
      <3> QED
        BY <2>3, <2>5, <3>1 DEF BoundInv, Errors
    <2>7. CASE RegionSize(t, p) # EMPTY_SIZE
      <3>1. PICK o : o = FoundRegion(EntryAt(t, p), p)
        OBVIOUS
      <3>2. o.start = p
        BY <2>7, <3>1 DEF RegionSize
      <3>3. o \in S
        BY <1>2, <2>3, <2>4, <3>1, <3>2, FoundStart
      <3>4. FoundRegion(EntryAt(u, p), p) = o
        BY <1>2, <2>3, <2>5, <3>2, <3>3, FoundStart
      <3>5. /\ MayDelete(u, p) /\ t1' = __bound_delete_region(u, p)
            /\ allocated' = {x \in S : x.start # p} /\ error' = error
        BY <1>5, <2>1, <2>7 DEF Realloc
      <3>6. PageOf(FirstBlock(o)) = PageOf(LastBlock(o))
        BY <3>4, <3>5 DEF MayDelete
      <3>7. TableOK(__bound_delete_region(u, p), S \ {o})
        BY <2>3, <2>5, <3>2, <3>3, <3>6, DeleteRegionKeeps
      <3>8. allocated' = S \ {o}
        BY <2>3, <3>2, <3>3, <3>5, OneStart
      <3>9. RegionsOK(S \ {o})
        BY <2>3, SomeRegions
      <3> QED
        BY <1>1, <3>5, <3>7, <3>8, <3>9 DEF BoundInv
    <2> QED
      BY <2>6, <2>7
  <1>6. ASSUME NEW p \in UNION {Bytes(r) : r \in allocated}, CheckPointer(p) PROVE BoundInv'
    <2>1. p \in Addr
      BY <1>1, HolderTouches
    <2>2. TableOK(__bound_find_region(t1, p), allocated)
      BY <1>1, <2>1, FindKeeps
    <2> QED
      BY <1>1, <1>6, <2>2 DEF CheckPointer, BoundInv
  <1>7. CASE UNCHANGED vars
    BY <1>1, <1>7 DEF vars, BoundInv
  <1> QED
    BY <1>3, <1>4, <1>5, <1>6, <1>7 DEF Next

(***************************************************************************)
(* The properties                                                          *)
(***************************************************************************)
\* Every list of the table is a list of regions.
LEMMA TypesFollow ==
  ASSUME BoundInv
  PROVE  TableTypeOK
PROOF
  <1>1. t1 \in Table
    BY DEF BoundInv, TableOK
  <1>2. ASSUME NEW i \in Pages, NEW j \in Slots
        PROVE  /\ t1[i].e[j].regions \in Seq(Region)
               /\ t1[i].e[j].regions # <<>>
               /\ t1[i].e[j].is_invalid \in BOOLEAN
    <2>1. PICK e, T : e = t1[i].e[j] /\ T = Touching(allocated, i * T2_SIZE + j)
      OBVIOUS
    <2>2. e \in EntryType /\ Lists(e.regions, T)
      BY <2>1 DEF BoundInv, TableOK, BlockOK, EntryOK
    <2>3. e.regions \in Seq(Region) /\ e.is_invalid \in BOOLEAN
      BY <2>2 DEF EntryType
    <2>4. e.regions # <<>>
      BY <2>2, <2>3, ListIs
    <2> QED
      BY <2>1, <2>3, <2>4
  <1>3. allocated \subseteq Region
    BY DEF BoundInv, RegionsOK, Placed
  <1> QED
    BY <1>1, <1>2, <1>3 DEF TableTypeOK, Table, BoundInv, Errors

\* A list that has each region once is as long as there are regions.
LEMMA ListLength ==
  ASSUME NEW l \in Seq(Region), NEW T, ListsAll(l, T)
  PROVE  Len(l) = Cardinality(T)
PROOF
  <1>1. Len(l) \in Nat /\ DOMAIN l = 1 .. Len(l)
    OBVIOUS
  <1>2. PICK f, n : n = Len(l) /\ f = [k \in 1 .. n |-> l[k]]
    OBVIOUS
  <1>3. f \in [1 .. n -> T]
    BY <1>2 DEF ListsAll
  <1>4. \A k, m \in 1 .. n : f[k] = f[m] => k = m
    BY <1>2 DEF ListsAll
  <1>5. \A r \in T : \E k \in 1 .. n : f[k] = r
    BY <1>2 DEF ListsAll
  <1>6. f \in Bijection(1 .. n, T)
    BY <1>3, <1>4, <1>5 DEF Bijection, Injection, Surjection, IsInjective
  <1>7. ExistsBijection(1 .. n, T)
    BY <1>6 DEF ExistsBijection
  <1> QED
    BY <1>1, <1>2, <1>7, FS_CountingElements

\* Each block lists the regions that touch it.
LEMMA ExactFollows ==
  ASSUME BoundInv
  PROVE  TableIsExact
PROOF
  <1>1. ASSUME NEW i \in Pages, NEW j \in Slots
        PROVE  LET b == i * T2_SIZE + j
                   entry == t1[i].e[j]
                   touching == {r \in allocated : \E a \in Bytes(r) : Block(a) = b}
               IN  /\ Listed(entry) = touching
                   /\ Len(entry.regions) = IF touching = {} THEN 1 ELSE Cardinality(touching)
    <2> DEFINE b == i * T2_SIZE + j
               entry == t1[i].e[j]
               touching == {r \in allocated : \E a \in Bytes(r) : Block(a) = b}
    <2>1. b = i * T2_SIZE + j /\ entry = t1[i].e[j]
          /\ touching = {r \in allocated : \E a \in Bytes(r) : Block(a) = b}
      OBVIOUS
    <2> HIDE DEF b, entry, touching
    <2>2. /\ Listed(entry) = touching
          /\ Len(entry.regions) = IF touching = {} THEN 1 ELSE Cardinality(touching)
      <3>1. RegionsOK(allocated) /\ EntryOK(entry, Touching(allocated, b)) /\ b \in Nat
        BY <2>1, SlotsAreBlocks DEF BoundInv, TableOK, BlockOK
      <3>2. touching = Touching(allocated, b)
        BY <2>1, <3>1, TouchedBlocks DEF Touching, RegionsOK
      <3>3. PICK l, T : l = entry.regions /\ T = touching
        OBVIOUS
      <3>4. l \in Seq(Region) /\ Lists(l, T) /\ T \subseteq allocated
        BY <2>1, <3>1, <3>2, <3>3 DEF EntryOK, EntryType
      <3>5. Listed(entry) = {l[k] : k \in {k \in 1 .. Len(l) : l[k].start # 0}}
        BY <3>3, <3>4 DEF Listed
      <3>6. CASE T = {}
        <4>1. Len(l) = 1 /\ l[1].start = 0
          BY <3>4, <3>6, ListIs DEF Lists, ListsNone
        <4>2. {k \in 1 .. Len(l) : l[k].start # 0} = {}
          BY <4>1
        <4> QED
          BY <3>3, <3>5, <3>6, <4>1, <4>2
      <3>7. CASE T # {}
        <4>1. ListsAll(l, T)
          BY <3>4, <3>7 DEF Lists
        <4>2. \A k \in 1 .. Len(l) : l[k].start # 0
          BY <3>1, <3>4, <4>1 DEF ListsAll, RegionsOK, Placed
        <4>3. Listed(entry) = T
          BY <3>5, <4>1, <4>2 DEF ListsAll
        <4>4. Len(l) = Cardinality(T)
          BY <3>4, <4>1, ListLength
        <4> QED
          BY <3>3, <3>7, <4>3, <4>4
      <3> QED
        BY <3>6, <3>7
    <2> USE DEF b, entry, touching
    <2> QED
      BY <2>2
  <1> QED
    BY <1>1 DEF TableIsExact

\* The pointers tried are addresses other than NULL.
LEMMA TriedAreAddresses == Tried \subseteq Addr \ {0}
PROOF
  BY DEF Tried

\* Sums of addresses are addresses.
LEMMA PlusIsAddress ==
  ASSUME NEW a \in Int, NEW b \in Int
  PROVE  Plus(a, b) \in 0 .. Space - 1
PROOF
  <1>1. ASSUME NEW x \in Int, NEW s \in Nat \ {0} PROVE x % s \in 0 .. s - 1
    OBVIOUS
  <1>2. a + b \in Int
    OBVIOUS
  <1> QED
    BY <1>1, <1>2, SizesAre DEF Plus

\* The test of the pointer operations: what is reached lies in the region.
LEMMA ReachIsInside ==
  ASSUME NEW h, Placed(h), NEW p \in Bytes(h), NEW c \in -5 .. 5
  PROVE  Plus(Minus(p, h.start), c) > h.size <=> p + c \notin Bytes(h)
PROOF
  <1>1. PICK s, n, m, w, x, y, z :
          /\ s = h.start /\ n = h.size /\ m = Space /\ w = T23_SIZE
          /\ x = Minus(p, h.start) /\ y = x + c /\ z = Plus(x, c)
    OBVIOUS
  <1>2. /\ s \in Nat \ {0} /\ n \in Nat /\ m \in Nat \ {0} /\ w \in Nat /\ w >= 4
        /\ s + n < m - w /\ Bytes(h) = s .. s + n /\ p \in Nat
    BY <1>1, PlacedIs, SizesAre DEF Bytes, Placed
  <1>3. x = p - s
    <2>1. PICK v : v = p - s
      OBVIOUS
    <2>2. v \in Nat /\ v < m
      BY <1>2, <2>1
    <2>3. v % m = v
      BY <1>2, <2>2, Wraps
    <2>4. x = v % m
      BY <1>1, <2>1, Zenon DEF Minus
    <2> QED
      BY <2>1, <2>3, <2>4, Zenon
  <1>4. x \in Nat /\ x <= n /\ y \in Int
    BY <1>1, <1>2, <1>3
  <1>5. z = y % m
    BY <1>1, Zenon DEF Plus
  <1>6. CASE 0 <= y
    <2>1. y < m
      BY <1>1, <1>2, <1>4
    <2>2. z = y
      BY <1>2, <1>4, <1>5, <1>6, <2>1, Wraps, Zenon
    <2> QED
      BY <1>1, <1>2, <1>3, <1>4, <1>6, <2>2
  <1>7. CASE y < 0
    <2>1. -m <= y
      BY <1>1, <1>2, <1>4
    <2>2. z = y + m
      BY <1>2, <1>4, <1>5, <1>7, <2>1, Wraps, Zenon
    <2>3. z > n
      BY <1>1, <1>2, <1>4, <2>2
    <2>4. p + c = s + y
      BY <1>1, <1>2, <1>3, <1>4
    <2>5. p + c \notin s .. s + n
      BY <1>2, <1>4, <1>7, <2>4
    <2> QED
      BY <1>1, <1>2, <2>3, <2>5
  <1> QED
    BY <1>4, <1>6, <1>7

\* What ends in a region, and does not begin before it, is allowed there.
LEMMA AllowedIs ==
  ASSUME NEW h, Placed(h), NEW a \in Int, NEW d \in Nat, ~BeginsBefore(h, a, d)
  PROVE  Allowed(h, a, d) <=> a + d \in Bytes(h)
PROOF
  <1>1. PICK s, n : s = h.start /\ n = h.size
    OBVIOUS
  <1>2. s \in Nat /\ n \in Nat /\ Bytes(h) = s .. s + n
    BY <1>1, PlacedIs, SizesAre DEF Bytes, Placed
  <1>3. ~(a < s /\ s <= a + d)
    BY <1>1 DEF BeginsBefore
  <1>4. Allowed(h, a, d) <=> s <= a /\ a + d <= s + n
    BY <1>1 DEF Allowed
  <1> QED
    BY <1>2, <1>3, <1>4

\* Pointer operations pass what is allowed.
LEMMA ChecksFollow ==
  ASSUME BoundInv
  PROVE  ChecksAgree
PROOF
  <1>1. TableOK(t1, allocated) /\ RegionsOK(allocated)
    BY DEF BoundInv
  <1>2. ASSUME NEW p \in Tried, NEW offset \in TriedOffsets, NEW d \in TriedWidths
        PROVE  LET answer == PtrResult(FoundRegion(EntryAt(t1, p), p), p, offset, d)
               IN IF Holder(p) = {}
                  THEN Block(p) \notin Zone => answer = Plus(p, offset)
                  ELSE \A h \in Holder(p) :
                         \/ BeginsBefore(h, p + offset, d)
                         \/ answer = IF Allowed(h, p + offset, d) THEN Plus(p, offset)
                                     ELSE INVALID_POINTER
    <2>1. PICK r, c : r = FoundRegion(EntryAt(t1, p), p) /\ c = offset + d
      OBVIOUS
    <2>2. /\ p \in Addr \ {0} /\ p \in Nat /\ c \in -5 .. 5 /\ p + offset + d = p + c
          /\ p + offset \in Int /\ d \in Nat
      BY <2>1, TriedAreAddresses, SizesAre DEF Addr, TriedOffsets, TriedWidths
    <2>3. PtrResult(r, p, offset, d) = IF Plus(Minus(p, r.start), c) > r.size
                                       THEN INVALID_POINTER ELSE Plus(p, offset)
      BY <2>1 DEF PtrResult
    <2>4. CASE Holder(p) = {}
      <3>1. ASSUME Block(p) \notin Zone PROVE PtrResult(r, p, offset, d) = Plus(p, offset)
        <4>1. \A h \in allocated : p \notin Bytes(h)
          BY <2>4 DEF Holder
        <4>2. r = NoRegion(EMPTY_SIZE)
          BY <1>1, <2>1, <2>2, <3>1, <4>1, FoundInTable
        <4>3. r.start = 0 /\ r.size = EMPTY_SIZE
          BY <4>2, NoRegionIs
        <4>4. PICK x, y, s : x = Minus(p, 0) /\ y = Plus(x, c) /\ s = Space
          OBVIOUS
        <4>5. s \in Nat \ {0} /\ p < s
          BY <2>2, <4>4, SizesAre DEF Addr
        <4>6. x \in Int
          <5>1. p - 0 = p /\ p % s = p
            BY <2>2, <4>5, Wraps
          <5>2. x = p
            BY <4>4, <5>1, Zenon DEF Minus
          <5> QED
            BY <2>2, <5>2
        <4>7. y \in 0 .. s - 1
          BY <2>2, <4>4, <4>6, PlusIsAddress
        <4>8. ~(y > EMPTY_SIZE)
          BY <4>4, <4>5, <4>7 DEF EMPTY_SIZE
        <4> QED
          BY <2>3, <4>3, <4>4, <4>8
      <3> QED
        BY <2>1, <2>4, <3>1
    <2>5. CASE Holder(p) # {}
      <3>1. ASSUME NEW h \in Holder(p), ~BeginsBefore(h, p + offset, d)
            PROVE  PtrResult(r, p, offset, d) = IF Allowed(h, p + offset, d) THEN Plus(p, offset)
                                                ELSE INVALID_POINTER
        <4>1. h \in allocated /\ p \in Bytes(h) /\ Placed(h)
          BY <1>1 DEF Holder, RegionsOK
        <4>2. r = h
          BY <1>1, <2>1, <2>2, <4>1, FoundInTable
        <4>3. Plus(Minus(p, h.start), c) > h.size <=> p + c \notin Bytes(h)
          BY <2>2, <4>1, ReachIsInside
        <4>4. Allowed(h, p + offset, d) <=> p + c \in Bytes(h)
          BY <2>2, <3>1, <4>1, AllowedIs
        <4> QED
          BY <2>3, <4>2, <4>3, <4>4
      <3> QED
        BY <2>1, <2>5, <3>1
    <2> QED
      BY <2>4, <2>5
  <1> QED
    BY <1>2 DEF ChecksAgree

\* free and realloc recognise the starts of regions.
LEMMA FreesFollow ==
  ASSUME BoundInv
  PROVE  FreesAgree
PROOF
  <1>1. TableOK(t1, allocated) /\ RegionsOK(allocated)
    BY DEF BoundInv
  <1>2. ASSUME NEW p \in Tried
        PROVE  LET owner == {r \in allocated : r.start = p} IN
               /\ DeleteAnswer(t1, p) = 0 <=> owner # {}
               /\ \A r \in owner : RegionSize(t1, p) = r.size
    <2>1. PICK q : q = FoundRegion(EntryAt(t1, p), p)
      OBVIOUS
    <2>2. p \in Addr \ {0}
      BY TriedAreAddresses
    <2>3. ASSUME NEW r \in allocated, r.start = p
          PROVE  DeleteAnswer(t1, p) = 0 /\ RegionSize(t1, p) = r.size
      <3>1. q = r
        BY <1>1, <2>1, <2>2, <2>3, FoundStart
      <3>2. r.size \in Nat /\ r.size < EMPTY_SIZE /\ EMPTY_SIZE \in Int
        BY <1>1, PlacedIs, SizesAre DEF RegionsOK, EMPTY_SIZE
      <3>3. r.size # EMPTY_SIZE
        BY <3>2
      <3> QED
        BY <2>1, <2>3, <3>1, <3>3 DEF DeleteAnswer, RegionSize
    <2>4. ASSUME DeleteAnswer(t1, p) = 0 PROVE \E r \in allocated : r.start = p
      <3>1. q.start = p
        BY <2>1, <2>4 DEF DeleteAnswer
      <3>2. q \in allocated
        BY <1>1, <2>1, <2>2, <3>1, FoundStart
      <3> QED
        BY <3>1, <3>2
    <2> QED
      BY <2>3, <2>4
  <1> QED
    BY <1>2 DEF FreesAgree

\* The invariant holds in every state.
LEMMA BoundInvariant ==
  ASSUME ~DeleteAcrossPages
  PROVE  Spec => []BoundInv
PROOF
  <1>1. Init => BoundInv
    BY BoundInit
  <1>2. BoundInv /\ [Next]_vars => BoundInv'
    BY BoundNext
  <1> QED
    BY <1>1, <1>2, PTL DEF Spec

\* bcheck.c keeps a table of lists of regions.
THEOREM TablesAreTyped == ASSUME ~DeleteAcrossPages PROVE Spec => []TableTypeOK
PROOF
  <1>1. BoundInv => TableTypeOK
    BY TypesFollow
  <1> QED
    BY <1>1, BoundInvariant, PTL

\* __bound_new_region and __bound_delete_region (bcheck.c): whatever is
\* allocated, released, reallocated and searched for, in whatever order, each
\* block lists just the regions that touch it, each once, as long as no region
\* that spans two pages is deleted (delete_region takes the wrong page then).
THEOREM TableStaysExact == ASSUME ~DeleteAcrossPages PROVE Spec => []TableIsExact
PROOF
  <1>1. BoundInv => TableIsExact
    BY ExactFollows
  <1> QED
    BY <1>1, BoundInvariant, PTL

\* __bound_ptr_add, __bound_ptr_indir, free and realloc (bcheck.c): whatever
\* was searched for last, a pointer is taken for the region that holds it, and
\* passed just if the access lies there, the wrap-around of addresses included;
\* but for accesses that begin before the region.
THEOREM CheckersTakeTheHolder == ASSUME ~DeleteAcrossPages PROVE Spec => []CheckersAgree
PROOF
  <1>1. BoundInv => CheckersAgree
    BY ChecksFollow, FreesFollow DEF CheckersAgree
  <1> QED
    BY <1>1, BoundInvariant, PTL
=============================================================================

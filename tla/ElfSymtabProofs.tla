--------------------------- MODULE ElfSymtabProofs ---------------------------
(***************************************************************************)
(* Proofs about ElfSymtab, for all names, hash functions, objects and      *)
(* bounds.  The lemmas about tables say that the links of each bucket      *)
(* always lead through just the symbols that are hashed to it, from the    *)
(* newest to the oldest, so that a lookup misses none; the lemmas about    *)
(* steps say that entries are only added and that an entry keeps its name. *)
(***************************************************************************)
EXTENDS ElfSymtab, NaturalExtrema, SequenceTheorems

\* Table, for any table.
TableType(t) ==
  t \in [syms : Seq(Elf32_Sym), nbuckets : Nat \ {0}, bucket : [0 .. t.nbuckets - 1 -> Nat],
         chain : [1 .. Len(t.syms) -> Nat], nb_hashed_syms : Nat]

\* Each bucket, and each link, leads to the newest symbol that is left.
LinksExact(t) ==
  /\ \A h \in 0 .. t.nbuckets - 1 :
       t.bucket[h] = Newest(t.syms, Len(t.syms), h, t.nbuckets)
  /\ \A i \in 1 .. Len(t.syms) :
       t.syms[i].bind # "local" =>
         t.chain[i] = Newest(t.syms, i - 1, BucketOf(t.syms[i].name, t.nbuckets), t.nbuckets)

\* A name has one entry at most that is not local.
NamesOnce(t) ==
  \A i, j \in 1 .. Len(t.syms) :
    /\ t.syms[i].bind # "local"
    /\ t.syms[j].bind # "local"
    /\ t.syms[i].name = t.syms[j].name
    => i = j

Good(t) == TableType(t) /\ LinksExact(t) /\ NamesOnce(t)

\* Every entry of t is still there in u and means the same to relocations.
Extends(t, u) ==
  /\ Len(t.syms) <= Len(u.syms)
  /\ \A i \in 1 .. Len(t.syms) :
       /\ u.syms[i].name = t.syms[i].name
       /\ u.syms[i].bind = "local" <=> t.syms[i].bind = "local"
       /\ t.syms[i].bind = "local" => u.syms[i].from = t.syms[i].from

(***************************************************************************)
(* Newest                                                                  *)
(***************************************************************************)
LEMMA TableFacts ==
  ASSUME NEW t, TableType(t)
  PROVE  /\ t.syms \in Seq(Elf32_Sym)
         /\ Len(t.syms) \in Nat
         /\ DOMAIN t.syms = 1 .. Len(t.syms)
         /\ \A i \in 1 .. Len(t.syms) : t.syms[i] \in Elf32_Sym
         /\ t.nbuckets \in Nat \ {0}
         /\ t.bucket \in [0 .. t.nbuckets - 1 -> Nat]
         /\ t.chain \in [1 .. Len(t.syms) -> Nat]
         /\ t.nb_hashed_syms \in Nat
BY DEF TableType

LEMMA BucketInRange ==
  ASSUME NEW n \in SymName, NEW nb \in Nat \ {0}
  PROVE  BucketOf(n, nb) \in 0 .. nb - 1
<1>1. elf_hash[n] \in Nat
  BY SymtabAssumption
<1> HIDE DEF SymName
<1> QED BY <1>1 DEF BucketOf

\* Newest is the greatest index at which a symbol is hashed to h.
LEMMA NewestIsGreatest ==
  ASSUME NEW syms, NEW k \in Nat, NEW h, NEW nb
  PROVE  LET N == Newest(syms, k, h, nb) IN
         /\ N \in 0 .. k
         /\ N # 0 => Hashed(syms, N, h, nb)
         /\ \A j \in 1 .. k : Hashed(syms, j, h, nb) => j <= N
<1> DEFINE these == {i \in 1 .. k : Hashed(syms, i, h, nb)}
<1>1. CASE these = {}
  BY <1>1 DEF Newest
<1>2. CASE these # {}
  <2>1. these \in SUBSET Nat /\ \A i \in these : i <= k
    OBVIOUS
  <2>2. \E i \in these : \A j \in these : j <= i
    <3> HIDE DEF these
    <3> QED BY <1>2, <2>1, Greatest
  <2>3. Newest(syms, k, h, nb) = CHOOSE i \in these : \A j \in these : j <= i
    BY <1>2 DEF Newest
  <2>4. /\ Newest(syms, k, h, nb) \in these
        /\ \A j \in these : j <= Newest(syms, k, h, nb)
    <3> HIDE DEF these
    <3> QED BY <2>2, <2>3
  <2> QED BY <2>4
<1> QED BY <1>1, <1>2

LEMMA GreatestIsNewest ==
  ASSUME NEW syms, NEW k \in Nat, NEW h, NEW nb, NEW i \in 1 .. k,
         Hashed(syms, i, h, nb),
         \A j \in 1 .. k : Hashed(syms, j, h, nb) => j <= i
  PROVE  Newest(syms, k, h, nb) = i
<1>1. LET N == Newest(syms, k, h, nb) IN
      /\ N \in 0 .. k
      /\ N # 0 => Hashed(syms, N, h, nb)
      /\ \A j \in 1 .. k : Hashed(syms, j, h, nb) => j <= N
  BY NewestIsGreatest
<1> QED BY <1>1

\* Newest depends on where symbols are hashed alone.
LEMMA NewestSame ==
  ASSUME NEW syms, NEW new, NEW k \in Nat, NEW h, NEW nb,
         \A i \in 1 .. k : Hashed(new, i, h, nb) <=> Hashed(syms, i, h, nb)
  PROVE  Newest(new, k, h, nb) = Newest(syms, k, h, nb)
<1> DEFINE M == Newest(new, k, h, nb)
           N == Newest(syms, k, h, nb)
<1>1. /\ M \in 0 .. k
      /\ M # 0 => Hashed(new, M, h, nb)
      /\ \A j \in 1 .. k : Hashed(new, j, h, nb) => j <= M
  BY NewestIsGreatest
<1>2. /\ N \in 0 .. k
      /\ N # 0 => Hashed(syms, N, h, nb)
      /\ \A j \in 1 .. k : Hashed(syms, j, h, nb) => j <= N
  BY NewestIsGreatest
<1> HIDE DEF M, N
<1>3. M = N
  BY <1>1, <1>2
<1> QED BY <1>3 DEF M, N

(***************************************************************************)
(* Lookup                                                                  *)
(***************************************************************************)
\* The links from a bucket reach just the symbols hashed to it: they are
\* closed under the links, and of those that a closed set misses, the greatest
\* would be where the next greater one, or the bucket, leads.
LEMMA LinksReachAll ==
  ASSUME NEW t, TableType(t), LinksExact(t), NEW h \in 0 .. t.nbuckets - 1
  PROVE  OnChain(t, h) = {i \in 1 .. Len(t.syms) : Hashed(t.syms, i, h, t.nbuckets)}
<1> DEFINE nb == t.nbuckets
           n == Len(t.syms)
           H == {i \in 1 .. n : Hashed(t.syms, i, h, nb)}
           Closed(S) == /\ t.bucket[h] # 0 => t.bucket[h] \in S
                        /\ \A j \in S : t.chain[j] # 0 => t.chain[j] \in S
<1>1. n \in Nat /\ DOMAIN t.syms = 1 .. n
  BY TableFacts
<1>2. OnChain(t, h) = {i \in 1 .. n : \A S \in SUBSET (1 .. n) : Closed(S) => i \in S}
  BY <1>1 DEF OnChain
<1>3. t.bucket[h] = Newest(t.syms, n, h, nb)
  BY DEF LinksExact
<1>4. \A i \in H : t.chain[i] = Newest(t.syms, i - 1, h, nb)
  BY DEF LinksExact, Hashed
<1>5. Closed(H)
  <2>1. t.bucket[h] # 0 => t.bucket[h] \in H
    BY <1>1, <1>3, NewestIsGreatest
  <2>2. ASSUME NEW j \in H, t.chain[j] # 0  PROVE t.chain[j] \in H
    <3>1. j - 1 \in Nat /\ j <= n
      BY <1>1
    <3> DEFINE N == Newest(t.syms, j - 1, h, nb)
    <3>2. N \in 0 .. j - 1 /\ (N # 0 => Hashed(t.syms, N, h, nb))
      BY <3>1, NewestIsGreatest
    <3>3. t.chain[j] = N
      BY <1>4
    <3> HIDE DEF N
    <3> QED BY <1>1, <2>2, <3>1, <3>2, <3>3
  <2> QED BY <2>1, <2>2
<1>6. ASSUME NEW S \in SUBSET (1 .. n), Closed(S)  PROVE H \subseteq S
  <2> SUFFICES ASSUME H \ S # {}  PROVE FALSE
    OBVIOUS
  <2>1. H \ S \in SUBSET Nat /\ \A i \in H \ S : i <= n
    BY <1>1
  <2>2. PICK g \in H \ S : \A j \in H \ S : j <= g
    <3> HIDE DEF H
    <3> QED BY <1>1, <2>1, Greatest
  <2> DEFINE Above == {j \in H : j > g}
  <2>3. CASE Above = {}
    <3>1. g \in 1 .. n /\ Hashed(t.syms, g, h, nb)
      OBVIOUS
    <3>2. \A j \in 1 .. n : Hashed(t.syms, j, h, nb) => j <= g
      BY <1>1, <2>3, <3>1
    <3>3. Newest(t.syms, n, h, nb) = g
      BY <1>1, <3>1, <3>2, GreatestIsNewest
    <3> QED BY <1>3, <1>6, <3>1, <3>3
  <2>4. CASE Above # {}
    <3>1. Above \in SUBSET Nat
      OBVIOUS
    <3>2. PICK m \in Above : \A j \in Above : m <= j
      <4> HIDE DEF Above
      <4> QED BY <2>4, <3>1, Least
    <3>3. m \in S
      BY <2>2, <3>2
    <3>4. g \in 1 .. m - 1 /\ m - 1 \in Nat /\ m <= n /\ Hashed(t.syms, g, h, nb)
      BY <1>1, <3>2
    <3>5. \A j \in 1 .. m - 1 : Hashed(t.syms, j, h, nb) => j <= g
      BY <1>1, <3>2, <3>4
    <3>6. Newest(t.syms, m - 1, h, nb) = g
      BY <3>4, <3>5, GreatestIsNewest
    <3>7. t.chain[m] = g /\ g # 0
      BY <1>4, <3>2, <3>4, <3>6
    <3> QED BY <1>6, <3>3, <3>7
  <2> QED BY <2>3, <2>4
<1>7. H \in SUBSET (1 .. n)
  OBVIOUS
<1> HIDE DEF H, Closed
<1>8. OnChain(t, h) = H
  BY <1>2, <1>5, <1>6, <1>7
<1> QED BY <1>8 DEF H

\* find_elf_sym finds the entry of a name if there is one.
LEMMA FindFinds ==
  ASSUME NEW t, Good(t), NEW n \in SymName
  PROVE  LET f == find_elf_sym(t, n) IN
         /\ f \in 0 .. Len(t.syms)
         /\ f # 0 => t.syms[f].name = n /\ t.syms[f].bind # "local"
         /\ \A i \in 1 .. Len(t.syms) :
              t.syms[i].bind # "local" /\ t.syms[i].name = n => i = f
<1> DEFINE nb == t.nbuckets
           h == BucketOf(n, nb)
           hits == {i \in OnChain(t, h) : t.syms[i].name = n}
           mine == {i \in 1 .. Len(t.syms) : t.syms[i].bind # "local" /\ t.syms[i].name = n}
<1>1. h \in 0 .. nb - 1
  BY BucketInRange DEF Good, TableType
<1>2. OnChain(t, h) = {i \in 1 .. Len(t.syms) : Hashed(t.syms, i, h, nb)}
  <2> HIDE DEF h
  <2> QED BY <1>1, LinksReachAll DEF Good
<1>3. hits = mine
  BY <1>2 DEF Hashed
<1>4. find_elf_sym(t, n) = IF hits = {} THEN 0
                           ELSE CHOOSE i \in hits : \A j \in hits : j <= i
  BY DEF find_elf_sym
<1>5. Len(t.syms) \in Nat
  BY TableFacts DEF Good
<1>6. \A i, j \in mine : i = j
  BY DEF Good, NamesOnce
<1>7. CASE mine = {}
  <2>1. find_elf_sym(t, n) = 0
    <3> HIDE DEF hits, mine
    <3> QED BY <1>3, <1>4, <1>7
  <2> QED BY <1>5, <1>7, <2>1
<1>8. CASE mine # {}
  <2>1. PICK e : e \in mine
    BY <1>8
  <2>2. \E i \in mine : \A j \in mine : j <= i
    <3>1. \A j \in mine : j <= e
      BY <1>6, <2>1
    <3> QED BY <2>1, <3>1
  <2>3. find_elf_sym(t, n) \in mine
    <3> HIDE DEF hits, mine
    <3> QED BY <1>3, <1>4, <1>8, <2>2
  <2> QED BY <1>5, <1>6, <2>3
<1> QED BY <1>7, <1>8

(***************************************************************************)
(* Entering a symbol                                                       *)
(***************************************************************************)
\* One more symbol is newest exactly in its own bucket.
LEMMA NewestNext ==
  ASSUME NEW syms, NEW k \in Nat, NEW h, NEW nb
  PROVE  Newest(syms, k + 1, h, nb) =
           IF Hashed(syms, k + 1, h, nb) THEN k + 1 ELSE Newest(syms, k, h, nb)
<1>1. CASE Hashed(syms, k + 1, h, nb)
  <2>1. k + 1 \in Nat /\ k + 1 \in 1 .. k + 1 /\ \A j \in 1 .. k + 1 : j <= k + 1
    OBVIOUS
  <2>2. Newest(syms, k + 1, h, nb) = k + 1
    BY <1>1, <2>1, GreatestIsNewest
  <2> QED BY <1>1, <2>2
<1>2. CASE ~Hashed(syms, k + 1, h, nb)
  <2> DEFINE M == Newest(syms, k + 1, h, nb)
             N == Newest(syms, k, h, nb)
  <2>1. /\ M \in 0 .. k + 1
        /\ M # 0 => Hashed(syms, M, h, nb)
        /\ \A j \in 1 .. k + 1 : Hashed(syms, j, h, nb) => j <= M
    BY NewestIsGreatest
  <2>2. /\ N \in 0 .. k
        /\ N # 0 => Hashed(syms, N, h, nb)
        /\ \A j \in 1 .. k : Hashed(syms, j, h, nb) => j <= N
    BY NewestIsGreatest
  <2> HIDE DEF M, N
  <2>3. M = N
    BY <1>2, <2>1, <2>2
  <2> QED BY <1>2, <2>3 DEF M, N
<1> QED BY <1>1, <1>2

LEMMA ChainIsSeq ==
  ASSUME NEW t, TableType(t)
  PROVE  t.chain \in Seq(Nat) /\ Len(t.chain) = Len(t.syms)
<1>1. t.chain \in [1 .. Len(t.syms) -> Nat] /\ Len(t.syms) \in Nat
  BY TableFacts
<1>2. t.chain \in Seq(Nat)
  BY <1>1, SeqDef
<1>3. DOMAIN t.chain = 1 .. Len(t.chain) /\ Len(t.chain) \in Nat
  BY <1>2, LenProperties
<1> QED BY <1>1, <1>2, <1>3

LEMMA LinkedGood ==
  ASSUME NEW t, TableType(t), LinksExact(t), NEW s \in Elf32_Sym
  PROVE  /\ TableType(Linked(t, s))
         /\ LinksExact(Linked(t, s))
         /\ Linked(t, s).syms = Append(t.syms, s)
<1> DEFINE n == Len(t.syms)
           nb == t.nbuckets
           new == Append(t.syms, s)
           b == BucketOf(s.name, nb)
           u == Linked(t, s)
<1>1. /\ t.syms \in Seq(Elf32_Sym) /\ n \in Nat /\ nb \in Nat \ {0}
      /\ t.bucket \in [0 .. nb - 1 -> Nat] /\ t.nb_hashed_syms \in Nat
      /\ t.chain \in Seq(Nat) /\ Len(t.chain) = n
  BY TableFacts, ChainIsSeq
<1>2. b \in 0 .. nb - 1
  <2>1. s.name \in SymName
    BY DEF Elf32_Sym
  <2> QED BY <1>1, <2>1, BucketInRange
<1>3. /\ new \in Seq(Elf32_Sym) /\ Len(new) = n + 1
      /\ \A i \in 1 .. n : new[i] = t.syms[i]
      /\ new[n + 1] = s
  BY <1>1
<1>4. /\ u.syms = new
      /\ u.nbuckets = nb
      /\ u.chain = Append(t.chain, IF s.bind = "local" THEN 0 ELSE t.bucket[b])
      /\ u.bucket = IF s.bind = "local" THEN t.bucket ELSE [t.bucket EXCEPT ![b] = n + 1]
      /\ u.nb_hashed_syms \in Nat
      /\ u = [syms |-> u.syms, nbuckets |-> u.nbuckets, bucket |-> u.bucket,
              chain |-> u.chain, nb_hashed_syms |-> u.nb_hashed_syms]
  <2>1. CASE s.bind = "local"
    <3>1. u = [t EXCEPT !.syms = Append(@, s), !.chain = Append(@, 0)]
      BY <2>1 DEF Linked
    <3> HIDE DEF u
    <3> QED BY <1>1, <2>1, <3>1 DEF TableType
  <2>2. CASE s.bind # "local"
    <3>1. u = [t EXCEPT !.syms = Append(@, s), !.chain = Append(@, t.bucket[b]),
                        !.bucket[b] = n + 1, !.nb_hashed_syms = @ + 1]
      BY <2>2 DEF Linked
    <3>2. DOMAIN t = {"syms", "nbuckets", "bucket", "chain", "nb_hashed_syms"}
      BY DEF TableType
    <3> HIDE DEF u, b, n
    <3>3. /\ u.syms = new /\ u.nbuckets = nb
          /\ u.chain = Append(t.chain, t.bucket[b])
          /\ u.nb_hashed_syms = t.nb_hashed_syms + 1
      BY <3>1, <3>2
    <3>4. u.bucket = [t.bucket EXCEPT ![b] = n + 1]
      BY <3>1, <3>2
    <3>5. u = [syms |-> u.syms, nbuckets |-> u.nbuckets, bucket |-> u.bucket,
               chain |-> u.chain, nb_hashed_syms |-> u.nb_hashed_syms]
      BY <3>1 DEF TableType
    <3> QED BY <1>1, <2>2, <3>3, <3>4, <3>5
  <2> QED BY <2>1, <2>2
<1> HIDE DEF u, b, new
<1>5. /\ Len(u.chain) = n + 1
      /\ u.chain \in [1 .. n + 1 -> Nat]
      /\ \A i \in 1 .. n : u.chain[i] = t.chain[i]
      /\ u.chain[n + 1] = IF s.bind = "local" THEN 0 ELSE t.bucket[b]
  <2> DEFINE x == IF s.bind = "local" THEN 0 ELSE t.bucket[b]
  <2>1. x \in Nat
    BY <1>1, <1>2
  <2> HIDE DEF x, n
  <2>2. Append(t.chain, x) \in Seq(Nat) /\ Len(Append(t.chain, x)) = n + 1
    BY <1>1, <2>1
  <2>3. /\ \A i \in 1 .. n : Append(t.chain, x)[i] = t.chain[i]
        /\ Append(t.chain, x)[n + 1] = x
    BY <1>1, <2>1
  <2>4. Append(t.chain, x) \in [1 .. n + 1 -> Nat]
    BY <2>2, LenProperties
  <2>5. u.chain = Append(t.chain, x)
    BY <1>4 DEF x
  <2> QED BY <2>2, <2>3, <2>4, <2>5 DEF x
<1>6. u.bucket \in [0 .. nb - 1 -> Nat]
  BY <1>1, <1>2, <1>4
<1>7. TableType(u)
  BY <1>1, <1>3, <1>4, <1>5, <1>6 DEF TableType
<1>8. \A k \in 0 .. n, h \in 0 .. nb - 1 : Newest(new, k, h, nb) = Newest(t.syms, k, h, nb)
  <2> TAKE k \in 0 .. n, h \in 0 .. nb - 1
  <2>1. k \in Nat /\ \A i \in 1 .. k : new[i] = t.syms[i]
    BY <1>1, <1>3
  <2>2. \A i \in 1 .. k : Hashed(new, i, h, nb) <=> Hashed(t.syms, i, h, nb)
    BY <2>1 DEF Hashed
  <2> HIDE DEF nb, n
  <2> QED BY <2>1, <2>2, NewestSame
<1>9. ASSUME NEW h \in 0 .. nb - 1  PROVE u.bucket[h] = Newest(new, n + 1, h, nb)
  <2>1. Newest(new, n + 1, h, nb) =
          IF Hashed(new, n + 1, h, nb) THEN n + 1 ELSE Newest(new, n, h, nb)
    BY <1>1, NewestNext
  <2>2. Newest(new, n, h, nb) = t.bucket[h]
    <3>1. Newest(new, n, h, nb) = Newest(t.syms, n, h, nb)
      BY <1>1, <1>8
    <3>2. t.bucket[h] = Newest(t.syms, n, h, nb)
      BY DEF LinksExact
    <3> QED BY <3>1, <3>2
  <2>3. Hashed(new, n + 1, h, nb) <=> s.bind # "local" /\ b = h
    BY <1>3 DEF Hashed, b
  <2> QED BY <1>1, <1>2, <1>4, <2>1, <2>2, <2>3
<1>10. ASSUME NEW i \in 1 .. n + 1, new[i].bind # "local"
       PROVE  u.chain[i] = Newest(new, i - 1, BucketOf(new[i].name, nb), nb)
  <2>1. CASE i = n + 1
    <3>1. u.chain[i] = t.bucket[b]
      BY <1>3, <1>5, <1>10, <2>1
    <3>2. t.bucket[b] = Newest(t.syms, n, b, nb)
      BY <1>2 DEF LinksExact
    <3>3. Newest(new, n, b, nb) = Newest(t.syms, n, b, nb)
      BY <1>1, <1>2, <1>8
    <3> QED BY <1>1, <1>3, <2>1, <3>1, <3>2, <3>3 DEF b
  <2>2. CASE i # n + 1
    <3> DEFINE c == BucketOf(t.syms[i].name, nb)
    <3>1. i \in 1 .. n /\ new[i] = t.syms[i]
      BY <1>1, <1>3, <2>2
    <3>2. c \in 0 .. nb - 1
      <4>1. t.syms[i].name \in SymName
        <5>1. t.syms[i] \in Elf32_Sym
          BY <1>1, <3>1, ElementOfSeq
        <5> QED BY <5>1 DEF Elf32_Sym
      <4> QED BY <1>1, <4>1, BucketInRange
    <3>3. t.chain[i] = Newest(t.syms, i - 1, c, nb)
      BY <1>10, <3>1 DEF LinksExact
    <3>4. Newest(new, i - 1, c, nb) = Newest(t.syms, i - 1, c, nb)
      <4>1. i - 1 \in 0 .. n
        BY <1>1, <3>1
      <4> HIDE DEF c, n, nb
      <4> QED BY <1>8, <3>2, <4>1
    <3> QED BY <1>5, <3>1, <3>3, <3>4
  <2> QED BY <2>1, <2>2
<1>11. LinksExact(u)
  BY <1>3, <1>4, <1>9, <1>10 DEF LinksExact
<1> QED BY <1>4, <1>7, <1>11 DEF u, new

\* However many buckets the table gets, its links are exact.
LEMMA RebuildGood ==
  ASSUME NEW t, TableType(t), NEW nb \in Nat \ {0}
  PROVE  /\ TableType(rebuild_hash(t, nb))
         /\ LinksExact(rebuild_hash(t, nb))
         /\ rebuild_hash(t, nb).syms = t.syms
<1> DEFINE u == rebuild_hash(t, nb)
           n == Len(t.syms)
           link(i) == IF t.syms[i].bind = "local" THEN 0
                      ELSE Newest(t.syms, i - 1, BucketOf(t.syms[i].name, nb), nb)
<1>1. /\ t.syms \in Seq(Elf32_Sym) /\ n \in Nat /\ t.nb_hashed_syms \in Nat
  BY TableFacts
<1>2. DOMAIN t = {"syms", "nbuckets", "bucket", "chain", "nb_hashed_syms"}
  BY DEF TableType
<1>3. u = [t EXCEPT !.nbuckets = nb,
                    !.bucket = [h \in 0 .. nb - 1 |-> Newest(t.syms, n, h, nb)],
                    !.chain = [i \in 1 .. n |-> link(i)]]
  BY DEF rebuild_hash
<1> HIDE DEF u, link
<1>4. /\ u.syms = t.syms
      /\ u.nbuckets = nb
      /\ u.bucket = [h \in 0 .. nb - 1 |-> Newest(t.syms, n, h, nb)]
      /\ u.chain = [i \in 1 .. n |-> link(i)]
      /\ u.nb_hashed_syms = t.nb_hashed_syms
  BY <1>2, <1>3
<1>5. u = [syms |-> u.syms, nbuckets |-> u.nbuckets, bucket |-> u.bucket,
           chain |-> u.chain, nb_hashed_syms |-> u.nb_hashed_syms]
  BY <1>3 DEF TableType
<1>6. \A h : \A k \in Nat : Newest(t.syms, k, h, nb) \in Nat
  <2> TAKE h
  <2> TAKE k \in Nat
  <2>1. Newest(t.syms, k, h, nb) \in 0 .. k
    BY NewestIsGreatest
  <2> QED BY <2>1
<1>7. \A i \in 1 .. n : link(i) \in Nat
  <2> TAKE i \in 1 .. n
  <2>1. i - 1 \in Nat
    BY <1>1
  <2> QED BY <1>6, <2>1 DEF link
<1>8. u.bucket \in [0 .. nb - 1 -> Nat] /\ u.chain \in [1 .. n -> Nat]
  <2>1. \A h \in 0 .. nb - 1 : Newest(t.syms, n, h, nb) \in Nat
    BY <1>1, <1>6
  <2> QED BY <1>4, <1>7, <2>1
<1>9. TableType(u)
  BY <1>1, <1>4, <1>5, <1>8 DEF TableType
<1>10. LinksExact(u)
  BY <1>4 DEF LinksExact, link
<1> QED BY <1>4, <1>9, <1>10 DEF u

LEMMA PutGood ==
  ASSUME NEW t, TableType(t), LinksExact(t), NEW s \in Elf32_Sym
  PROVE  /\ TableType(put_elf_sym(t, s))
         /\ LinksExact(put_elf_sym(t, s))
         /\ put_elf_sym(t, s).syms = Append(t.syms, s)
<1> DEFINE u == Linked(t, s)
<1>1. TableType(u) /\ LinksExact(u) /\ u.syms = Append(t.syms, s)
  BY LinkedGood
<1>2. 2 * u.nbuckets \in Nat \ {0}
  <2>1. u.nbuckets \in Nat \ {0}
    BY <1>1, TableFacts
  <2> QED BY <2>1
<1> DEFINE v == rebuild_hash(u, 2 * u.nbuckets)
<1> HIDE DEF u
<1>3. TableType(v) /\ LinksExact(v) /\ v.syms = u.syms
  BY <1>1, <1>2, RebuildGood
<1>4. put_elf_sym(t, s) = u \/ put_elf_sym(t, s) = v
  BY DEF put_elf_sym, u
<1> QED BY <1>1, <1>3, <1>4

(***************************************************************************)
(* Changing entries                                                        *)
(***************************************************************************)
\* Entries may change in what neither the links nor the relocations look at.
LEMMA ChangeGood ==
  ASSUME NEW t, Good(t), NEW new \in Seq(Elf32_Sym), Len(new) = Len(t.syms),
         \A i \in 1 .. Len(t.syms) :
           /\ new[i].name = t.syms[i].name
           /\ new[i].bind = "local" <=> t.syms[i].bind = "local"
           /\ t.syms[i].bind = "local" => new[i].from = t.syms[i].from
  PROVE  LET u == [t EXCEPT !.syms = new]
         IN  Good(u) /\ Extends(t, u) /\ u.syms = new
<1> DEFINE u == [t EXCEPT !.syms = new]
           n == Len(t.syms)
           nb == t.nbuckets
<1>1. n \in Nat /\ nb \in Nat \ {0}
  BY TableFacts DEF Good
<1>2. /\ u.syms = new /\ u.nbuckets = nb /\ u.bucket = t.bucket
      /\ u.chain = t.chain
  BY DEF Good, TableType
<1>3. TableType(u)
  BY DEF Good, TableType
<1> HIDE DEF u
<1>4. \A h : \A k \in 0 .. n : Newest(new, k, h, nb) = Newest(t.syms, k, h, nb)
  <2> TAKE h
  <2> TAKE k \in 0 .. n
  <2>1. k \in Nat /\ \A i \in 1 .. k : Hashed(new, i, h, nb) <=> Hashed(t.syms, i, h, nb)
    BY <1>1 DEF Hashed
  <2> HIDE DEF nb, n
  <2> QED BY <2>1, NewestSame
<1>5. \A h \in 0 .. nb - 1 : u.bucket[h] = Newest(new, n, h, nb)
  <2>1. n \in 0 .. n
    BY <1>1
  <2> QED BY <1>2, <1>4, <2>1 DEF Good, LinksExact
<1>6. ASSUME NEW i \in 1 .. n, new[i].bind # "local"
      PROVE  u.chain[i] = Newest(new, i - 1, BucketOf(new[i].name, nb), nb)
  <2>1. i - 1 \in 0 .. n
    BY <1>1
  <2>2. t.chain[i] = Newest(t.syms, i - 1, BucketOf(t.syms[i].name, nb), nb)
    BY <1>6 DEF Good, LinksExact
  <2> QED BY <1>2, <1>4, <2>1, <2>2
<1>7. LinksExact(u)
  BY <1>2, <1>5, <1>6 DEF LinksExact
<1>8. NamesOnce(u)
  BY <1>2 DEF Good, NamesOnce
<1>9. Extends(t, u)
  BY <1>1, <1>2 DEF Extends
<1> QED BY <1>2, <1>3, <1>7, <1>8, <1>9 DEF Good, u

LEMMA ReplaceGood ==
  ASSUME NEW t, Good(t), NEW i \in 1 .. Len(t.syms), NEW e \in Elf32_Sym,
         e.name = t.syms[i].name,
         e.bind = "local" <=> t.syms[i].bind = "local",
         t.syms[i].bind = "local" => e.from = t.syms[i].from
  PROVE  LET u == [t EXCEPT !.syms[i] = e]
         IN  /\ Good(u) /\ Extends(t, u)
             /\ Len(u.syms) = Len(t.syms)
             /\ u.syms[i] = e
<1> DEFINE new == [t.syms EXCEPT ![i] = e]
<1>1. t.syms \in Seq(Elf32_Sym)
  BY TableFacts DEF Good
<1>2. /\ new \in Seq(Elf32_Sym)
      /\ Len(new) = Len(t.syms)
      /\ \A j \in 1 .. Len(t.syms) : new[j] = IF j = i THEN e ELSE t.syms[j]
  BY <1>1, ExceptSeq
<1>3. [t EXCEPT !.syms[i] = e] = [t EXCEPT !.syms = new]
  BY DEF Good, TableType
<1> HIDE DEF new
<1>4. \A j \in 1 .. Len(t.syms) :
        /\ new[j].name = t.syms[j].name
        /\ new[j].bind = "local" <=> t.syms[j].bind = "local"
        /\ t.syms[j].bind = "local" => new[j].from = t.syms[j].from
  BY <1>2
<1> DEFINE u == [t EXCEPT !.syms = new]
<1>5. Good(u) /\ Extends(t, u) /\ u.syms = new
  BY <1>2, <1>4, ChangeGood
<1> HIDE DEF u
<1> QED BY <1>2, <1>3, <1>5 DEF u

LEMMA MergedType ==
  ASSUME NEW e \in Elf32_Sym, NEW s \in Elf32_Sym,
         e.name = s.name, e.bind # "local", s.bind # "local"
  PROVE  /\ Merged(e, s) \in Elf32_Sym
         /\ Merged(e, s).name = s.name
         /\ Merged(e, s).bind # "local"
<1> DEFINE v == Constrained(e.vis, s.vis)
<1>1. v \in Visibility
  <2>1. e.vis \in Visibility /\ s.vis \in Visibility
    BY DEF Elf32_Sym
  <2>2. v = e.vis \/ v = s.vis
    BY DEF Constrained
  <2> QED BY <2>1, <2>2
<1>2. Merged(e, s) \in {s, [s EXCEPT !.vis = v], [e EXCEPT !.vis = v]}
  BY DEF Merged
<1> HIDE DEF v
<1>3. [s EXCEPT !.vis = v] \in Elf32_Sym /\ [e EXCEPT !.vis = v] \in Elf32_Sym
  BY <1>1 DEF Elf32_Sym
<1>4. /\ [s EXCEPT !.vis = v].name = s.name /\ [s EXCEPT !.vis = v].bind = s.bind
      /\ [e EXCEPT !.vis = v].name = e.name /\ [e EXCEPT !.vis = v].bind = e.bind
  BY DEF Elf32_Sym
<1> QED BY <1>2, <1>3, <1>4

\* What add_elf_sym returns is the number of an entry for s, whether it is a
\* new one or one that was there.
LEMMA AddGood ==
  ASSUME NEW t, Good(t), NEW s \in Elf32_Sym
  PROVE  LET u == add_elf_sym(t, s)
             k == NumberOf(t, s)
         IN  /\ Good(u) /\ Extends(t, u)
             /\ k \in 1 .. Len(u.syms)
             /\ u.syms[k].name = s.name
             /\ u.syms[k].bind = "local" <=> s.bind = "local"
             /\ s.bind = "local" => u.syms[k].from = s.from
<1> DEFINE n == Len(t.syms)
           u == add_elf_sym(t, s)
           k == NumberOf(t, s)
           i == Existing(t, s)
<1>1. t.syms \in Seq(Elf32_Sym) /\ n \in Nat
  BY TableFacts DEF Good
<1>2. s.name \in SymName
  BY DEF Elf32_Sym
<1>3. /\ i \in 0 .. n
      /\ i # 0 => t.syms[i].name = s.name /\ t.syms[i].bind # "local" /\ s.bind # "local"
      /\ s.bind # "local" =>
           \A j \in 1 .. n : t.syms[j].bind # "local" /\ t.syms[j].name = s.name => j = i
  <2>1. CASE s.bind = "local"
    BY <1>1, <2>1 DEF Existing
  <2>2. CASE s.bind # "local"
    <3>1. i = find_elf_sym(t, s.name)
      BY <2>2 DEF Existing
    <3> HIDE DEF i, n
    <3>2. LET f == find_elf_sym(t, s.name) IN
          /\ f \in 0 .. Len(t.syms)
          /\ f # 0 => t.syms[f].name = s.name /\ t.syms[f].bind # "local"
          /\ \A j \in 1 .. Len(t.syms) :
               t.syms[j].bind # "local" /\ t.syms[j].name = s.name => j = f
      BY <1>2, FindFinds
    <3> QED BY <2>2, <3>1, <3>2 DEF n
  <2> QED BY <2>1, <2>2
<1>4. CASE i = 0
  <2>1. u = put_elf_sym(t, s) /\ k = n + 1
    BY <1>4 DEF add_elf_sym, NumberOf
  <2> HIDE DEF u, k, i
  <2>2. TableType(u) /\ LinksExact(u) /\ u.syms = Append(t.syms, s)
    BY <2>1, PutGood DEF Good
  <2>3. /\ Len(u.syms) = n + 1
        /\ \A j \in 1 .. n : u.syms[j] = t.syms[j]
        /\ u.syms[n + 1] = s
    BY <1>1, <2>2
  <2>4. NamesOnce(u)
    <3> SUFFICES ASSUME NEW a \in 1 .. n + 1, NEW b \in 1 .. n + 1,
                        u.syms[a].bind # "local", u.syms[b].bind # "local",
                        u.syms[a].name = u.syms[b].name
                 PROVE  a = b
      BY <2>3 DEF NamesOnce
    <3>1. CASE a \in 1 .. n /\ b \in 1 .. n
      BY <2>3, <3>1 DEF Good, NamesOnce
    <3>2. CASE a = n + 1 /\ b \in 1 .. n
      BY <1>3, <1>4, <2>3, <3>2
    <3>3. CASE b = n + 1 /\ a \in 1 .. n
      BY <1>3, <1>4, <2>3, <3>3
    <3> QED BY <1>1, <3>1, <3>2, <3>3
  <2>5. Extends(t, u)
    BY <1>1, <2>3 DEF Extends
  <2>6. k \in 1 .. Len(u.syms) /\ u.syms[k] = s
    BY <1>1, <2>1, <2>3
  <2>7. Good(u)
    BY <2>2, <2>4 DEF Good
  <2> QED BY <2>5, <2>6, <2>7 DEF u, k
<1>5. CASE i # 0
  <2> DEFINE e == Merged(t.syms[i], s)
  <2>1. u = [t EXCEPT !.syms[i] = e] /\ k = i
    BY <1>5 DEF add_elf_sym, NumberOf
  <2> HIDE DEF u, k, i
  <2>2. i \in 1 .. n /\ t.syms[i] \in Elf32_Sym
    BY <1>1, <1>3, <1>5, ElementOfSeq
  <2>3. e \in Elf32_Sym /\ e.name = s.name /\ e.bind # "local"
    BY <1>3, <1>5, <2>2, MergedType
  <2> HIDE DEF e
  <2>4. /\ Good(u) /\ Extends(t, u)
        /\ Len(u.syms) = n
        /\ u.syms[i] = e
    <3> DEFINE v == [t EXCEPT !.syms[i] = e]
    <3>1. /\ Good(v) /\ Extends(t, v)
          /\ Len(v.syms) = Len(t.syms)
          /\ v.syms[i] = e
      BY <1>3, <1>5, <2>2, <2>3, ReplaceGood
    <3> QED BY <2>1, <3>1
  <2> QED BY <1>3, <1>5, <2>1, <2>2, <2>3, <2>4 DEF u, k
<1> QED BY <1>4, <1>5

(***************************************************************************)
(* The invariant                                                           *)
(***************************************************************************)
TableOK == phase # "sorted" => LinksExact(tab) /\ NamesOnce(tab)

\* What a unit and an object leave behind when they end: nothing.
IdleOK ==
  /\ phase # "unit" => unit = NoSyms
  /\ phase # "object" => loading = NothingLoading
  /\ phase \in {"unit", "object"} => inputs >= 1

\* Entry c of t stands for name n, static or not, of the input `from'.
StandsFor(t, c, n, static, from) ==
  /\ c \in 1 .. Len(t.syms)
  /\ t.syms[c].name = n
  /\ t.syms[c].bind = "local" <=> static
  /\ static => t.syms[c].from = from

\* The numbers that Syms and old_to_new_syms hold are right.
UnitOK ==
  \A n \in Name : unit[n].c # 0 =>
    unit[n].declared # "no" /\ StandsFor(tab, unit[n].c, n, unit[n].static, inputs)

LoadingOK ==
  LET o == loading.object IN
  /\ o.rels \subseteq DOMAIN o.syms
  /\ Len(loading.map) <= Len(o.syms)
  /\ \A k \in 1 .. Len(loading.map) :
       StandsFor(tab, loading.map[k], o.syms[k].name, o.syms[k].bind = "local", inputs)

\* RelocationsReach, of one relocation in any table.
Reaches(t, r) == StandsFor(t, r.sym, r.name, r.from # 0, r.from)

IInv ==
  /\ TypeOK
  /\ TableOK
  /\ IdleOK
  /\ UnitOK
  /\ LoadingOK
  /\ RelocationsReach

LEMMA GoodNow ==
  ASSUME IInv, phase # "sorted"
  PROVE  Good(tab) /\ Extends(tab, tab)
<1>1. TableType(tab)
  BY DEF IInv, TypeOK, Table, TableType
<1>2. Len(tab.syms) \in Nat
  BY <1>1, TableFacts
<1> QED BY <1>1, <1>2 DEF IInv, TableOK, Good, Extends

LEMMA ReachesAll ==
  ASSUME DOMAIN tab.syms = 1 .. Len(tab.syms)
  PROVE  RelocationsReach <=> \A r \in rels : Reaches(tab, r)
BY DEF RelocationsReach, Reaches, StandsFor

\* What a step that extends a good table keeps.
LEMMA StepKeeps ==
  ASSUME IInv, phase # "sorted", NEW u, Good(u), Extends(tab, u)
  PROVE  /\ \A c, n, static, from :
              StandsFor(tab, c, n, static, from) => StandsFor(u, c, n, static, from)
         /\ \A r \in rels : Reaches(u, r)
<1>1. /\ Len(tab.syms) \in Nat /\ DOMAIN tab.syms = 1 .. Len(tab.syms)
      /\ Len(u.syms) \in Nat /\ DOMAIN u.syms = 1 .. Len(u.syms)
  BY GoodNow, TableFacts DEF Good
<1>2. ASSUME NEW c, NEW n, NEW static, NEW from, StandsFor(tab, c, n, static, from)
      PROVE  StandsFor(u, c, n, static, from)
  <2>1. c \in 1 .. Len(tab.syms)
    BY <1>2 DEF StandsFor
  <2>2. /\ u.syms[c].name = tab.syms[c].name
        /\ u.syms[c].bind = "local" <=> tab.syms[c].bind = "local"
        /\ tab.syms[c].bind = "local" => u.syms[c].from = tab.syms[c].from
    BY <2>1 DEF Extends
  <2>3. c \in 1 .. Len(u.syms)
    BY <1>1, <2>1 DEF Extends
  <2> QED BY <1>2, <2>2, <2>3 DEF StandsFor
<1>3. \A r \in rels : Reaches(tab, r)
  BY <1>1, ReachesAll DEF IInv
<1>4. \A r \in rels : Reaches(u, r)
  BY <1>2, <1>3 DEF Reaches
<1> QED BY <1>2, <1>4

\* The parts of the invariant that a step which extends the table keeps when
\* it adds only relocations that are right.
LEMMA StepTable ==
  ASSUME IInv, phase # "sorted", Good(tab'), Extends(tab, tab'),
         rels' \subseteq Elf32_Rel,
         \A r \in rels' : r \in rels \/ Reaches(tab', r)
  PROVE  (tab \in Table)' /\ TableOK' /\ RelocationsReach'
<1>1. TableType(tab')
  BY DEF Good
<1>2. (tab \in Table)'
  BY <1>1 DEF TableType, Table
<1>3. TableOK'
  BY DEF Good, TableOK
<1>4. \A r \in rels' : Reaches(tab', r)
  BY StepKeeps
<1>5. DOMAIN tab'.syms = 1 .. Len(tab'.syms)
  BY <1>1, TableFacts
<1>6. RelocationsReach'
  BY <1>4, <1>5 DEF RelocationsReach, Reaches, StandsFor
<1> QED BY <1>2, <1>3, <1>6

(***************************************************************************)
(* Steps of a unit                                                         *)
(***************************************************************************)
LEMMA UnitFacts ==
  ASSUME IInv, phase = "unit", NEW n \in Name
  PROVE  /\ Good(tab) /\ Extends(tab, tab)
         /\ inputs \in Nat \ {0} /\ inputs \in 1 .. MaxInputs
         /\ unit[n] \in Sym
         /\ n \in SymName
<1>1. phase # "sorted"
  OBVIOUS
<1>2. Good(tab) /\ Extends(tab, tab)
  BY <1>1, GoodNow
<1>3. inputs \in Nat \ {0} /\ inputs \in 1 .. MaxInputs
  <2>1. inputs \in 0 .. MaxInputs
    BY DEF IInv, TypeOK
  <2>2. inputs >= 1
    BY DEF IInv, IdleOK
  <2>3. MaxInputs \in Nat
    BY SymtabAssumption
  <2> QED BY <2>1, <2>2, <2>3
<1>4. unit[n] \in Sym
  BY DEF IInv, TypeOK
<1> QED BY <1>2, <1>3, <1>4 DEF SymName

\* What put_extern_sym2 does to the table, and what it leaves in Sym.c.
LEMMA PutExternGood ==
  ASSUME IInv, phase = "unit", NEW n \in Name, NEW static \in BOOLEAN,
         DeclaredAs(n, static), NEW shndx \in Place, NEW value \in Nat
  PROVE  LET u == put_extern_sym2(n, static, shndx, value)
         IN  /\ Good(u) /\ Extends(tab, u)
             /\ StandsFor(u, Number(n, static), n, static, inputs)
<1> DEFINE s == Symbol(n, static, shndx, value)
           u == put_extern_sym2(n, static, shndx, value)
           c == unit[n].c
<1>1. /\ Good(tab) /\ inputs \in Nat \ {0} /\ unit[n] \in Sym /\ n \in SymName
  BY UnitFacts
<1>2. CASE c = 0
  <2>1. s \in Elf32_Sym
    BY <1>1 DEF Symbol, Elf32_Sym, Bind, Default, Visibility, Protected
  <2>2. s.name = n /\ (s.bind = "local" <=> static) /\ s.from = inputs
    BY DEF Symbol
  <2>3. u = add_elf_sym(tab, s)
    BY <1>2 DEF put_extern_sym2
  <2>4. Number(n, static) = NumberOf(tab, s)
    BY <1>2 DEF Number, NumberOf, Existing, Symbol
  <2> HIDE DEF s, u, c
  <2> DEFINE v == add_elf_sym(tab, s)
             k == NumberOf(tab, s)
  <2>5. /\ Good(v) /\ Extends(tab, v)
        /\ k \in 1 .. Len(v.syms)
        /\ v.syms[k].name = s.name
        /\ v.syms[k].bind = "local" <=> s.bind = "local"
        /\ s.bind = "local" => v.syms[k].from = s.from
    BY <1>1, <2>1, AddGood
  <2> HIDE DEF v, k
  <2>6. StandsFor(v, k, n, static, inputs)
    BY <2>2, <2>5 DEF StandsFor
  <2> QED BY <2>3, <2>4, <2>5, <2>6 DEF u, v, k
<1>3. CASE c # 0
  <2> DEFINE e == [tab.syms[c] EXCEPT !.shndx = shndx, !.value = value]
  <2>1. StandsFor(tab, c, n, static, inputs)
    BY <1>3 DEF IInv, UnitOK, DeclaredAs
  <2>2. c \in 1 .. Len(tab.syms) /\ tab.syms[c] \in Elf32_Sym
    BY <1>1, <2>1, TableFacts DEF Good, StandsFor
  <2>3. u = [tab EXCEPT !.syms[c] = e] /\ Number(n, static) = c
    BY <1>3 DEF put_extern_sym2, Number
  <2> HIDE DEF u, c
  <2>4. /\ e \in Elf32_Sym
        /\ e.name = tab.syms[c].name
        /\ e.bind = tab.syms[c].bind
        /\ e.from = tab.syms[c].from
    BY <2>2 DEF Elf32_Sym
  <2> HIDE DEF e
  <2> DEFINE v == [tab EXCEPT !.syms[c] = e]
  <2>5. /\ Good(v) /\ Extends(tab, v)
        /\ Len(v.syms) = Len(tab.syms)
        /\ v.syms[c] = e
    BY <1>1, <2>2, <2>4, ReplaceGood
  <2> HIDE DEF v
  <2>6. StandsFor(v, c, n, static, inputs)
    BY <2>1, <2>4, <2>5 DEF StandsFor
  <2> QED BY <2>3, <2>5, <2>6 DEF u, v
<1> QED BY <1>2, <1>3

\* When the Sym of n then remembers its entry, the unit's Syms are right.
LEMMA UnitStep ==
  ASSUME IInv, phase = "unit", NEW n \in Name, NEW static \in BOOLEAN,
         NEW d \in {"extern", "yes"}, NEW c,
         Good(tab'), Extends(tab, tab'), StandsFor(tab', c, n, static, inputs),
         unit' = [unit EXCEPT ![n] = [declared |-> d, static |-> static, c |-> c]],
         inputs' = inputs, phase' = phase, loading' = loading
  PROVE  /\ unit' \in [Name -> Sym]
         /\ UnitOK' /\ LoadingOK' /\ IdleOK'
<1>1. c \in Nat
  <2>1. Len(tab'.syms) \in Nat
    BY TableFacts DEF Good
  <2> QED BY <2>1 DEF StandsFor
<1>2. unit' \in [Name -> Sym]
  BY <1>1 DEF IInv, TypeOK, Sym
<1>3. ASSUME NEW m \in Name, unit'[m].c # 0
      PROVE  /\ unit'[m].declared # "no"
             /\ StandsFor(tab', unit'[m].c, m, unit'[m].static, inputs')
  <2>1. CASE m = n
    BY <2>1 DEF IInv, TypeOK
  <2>2. CASE m # n
    <3>1. unit'[m] = unit[m]
      BY <2>2 DEF IInv, TypeOK
    <3>2. unit[m].declared # "no" /\ StandsFor(tab, unit[m].c, m, unit[m].static, inputs)
      BY <1>3, <3>1 DEF IInv, UnitOK
    <3>3. StandsFor(tab', unit[m].c, m, unit[m].static, inputs)
      BY <3>2, StepKeeps
    <3> QED BY <3>1, <3>2, <3>3
  <2> QED BY <2>1, <2>2
<1>4. UnitOK'
  BY <1>3 DEF UnitOK, StandsFor
<1>5. LoadingOK' /\ IdleOK'
  <2>1. loading = NothingLoading
    BY DEF IInv, IdleOK
  <2> QED BY <2>1 DEF IInv, IdleOK, LoadingOK, NothingLoading, NoObject
<1> QED BY <1>2, <1>4, <1>5

LEMMA ReportType ==
  ASSUME TypeOK, NEW s, s.name \in Name, Report(s)
  PROVE  reported' \subseteq Name
BY DEF TypeOK, Report

LEMMA GiveType ==
  ASSUME TypeOK, NEW s, s.name \in Name, inputs' \in 1 .. MaxInputs, Give(s)
  PROVE  given' \in [Name -> SUBSET (1 .. MaxInputs)]
BY DEF TypeOK, Give

LEMMA StartUnitStep ==
  ASSUME IInv, StartUnit
  PROVE  IInv'
<1> DEFINE s == [name |-> FileName, bind |-> "local", vis |-> Default,
                 shndx |-> "abs", value |-> 0, from |-> inputs']
<1>1. /\ phase = "between" /\ phase # "sorted" /\ phase' = "unit"
      /\ inputs' = inputs + 1 /\ inputs < MaxInputs
      /\ tab' = put_elf_sym(tab, s)
      /\ rels' = rels /\ unit' = unit /\ loading' = loading
      /\ reported' = reported /\ given' = given
  BY DEF StartUnit
<1>2. inputs \in 0 .. MaxInputs /\ MaxInputs \in Nat
  BY SymtabAssumption DEF IInv, TypeOK
<1>3. s \in Elf32_Sym
  BY <1>1, <1>2 DEF Elf32_Sym, SymName, Bind, Place, Default, Visibility, Protected
<1>4. tab' = add_elf_sym(tab, s)
  BY <1>1 DEF add_elf_sym, Existing
<1> HIDE DEF s
<1>5. Good(tab') /\ Extends(tab, tab')
  BY <1>1, <1>3, <1>4, GoodNow, AddGood
<1>6. (tab \in Table)' /\ TableOK' /\ RelocationsReach'
  <2>1. rels' \subseteq Elf32_Rel
    BY <1>1 DEF IInv, TypeOK
  <2> QED BY <1>1, <1>5, <2>1, StepTable
<1>7. unit = NoSyms /\ loading = NothingLoading
  BY <1>1 DEF IInv, IdleOK
<1>8. UnitOK' /\ LoadingOK' /\ IdleOK'
  <2>1. UnitOK'
    BY <1>1, <1>7 DEF UnitOK, NoSyms
  <2>2. LoadingOK'
    BY <1>1, <1>7 DEF LoadingOK, NothingLoading, NoObject
  <2>3. IdleOK'
    BY <1>1, <1>2, <1>7 DEF IdleOK
  <2> QED BY <2>1, <2>2, <2>3
<1>9. TypeOK'
  <2>1. inputs' \in 0 .. MaxInputs
    BY <1>1, <1>2
  <2> QED BY <1>1, <1>6, <2>1 DEF IInv, TypeOK
<1> QED BY <1>6, <1>8, <1>9 DEF IInv

LEMMA EndUnitStep ==
  ASSUME IInv, EndUnit
  PROVE  IInv'
<1>1. /\ phase = "unit" /\ phase # "sorted" /\ phase' = "between" /\ unit' = NoSyms
      /\ tab' = tab /\ rels' = rels /\ loading' = loading /\ inputs' = inputs
      /\ reported' = reported /\ given' = given
  BY DEF EndUnit
<1>2. (tab \in Table)' /\ TableOK' /\ RelocationsReach'
  <2>1. Good(tab') /\ Extends(tab, tab') /\ rels' \subseteq Elf32_Rel
    BY <1>1, GoodNow DEF IInv, TypeOK
  <2> QED BY <1>1, <2>1, StepTable
<1>3. UnitOK' /\ IdleOK'
  BY <1>1 DEF IInv, UnitOK, IdleOK, NoSyms
<1>4. LoadingOK'
  <2>1. loading = NothingLoading
    BY <1>1 DEF IInv, IdleOK
  <2> QED BY <1>1, <2>1 DEF LoadingOK, NothingLoading, NoObject
<1>5. NoSyms \in [Name -> Sym]
  BY DEF NoSyms, Sym
<1>6. TypeOK'
  BY <1>1, <1>2, <1>5 DEF IInv, TypeOK
<1> QED BY <1>2, <1>3, <1>4, <1>6 DEF IInv

LEMMA UseStep ==
  ASSUME IInv, NEW n \in Name, NEW static \in BOOLEAN, Use(n, static)
  PROVE  IInv'
<1> DEFINE k == Number(n, static)
           d == IF unit[n].declared = "no" THEN "extern" ELSE unit[n].declared
           r == [sym |-> k, name |-> n, from |-> IF static THEN inputs ELSE 0]
<1>1. /\ phase = "unit" /\ phase # "sorted" /\ DeclaredAs(n, static)
      /\ tab' = IF unit[n].c = 0 THEN put_extern_sym2(n, static, "undef", 0) ELSE tab
      /\ rels' = rels \cup {r}
      /\ loading' = loading /\ phase' = phase /\ inputs' = inputs
      /\ reported' = reported /\ given' = given
  BY DEF Use
<1>2. unit' = [unit EXCEPT ![n] = [declared |-> d, static |-> static, c |-> k]]
  BY DEF Use
<1>3. /\ Good(tab) /\ Extends(tab, tab) /\ inputs \in Nat \ {0} /\ unit[n] \in Sym
  BY <1>1, UnitFacts
<1> HIDE DEF k
<1>4. Good(tab') /\ Extends(tab, tab') /\ StandsFor(tab', k, n, static, inputs)
  <2>1. CASE unit[n].c = 0
    <3> DEFINE u == put_extern_sym2(n, static, "undef", 0)
    <3>1. "undef" \in Place /\ 0 \in Nat
      BY DEF Place
    <3>2. Good(u) /\ Extends(tab, u) /\ StandsFor(u, Number(n, static), n, static, inputs)
      BY <1>1, <3>1, PutExternGood
    <3> QED BY <1>1, <2>1, <3>2 DEF k
  <2>2. CASE unit[n].c # 0
    <3>1. k = unit[n].c
      BY <2>2 DEF k, Number
    <3>2. StandsFor(tab, unit[n].c, n, static, inputs)
      BY <1>1, <2>2 DEF IInv, UnitOK, DeclaredAs
    <3> QED BY <1>1, <1>3, <2>2, <3>1, <3>2
  <2> QED BY <2>1, <2>2
<1>5. k \in Nat
  <2>1. Len(tab'.syms) \in Nat
    BY <1>4, TableFacts DEF Good
  <2> QED BY <1>4, <2>1 DEF StandsFor
<1>6. d \in {"extern", "yes"}
  BY <1>3 DEF Sym
<1>7. unit' \in [Name -> Sym] /\ UnitOK' /\ LoadingOK' /\ IdleOK'
  <2> HIDE DEF d
  <2> QED BY <1>1, <1>2, <1>4, <1>6, UnitStep
<1>8. (tab \in Table)' /\ TableOK' /\ RelocationsReach' /\ rels' \subseteq Elf32_Rel
  <2>1. r \in Elf32_Rel
    BY <1>3, <1>5 DEF Elf32_Rel
  <2>2. Reaches(tab', r)
    BY <1>3, <1>4 DEF Reaches, StandsFor
  <2>3. rels' \subseteq Elf32_Rel
    BY <1>1, <2>1 DEF IInv, TypeOK
  <2> HIDE DEF r
  <2> QED BY <1>1, <1>4, <2>2, <2>3, StepTable
<1>9. TypeOK'
  BY <1>1, <1>7, <1>8 DEF IInv, TypeOK
<1> QED BY <1>7, <1>8, <1>9 DEF IInv

\* DefineFunction and DefineVariable, apart from the place.
LEMMA DefineStep ==
  ASSUME IInv, phase = "unit", NEW n \in Name, NEW static \in BOOLEAN,
         DeclaredAs(n, static), NEW place \in {"text", "data"},
         tab' = put_extern_sym2(n, static, place, inputs),
         unit' = [unit EXCEPT ![n] = [declared |-> "yes", static |-> static,
                                      c |-> Number(n, static)]],
         ReportAdded(n, static, place),
         inputs' = inputs, Give(Symbol(n, static, place, inputs)),
         rels' = rels, loading' = loading, phase' = phase
  PROVE  IInv'
<1> DEFINE k == Number(n, static)
<1>1. inputs \in Nat /\ inputs' \in 1 .. MaxInputs /\ phase # "sorted"
  BY UnitFacts
<1>2. place \in Place
  BY DEF Place
<1>3. Good(tab') /\ Extends(tab, tab') /\ StandsFor(tab', k, n, static, inputs)
  <2> DEFINE u == put_extern_sym2(n, static, place, inputs)
  <2>1. Good(u) /\ Extends(tab, u) /\ StandsFor(u, k, n, static, inputs)
    BY <1>1, <1>2, PutExternGood
  <2> HIDE DEF u, k
  <2>2. tab' = u
    BY DEF u
  <2> QED BY <2>1, <2>2
<1>4. unit' = [unit EXCEPT ![n] = [declared |-> "yes", static |-> static, c |-> k]]
  OBVIOUS
<1> HIDE DEF k
<1>5. unit' \in [Name -> Sym] /\ UnitOK' /\ LoadingOK' /\ IdleOK'
  <2>1. "yes" \in {"extern", "yes"}
    OBVIOUS
  <2> QED BY <1>3, <1>4, <2>1, UnitStep
<1>6. (tab \in Table)' /\ TableOK' /\ RelocationsReach'
  <2>1. rels' \subseteq Elf32_Rel
    BY DEF IInv, TypeOK
  <2> QED BY <1>1, <1>3, <2>1, StepTable
<1>7. reported' \subseteq Name
  <2> DEFINE s == Symbol(n, static, place, inputs)
  <2>1. s.name \in Name
    BY DEF Symbol
  <2>2. Report(s) \/ reported' = reported
    BY DEF ReportAdded
  <2> HIDE DEF s
  <2> QED BY <2>1, <2>2, ReportType DEF IInv, TypeOK
<1>8. given' \in [Name -> SUBSET (1 .. MaxInputs)]
  <2> DEFINE s == Symbol(n, static, place, inputs)
  <2>1. s.name \in Name
    BY DEF Symbol
  <2>2. Give(s)
    OBVIOUS
  <2> HIDE DEF s
  <2> QED BY <1>1, <2>1, <2>2, GiveType DEF IInv
<1>9. TypeOK'
  BY <1>5, <1>6, <1>7, <1>8 DEF IInv, TypeOK
<1> QED BY <1>5, <1>6, <1>9 DEF IInv

LEMMA DefineFunctionStep ==
  ASSUME IInv, NEW n \in Name, NEW static \in BOOLEAN, DefineFunction(n, static)
  PROVE  IInv'
<1>1. "text" \in {"text", "data"}
  OBVIOUS
<1>2. /\ phase = "unit" /\ DeclaredAs(n, static)
      /\ tab' = put_extern_sym2(n, static, "text", inputs)
      /\ unit' = [unit EXCEPT ![n] = [declared |-> "yes", static |-> static,
                                      c |-> Number(n, static)]]
      /\ ReportAdded(n, static, "text")
      /\ inputs' = inputs /\ Give(Symbol(n, static, "text", inputs))
      /\ rels' = rels /\ loading' = loading /\ phase' = phase
  BY DEF DefineFunction
<1> QED BY <1>1, <1>2, DefineStep

LEMMA DefineVariableStep ==
  ASSUME IInv, NEW n \in Name, NEW static \in BOOLEAN, DefineVariable(n, static)
  PROVE  IInv'
<1>1. "data" \in {"text", "data"}
  OBVIOUS
<1>2. /\ phase = "unit" /\ DeclaredAs(n, static)
      /\ tab' = put_extern_sym2(n, static, "data", inputs)
      /\ unit' = [unit EXCEPT ![n] = [declared |-> "yes", static |-> static,
                                      c |-> Number(n, static)]]
      /\ ReportAdded(n, static, "data")
      /\ inputs' = inputs /\ Give(Symbol(n, static, "data", inputs))
      /\ rels' = rels /\ loading' = loading /\ phase' = phase
  BY DEF DefineVariable
<1> QED BY <1>1, <1>2, DefineStep

LEMMA DefineTentativelyStep ==
  ASSUME IInv, NEW n \in Name, NEW static \in BOOLEAN, DefineTentatively(n, static)
  PROVE  IInv'
<1> DEFINE k == Number(n, static)
           u == put_extern_sym2(n, static, "undef", inputs)
           e == [u.syms[k] EXCEPT !.shndx = "common"]
<1>1. /\ phase = "unit" /\ phase # "sorted" /\ DeclaredAs(n, static)
      /\ tab' = [u EXCEPT !.syms[k].shndx = "common"]
      /\ unit' = [unit EXCEPT ![n] = [declared |-> "yes", static |-> static, c |-> k]]
      /\ rels' = rels /\ loading' = loading /\ phase' = phase /\ inputs' = inputs
      /\ reported' = reported /\ given' = given
  BY DEF DefineTentatively
<1>2. inputs \in Nat /\ "undef" \in Place /\ "common" \in Place
  BY <1>1, UnitFacts DEF Place
<1>3. Good(u) /\ Extends(tab, u) /\ StandsFor(u, k, n, static, inputs)
  BY <1>1, <1>2, PutExternGood
<1> HIDE DEF k, u
<1>4. k \in 1 .. Len(u.syms) /\ u.syms[k] \in Elf32_Sym
  BY <1>3, TableFacts DEF Good, StandsFor
<1>5. e \in Elf32_Sym /\ e.name = u.syms[k].name /\ e.bind = u.syms[k].bind
      /\ e.from = u.syms[k].from
  BY <1>2, <1>4 DEF Elf32_Sym
<1>6. tab' = [u EXCEPT !.syms[k] = e]
  BY <1>1
<1> HIDE DEF e
<1>7. /\ Good(tab') /\ Extends(u, tab')
      /\ Len(tab'.syms) = Len(u.syms) /\ tab'.syms[k] = e
  <2> DEFINE v == [u EXCEPT !.syms[k] = e]
  <2>1. Good(v) /\ Extends(u, v) /\ Len(v.syms) = Len(u.syms) /\ v.syms[k] = e
    BY <1>3, <1>4, <1>5, ReplaceGood
  <2> QED BY <1>6, <2>1
<1>8. Extends(tab, tab')
  <2>1. /\ Len(tab.syms) \in Nat /\ Len(u.syms) \in Nat
    BY <1>1, <1>3, GoodNow, TableFacts DEF Good
  <2> QED BY <1>3, <1>7, <2>1 DEF Extends
<1>9. StandsFor(tab', k, n, static, inputs)
  BY <1>3, <1>5, <1>7 DEF StandsFor
<1>10. unit' \in [Name -> Sym] /\ UnitOK' /\ LoadingOK' /\ IdleOK'
  <2>1. "yes" \in {"extern", "yes"}
    OBVIOUS
  <2> QED BY <1>1, <1>7, <1>8, <1>9, <2>1, UnitStep
<1>11. (tab \in Table)' /\ TableOK' /\ RelocationsReach'
  <2>1. rels' \subseteq Elf32_Rel
    BY <1>1 DEF IInv, TypeOK
  <2> QED BY <1>1, <1>7, <1>8, <2>1, StepTable
<1>12. TypeOK'
  BY <1>1, <1>10, <1>11 DEF IInv, TypeOK
<1> QED BY <1>10, <1>11, <1>12 DEF IInv

(***************************************************************************)
(* Objects, added symbols, common symbols                                  *)
(***************************************************************************)
LEMMA NothingLoadingType ==
  NothingLoading \in [object : Object, map : Seq(Nat)]
BY DEF NothingLoading, NoObject, Object

LEMMA StartObjectStep ==
  ASSUME IInv, NEW o \in Objects, StartObject(o)
  PROVE  IInv'
<1>1. /\ phase = "between" /\ phase # "sorted" /\ phase' = "object"
      /\ inputs' = inputs + 1 /\ inputs < MaxInputs
      /\ loading' = [object |-> o, map |-> <<>>]
      /\ tab' = tab /\ rels' = rels /\ unit' = unit
      /\ reported' = reported /\ given' = given
  BY DEF StartObject
<1>2. inputs \in 0 .. MaxInputs /\ MaxInputs \in Nat
  BY SymtabAssumption DEF IInv, TypeOK
<1>3. o \in Object /\ o.rels \subseteq DOMAIN o.syms
  BY SymtabAssumption
<1>4. o.syms \in Seq(ObjectSym) /\ Len(o.syms) \in Nat
  BY <1>3 DEF Object
<1>5. loading' \in [object : Object, map : Seq(Nat)]
  BY <1>1, <1>3
<1>6. LoadingOK'
  BY <1>1, <1>3, <1>4 DEF LoadingOK
<1>7. UnitOK' /\ IdleOK'
  <2>1. unit = NoSyms
    BY <1>1 DEF IInv, IdleOK
  <2> QED BY <1>1, <1>2, <2>1 DEF UnitOK, IdleOK, NoSyms
<1>8. (tab \in Table)' /\ TableOK' /\ RelocationsReach'
  <2>1. Good(tab') /\ Extends(tab, tab') /\ rels' \subseteq Elf32_Rel
    BY <1>1, GoodNow DEF IInv, TypeOK
  <2> QED BY <1>1, <2>1, StepTable
<1>9. TypeOK'
  <2>1. inputs' \in 0 .. MaxInputs
    BY <1>1, <1>2
  <2> QED BY <1>1, <1>5, <1>8, <2>1 DEF IInv, TypeOK
<1> QED BY <1>6, <1>7, <1>8, <1>9 DEF IInv

LEMMA ObjectFacts ==
  ASSUME IInv, phase = "object"
  PROVE  /\ Good(tab) /\ Extends(tab, tab)
         /\ inputs \in Nat \ {0} /\ inputs \in 1 .. MaxInputs
         /\ unit = NoSyms
         /\ loading \in [object : Object, map : Seq(Nat)]
         /\ loading.object.syms \in Seq(ObjectSym)
         /\ loading.map \in Seq(Nat)
         /\ Len(loading.object.syms) \in Nat /\ Len(loading.map) \in Nat
         /\ DOMAIN loading.object.syms = 1 .. Len(loading.object.syms)
<1>1. Good(tab) /\ Extends(tab, tab)
  BY GoodNow
<1>2. inputs \in Nat \ {0} /\ inputs \in 1 .. MaxInputs
  <2>1. inputs \in 0 .. MaxInputs
    BY DEF IInv, TypeOK
  <2>2. inputs >= 1
    BY DEF IInv, IdleOK
  <2>3. MaxInputs \in Nat
    BY SymtabAssumption
  <2> QED BY <2>1, <2>2, <2>3
<1>3. unit = NoSyms
  BY DEF IInv, IdleOK
<1>4. loading \in [object : Object, map : Seq(Nat)]
  BY DEF IInv, TypeOK
<1>5. loading.object.syms \in Seq(ObjectSym) /\ loading.map \in Seq(Nat)
  BY <1>4 DEF Object
<1> QED BY <1>1, <1>2, <1>3, <1>4, <1>5, LenProperties

LEMMA AddObjectSymbolStep ==
  ASSUME IInv, AddObjectSymbol
  PROVE  IInv'
<1> DEFINE k == Len(loading.map) + 1
           o == loading.object.syms[k]
           s == Renumbered(k)
           c == NumberOf(tab, s)
<1>1. /\ phase = "object" /\ phase # "sorted" /\ phase' = phase
      /\ k <= Len(loading.object.syms)
      /\ tab' = add_elf_sym(tab, s)
      /\ loading' = [loading EXCEPT !.map = Append(@, c)]
      /\ Report(s) /\ inputs' = inputs /\ Give(s)
      /\ rels' = rels /\ unit' = unit
  BY DEF AddObjectSymbol
<1>2. /\ Good(tab) /\ inputs \in Nat \ {0} /\ inputs \in 1 .. MaxInputs
      /\ unit = NoSyms
      /\ loading \in [object : Object, map : Seq(Nat)]
      /\ loading.object.syms \in Seq(ObjectSym)
      /\ loading.map \in Seq(Nat) /\ Len(loading.map) \in Nat
  BY <1>1, ObjectFacts
<1>3. o \in ObjectSym
  BY <1>1, <1>2, ElementOfSeq
<1>4. /\ s \in Elf32_Sym /\ s.name = o.name /\ s.name \in Name
      /\ s.bind = o.bind /\ s.from = inputs
  BY <1>2, <1>3 DEF Renumbered, ObjectSym, Elf32_Sym, SymName, Place
<1> HIDE DEF s
<1>5. /\ Good(tab') /\ Extends(tab, tab')
      /\ StandsFor(tab', c, o.name, o.bind = "local", inputs)
  <2> DEFINE u == add_elf_sym(tab, s)
  <2>1. /\ Good(u) /\ Extends(tab, u)
        /\ c \in 1 .. Len(u.syms)
        /\ u.syms[c].name = s.name
        /\ u.syms[c].bind = "local" <=> s.bind = "local"
        /\ s.bind = "local" => u.syms[c].from = s.from
    BY <1>2, <1>4, AddGood
  <2>2. tab' = u
    BY <1>1
  <2> HIDE DEF u, c, o
  <2> QED BY <1>4, <2>1, <2>2 DEF StandsFor
<1>6. c \in Nat
  <2>1. Len(tab'.syms) \in Nat
    BY <1>5, TableFacts DEF Good
  <2> QED BY <1>5, <2>1 DEF StandsFor
<1> HIDE DEF c
<1>7. /\ loading'.object = loading.object
      /\ loading'.map = Append(loading.map, c)
      /\ loading' \in [object : Object, map : Seq(Nat)]
  <2> DEFINE m == Append(loading.map, c)
  <2>1. m \in Seq(Nat)
    BY <1>2, <1>6
  <2>2. loading' = [loading EXCEPT !.map = m]
    BY <1>1
  <2> HIDE DEF m
  <2>3. /\ loading'.object = loading.object /\ loading'.map = m
        /\ loading' \in [object : Object, map : Seq(Nat)]
    BY <1>2, <2>1, <2>2
  <2> QED BY <2>3 DEF m
<1>8. /\ Len(loading'.map) = k
      /\ \A i \in 1 .. k - 1 : loading'.map[i] = loading.map[i]
      /\ loading'.map[k] = c
  BY <1>2, <1>6, <1>7
<1>9. LoadingOK'
  <2>1. ASSUME NEW i \in 1 .. k
        PROVE  StandsFor(tab', loading'.map[i], loading.object.syms[i].name,
                         loading.object.syms[i].bind = "local", inputs)
    <3>1. CASE i = k
      BY <1>5, <1>8, <3>1
    <3>2. CASE i # k
      <4>1. i \in 1 .. Len(loading.map) /\ i \in 1 .. k - 1
        BY <1>2, <3>2
      <4>2. StandsFor(tab, loading.map[i], loading.object.syms[i].name,
                      loading.object.syms[i].bind = "local", inputs)
        BY <4>1 DEF IInv, LoadingOK
      <4>3. loading'.map[i] = loading.map[i]
        BY <1>8, <4>1
      <4> QED BY <1>1, <1>5, <4>2, <4>3, StepKeeps
    <3> QED BY <3>1, <3>2
  <2>2. loading.object.rels \subseteq DOMAIN loading.object.syms
    BY DEF IInv, LoadingOK
  <2> HIDE DEF k
  <2>3. Len(loading'.map) = k /\ k <= Len(loading.object.syms)
    BY <1>1, <1>8
  <2> QED BY <1>1, <1>7, <2>1, <2>2, <2>3 DEF LoadingOK, StandsFor
<1>10. UnitOK' /\ IdleOK'
  BY <1>1, <1>2 DEF IInv, UnitOK, IdleOK, NoSyms
<1>11. (tab \in Table)' /\ TableOK' /\ RelocationsReach'
  <2>1. rels' \subseteq Elf32_Rel
    BY <1>1 DEF IInv, TypeOK
  <2> QED BY <1>1, <1>5, <2>1, StepTable
<1>12. reported' \subseteq Name /\ given' \in [Name -> SUBSET (1 .. MaxInputs)]
  BY <1>1, <1>2, <1>4, ReportType, GiveType DEF IInv
<1>13. TypeOK'
  BY <1>1, <1>7, <1>11, <1>12 DEF IInv, TypeOK
<1> QED BY <1>9, <1>10, <1>11, <1>13 DEF IInv

LEMMA EndObjectStep ==
  ASSUME IInv, EndObject
  PROVE  IInv'
<1> DEFINE o(k) == loading.object.syms[k]
           rel(k) == [sym |-> loading.map[k], name |-> o(k).name,
                      from |-> IF o(k).bind = "local" THEN inputs ELSE 0]
<1>1. /\ phase = "object" /\ phase # "sorted" /\ phase' = "between"
      /\ Len(loading.map) = Len(loading.object.syms)
      /\ rels' = rels \cup {rel(k) : k \in loading.object.rels}
      /\ loading' = NothingLoading
      /\ tab' = tab /\ unit' = unit /\ inputs' = inputs
      /\ reported' = reported /\ given' = given
  BY DEF EndObject
<1>2. /\ Good(tab) /\ Extends(tab, tab) /\ inputs \in Nat \ {0}
      /\ unit = NoSyms
      /\ loading.object.syms \in Seq(ObjectSym)
      /\ loading.map \in Seq(Nat)
      /\ DOMAIN loading.object.syms = 1 .. Len(loading.object.syms)
  BY <1>1, ObjectFacts
<1>3. ASSUME NEW k \in loading.object.rels
      PROVE  rel(k) \in Elf32_Rel /\ Reaches(tab', rel(k))
  <2>1. k \in 1 .. Len(loading.object.syms) /\ k \in 1 .. Len(loading.map)
    BY <1>1, <1>2 DEF IInv, LoadingOK
  <2>2. o(k) \in ObjectSym /\ loading.map[k] \in Nat
    BY <1>2, <2>1, ElementOfSeq
  <2>3. StandsFor(tab, loading.map[k], o(k).name, o(k).bind = "local", inputs)
    BY <2>1 DEF IInv, LoadingOK
  <2>4. rel(k) \in Elf32_Rel
    <3>1. o(k).name \in Name
      BY <2>2 DEF ObjectSym
    <3> HIDE DEF o
    <3> QED BY <1>2, <2>2, <3>1 DEF Elf32_Rel
  <2>5. Reaches(tab', rel(k))
    <3> HIDE DEF o
    <3> QED BY <1>1, <1>2, <2>3 DEF Reaches, StandsFor
  <2> QED BY <2>4, <2>5
<1> HIDE DEF rel
<1>4. (tab \in Table)' /\ TableOK' /\ RelocationsReach' /\ rels' \subseteq Elf32_Rel
  <2>1. rels' \subseteq Elf32_Rel
    BY <1>1, <1>3 DEF IInv, TypeOK
  <2>2. \A r \in rels' : r \in rels \/ Reaches(tab', r)
    BY <1>1, <1>3
  <2> QED BY <1>1, <1>2, <2>1, <2>2, StepTable
<1>5. LoadingOK'
  BY <1>1 DEF LoadingOK, NothingLoading, NoObject
<1>6. UnitOK' /\ IdleOK'
  BY <1>1, <1>2 DEF UnitOK, IdleOK, NoSyms
<1>7. TypeOK'
  BY <1>1, <1>4, NothingLoadingType DEF IInv, TypeOK
<1> QED BY <1>4, <1>5, <1>6, <1>7 DEF IInv

LEMMA AddSymbolStep ==
  ASSUME IInv, NEW n \in Name, tcc_add_symbol(n)
  PROVE  IInv'
<1> DEFINE s == [name |-> n, bind |-> "global", vis |-> Default, shndx |-> "abs",
                 value |-> inputs + 1, from |-> inputs + 1]
<1>1. /\ phase = "between" /\ phase # "sorted" /\ phase' = phase
      /\ inputs' = inputs + 1 /\ inputs < MaxInputs
      /\ tab' = add_elf_sym(tab, s) /\ Report(s) /\ Give(s)
      /\ rels' = rels /\ unit' = unit /\ loading' = loading
  BY DEF tcc_add_symbol
<1>2. inputs \in 0 .. MaxInputs /\ MaxInputs \in Nat
  BY SymtabAssumption DEF IInv, TypeOK
<1>3. s \in Elf32_Sym /\ s.name \in Name
  BY <1>2 DEF Elf32_Sym, SymName, Bind, Place, Default, Visibility, Protected
<1> HIDE DEF s
<1>4. Good(tab') /\ Extends(tab, tab')
  BY <1>1, <1>3, GoodNow, AddGood
<1>5. (tab \in Table)' /\ TableOK' /\ RelocationsReach'
  <2>1. rels' \subseteq Elf32_Rel
    BY <1>1 DEF IInv, TypeOK
  <2> QED BY <1>1, <1>4, <2>1, StepTable
<1>6. unit = NoSyms /\ loading = NothingLoading
  BY <1>1 DEF IInv, IdleOK
<1>7. UnitOK' /\ LoadingOK' /\ IdleOK'
  <2>1. UnitOK'
    BY <1>1, <1>6 DEF UnitOK, NoSyms
  <2>2. LoadingOK'
    BY <1>1, <1>6 DEF LoadingOK, NothingLoading, NoObject
  <2>3. IdleOK'
    BY <1>1, <1>6 DEF IdleOK
  <2> QED BY <2>1, <2>2, <2>3
<1>8. inputs' \in 1 .. MaxInputs
  BY <1>1, <1>2
<1>9. reported' \subseteq Name /\ given' \in [Name -> SUBSET (1 .. MaxInputs)]
  BY <1>1, <1>3, <1>8, ReportType, GiveType DEF IInv
<1>10. TypeOK'
  BY <1>1, <1>5, <1>8, <1>9 DEF IInv, TypeOK
<1> QED BY <1>5, <1>7, <1>10 DEF IInv

LEMMA CommonStep ==
  ASSUME IInv, relocate_common_syms
  PROVE  IInv'
<1> DEFINE n == Len(tab.syms)
           e(i) == IF tab.syms[i].shndx = "common"
                   THEN [tab.syms[i] EXCEPT !.shndx = "bss"] ELSE tab.syms[i]
           new == [i \in 1 .. n |-> e(i)]
<1>1. /\ phase = "between" /\ phase # "sorted" /\ phase' = "linked"
      /\ rels' = rels /\ unit' = unit /\ loading' = loading /\ inputs' = inputs
      /\ reported' = reported /\ given' = given
  BY DEF relocate_common_syms
<1>2. Good(tab) /\ tab.syms \in Seq(Elf32_Sym) /\ n \in Nat /\ DOMAIN tab.syms = 1 .. n
  BY <1>1, GoodNow, TableFacts DEF Good
<1>3. tab' = [tab EXCEPT !.syms = new]
  BY <1>2 DEF relocate_common_syms
<1>4. \A i \in 1 .. n : /\ e(i) \in Elf32_Sym
                        /\ e(i).name = tab.syms[i].name
                        /\ e(i).bind = tab.syms[i].bind
                        /\ e(i).from = tab.syms[i].from
  <2> TAKE i \in 1 .. n
  <2>1. tab.syms[i] \in Elf32_Sym
    BY <1>2, ElementOfSeq
  <2>2. "bss" \in Place
    BY DEF Place
  <2> QED BY <2>1, <2>2 DEF Elf32_Sym
<1> HIDE DEF e
<1>5. /\ new \in Seq(Elf32_Sym) /\ Len(new) = n
      /\ \A i \in 1 .. n : new[i] = e(i)
  <2>1. new \in [1 .. n -> Elf32_Sym]
    BY <1>4
  <2> HIDE DEF n
  <2>2. new \in Seq(Elf32_Sym)
    BY <1>2, <2>1, SeqDef
  <2>3. Len(new) \in Nat /\ DOMAIN new = 1 .. Len(new)
    <3> HIDE DEF new
    <3> QED BY <2>2, LenProperties
  <2>4. DOMAIN new = 1 .. n
    OBVIOUS
  <2>5. Len(new) = n
    <3> HIDE DEF new
    <3> QED BY <1>2, <2>3, <2>4
  <2> QED BY <2>2, <2>5
<1> HIDE DEF new
<1>6. \A i \in 1 .. Len(tab.syms) :
        /\ new[i].name = tab.syms[i].name
        /\ new[i].bind = "local" <=> tab.syms[i].bind = "local"
        /\ tab.syms[i].bind = "local" => new[i].from = tab.syms[i].from
  BY <1>4, <1>5
<1>7. Good(tab') /\ Extends(tab, tab')
  <2> DEFINE u == [tab EXCEPT !.syms = new]
  <2>1. Good(u) /\ Extends(tab, u)
    BY <1>2, <1>5, <1>6, ChangeGood
  <2> QED BY <1>3, <2>1
<1>8. (tab \in Table)' /\ TableOK' /\ RelocationsReach'
  <2>1. rels' \subseteq Elf32_Rel
    BY <1>1 DEF IInv, TypeOK
  <2> QED BY <1>1, <1>7, <2>1, StepTable
<1>9. unit = NoSyms /\ loading = NothingLoading
  BY <1>1 DEF IInv, IdleOK
<1>10. UnitOK' /\ LoadingOK' /\ IdleOK'
  BY <1>1, <1>9 DEF UnitOK, LoadingOK, IdleOK, NothingLoading, NoObject, NoSyms
<1>11. TypeOK'
  BY <1>1, <1>8 DEF IInv, TypeOK
<1> QED BY <1>8, <1>10, <1>11 DEF IInv

(***************************************************************************)
(* The sort                                                                *)
(***************************************************************************)
Others(i) == 1 .. i \ Locals(i)

LEMMA LocalsFacts ==
  ASSUME Len(tab.syms) \in Nat
  PROVE  \A i \in 1 .. Len(tab.syms) :
           /\ IsFiniteSet(Locals(i)) /\ Cardinality(Locals(i)) \in 0 .. i
           /\ IsFiniteSet(Others(i)) /\ Cardinality(Others(i)) \in 0 .. i
<1> TAKE i \in 1 .. Len(tab.syms)
<1>1. i \in Nat /\ 1 \in Int /\ i \in Int /\ i > 0
  OBVIOUS
<1>2. IsFiniteSet(1 .. i) /\ Cardinality(1 .. i) = i
  BY <1>1, FS_Interval
<1>3. Locals(i) \in SUBSET (1 .. i) /\ Others(i) \in SUBSET (1 .. i)
  BY DEF Locals, Others
<1>4. /\ IsFiniteSet(Locals(i)) /\ Cardinality(Locals(i)) <= i
      /\ IsFiniteSet(Others(i)) /\ Cardinality(Others(i)) <= i
  BY <1>2, <1>3, FS_Subset
<1>5. Cardinality(Locals(i)) \in Nat /\ Cardinality(Others(i)) \in Nat
  BY <1>4, FS_CardinalityType
<1> QED BY <1>1, <1>4, <1>5

\* Later symbols of one kind come later.
LEMMA CountGrows ==
  ASSUME NEW S, NEW T, IsFiniteSet(T), S \subseteq T, NEW x \in T, x \notin S
  PROVE  Cardinality(S) < Cardinality(T)
<1>1. S \in SUBSET T
  OBVIOUS
<1>2. IsFiniteSet(S) /\ Cardinality(S) <= Cardinality(T)
      /\ (Cardinality(T) = Cardinality(S) => T = S)
  BY <1>1, FS_Subset
<1>3. Cardinality(S) \in Nat /\ Cardinality(T) \in Nat
  BY <1>2, FS_CardinalityType
<1> QED BY <1>2, <1>3

LEMMA OldToNewInjective ==
  ASSUME Len(tab.syms) \in Nat
  PROVE  \A i, j \in 1 .. Len(tab.syms) : i < j => OldToNew(i) # OldToNew(j)
<1> DEFINE n == Len(tab.syms)
           local(i) == tab.syms[i].bind = "local"
<1> SUFFICES ASSUME NEW i \in 1 .. n, NEW j \in 1 .. n, i < j
             PROVE  OldToNew(i) # OldToNew(j)
  OBVIOUS
<1>1. n \in 1 .. n /\ n \in Nat
  OBVIOUS
<1>2. /\ IsFiniteSet(Locals(i)) /\ Cardinality(Locals(i)) \in Nat
      /\ IsFiniteSet(Locals(j)) /\ Cardinality(Locals(j)) \in Nat
      /\ IsFiniteSet(Locals(n)) /\ Cardinality(Locals(n)) \in Nat
      /\ IsFiniteSet(Others(i)) /\ Cardinality(Others(i)) \in Nat
      /\ IsFiniteSet(Others(j)) /\ Cardinality(Others(j)) \in Nat
  BY <1>1, LocalsFacts
<1>3. \A k \in 1 .. n :
        /\ local(k) => OldToNew(k) = Cardinality(Locals(k))
        /\ ~local(k) => OldToNew(k) = Cardinality(Locals(n)) + Cardinality(Others(k))
  BY DEF OldToNew, Others
<1>4. ASSUME NEW k \in {i, j}, ~local(k)  PROVE Cardinality(Others(k)) > 0
  <2>1. k \in Others(k)
    BY <1>4 DEF Others, Locals
  <2>2. IsFiniteSet(Others(k)) /\ Cardinality(Others(k)) \in Nat
    BY <1>2
  <2>3. Cardinality(Others(k)) # 0
    BY <2>1, <2>2, FS_EmptySet
  <2> QED BY <2>2, <2>3
<1>5. ASSUME NEW k \in {i, j}  PROVE Cardinality(Locals(k)) <= Cardinality(Locals(n))
  <2>1. Locals(k) \in SUBSET Locals(n)
    BY DEF Locals
  <2> QED BY <1>2, <2>1, FS_Subset
<1>6. CASE local(i) /\ local(j)
  <2>1. Locals(i) \subseteq Locals(j) /\ j \in Locals(j) /\ j \notin Locals(i)
    BY <1>6 DEF Locals
  <2>2. Cardinality(Locals(i)) < Cardinality(Locals(j))
    BY <1>2, <2>1, CountGrows
  <2> QED BY <1>2, <1>3, <1>6, <2>2
<1>7. CASE ~local(i) /\ ~local(j)
  <2>1. Others(i) \subseteq Others(j) /\ j \in Others(j) /\ j \notin Others(i)
    BY <1>7 DEF Locals, Others
  <2>2. Cardinality(Others(i)) < Cardinality(Others(j))
    BY <1>2, <2>1, CountGrows
  <2> QED BY <1>2, <1>3, <1>7, <2>2
<1>8. CASE local(i) /\ ~local(j)
  BY <1>2, <1>3, <1>4, <1>5, <1>8
<1>9. CASE ~local(i) /\ local(j)
  BY <1>2, <1>3, <1>4, <1>5, <1>9
<1> QED BY <1>6, <1>7, <1>8, <1>9

LEMMA OldToNewInRange ==
  ASSUME Len(tab.syms) \in Nat, NEW i \in 1 .. Len(tab.syms)
  PROVE  OldToNew(i) \in 1 .. Len(tab.syms)
<1> DEFINE n == Len(tab.syms)
<1>1. n \in 1 .. n /\ n \in Int /\ 1 \in Int /\ n > 0
  OBVIOUS
<1>2. /\ IsFiniteSet(Locals(i)) /\ Cardinality(Locals(i)) \in 0 .. i
      /\ IsFiniteSet(Locals(n)) /\ Cardinality(Locals(n)) \in Nat
      /\ IsFiniteSet(Others(i)) /\ Cardinality(Others(i)) \in Nat
  BY <1>1, LocalsFacts
<1>3. CASE tab.syms[i].bind = "local"
  <2>1. i \in Locals(i)
    BY <1>3 DEF Locals
  <2>2. Cardinality(Locals(i)) # 0
    BY <1>2, <2>1, FS_EmptySet
  <2>3. OldToNew(i) = Cardinality(Locals(i))
    BY <1>3 DEF OldToNew
  <2> QED BY <1>2, <2>2, <2>3
<1>4. CASE tab.syms[i].bind # "local"
  <2> DEFINE U == Locals(n) \cup Others(i)
  <2>1. Locals(n) \cap Others(i) = {} /\ U \in SUBSET (1 .. n) /\ i \in Others(i)
    BY <1>4 DEF Locals, Others
  <2>2. IsFiniteSet(U) /\ Cardinality(U) = Cardinality(Locals(n)) + Cardinality(Others(i)) - 0
    <3>1. Cardinality(Locals(n) \cap Others(i)) = 0
      BY <2>1, FS_EmptySet
    <3> QED BY <1>2, <3>1, FS_Union
  <2>3. Cardinality(U) <= n
    <3> HIDE DEF U, n
    <3>1. n \in Int /\ 1 \in Int /\ ~(1 > n) /\ n - 1 + 1 = n
      BY <1>1
    <3>2. IsFiniteSet(1 .. n) /\ Cardinality(1 .. n) = n
      BY <3>1, FS_Interval
    <3> QED BY <2>1, <3>2, FS_Subset
  <2>4. Cardinality(Others(i)) # 0
    BY <1>2, <2>1, FS_EmptySet
  <2>5. OldToNew(i) = Cardinality(Locals(n)) + Cardinality(Others(i))
    BY <1>4 DEF OldToNew, Others
  <2> HIDE DEF U
  <2> QED BY <1>1, <1>2, <2>2, <2>3, <2>4, <2>5
<1> QED BY <1>3, <1>4

\* An injection of 1 .. n into itself: every place in the sorted table is taken.
LEMMA OldToNewOnto ==
  ASSUME Len(tab.syms) \in Nat
  PROVE  /\ \A i, j \in 1 .. Len(tab.syms) : OldToNew(i) = OldToNew(j) => i = j
         /\ \A k \in 1 .. Len(tab.syms) : \E i \in 1 .. Len(tab.syms) : OldToNew(i) = k
<1> DEFINE n == Len(tab.syms)
           f == [i \in 1 .. n |-> OldToNew(i)]
<1>1. f \in [1 .. n -> 1 .. n]
  BY OldToNewInRange
<1>2. \A i, j \in 1 .. n : OldToNew(i) = OldToNew(j) => i = j
  <2> TAKE i, j \in 1 .. n
  <2>1. i < j \/ j < i \/ i = j
    OBVIOUS
  <2> QED BY <2>1, OldToNewInjective
<1>3. \A i, j \in 1 .. n : f[i] = f[j] => i = j
  BY <1>2
<1>4. DOMAIN f = 1 .. n
  OBVIOUS
<1>5. \A i \in 1 .. n : f[i] = OldToNew(i)
  OBVIOUS
<1>6. n \in Int /\ 1 \in Int
  OBVIOUS
<1> HIDE DEF f, n
<1>7. f \in Injection(1 .. n, 1 .. n)
  BY <1>1, <1>3, <1>4 DEF Injection, IsInjective
<1>8. f \in Surjection(1 .. n, 1 .. n)
  <2>1. IsFiniteSet(1 .. n)
    BY <1>6, FS_Interval
  <2> QED BY <1>7, <2>1, FS_Injection
<1>9. \A k \in 1 .. n : \E i \in 1 .. n : f[i] = k
  BY <1>8 DEF Surjection
<1> QED BY <1>2, <1>5, <1>9 DEF n

LEMMA SortStep ==
  ASSUME IInv, sort_syms
  PROVE  IInv'
<1> DEFINE n == Len(tab.syms)
           old(k) == CHOOSE i \in 1 .. n : OldToNew(i) = k
           new == [k \in 1 .. n |-> tab.syms[old(k)]]
           moved(r) == [r EXCEPT !.sym = OldToNew(r.sym)]
<1>1. /\ phase \in {"between", "linked"} /\ phase # "sorted" /\ phase' = "sorted"
      /\ rels' = {moved(r) : r \in rels}
      /\ unit' = unit /\ loading' = loading /\ inputs' = inputs
      /\ reported' = reported /\ given' = given
  BY DEF sort_syms
<1>2. /\ TableType(tab) /\ tab.syms \in Seq(Elf32_Sym) /\ n \in Nat
      /\ DOMAIN tab.syms = 1 .. n
  BY <1>1, GoodNow, TableFacts DEF Good
<1>3. tab' = [tab EXCEPT !.syms = new]
  BY <1>2 DEF sort_syms
<1>4. \A k \in 1 .. n : old(k) \in 1 .. n /\ OldToNew(old(k)) = k
  BY <1>2, OldToNewOnto
<1>5. \A i \in 1 .. n : OldToNew(i) \in 1 .. n /\ old(OldToNew(i)) = i
  <2> TAKE i \in 1 .. n
  <2>1. OldToNew(i) \in 1 .. n
    BY <1>2, OldToNewInRange
  <2>2. old(OldToNew(i)) \in 1 .. n /\ OldToNew(old(OldToNew(i))) = OldToNew(i)
    BY <1>4, <2>1
  <2> HIDE DEF old
  <2> QED BY <1>2, <2>1, <2>2, OldToNewOnto
<1> HIDE DEF old
<1>6. /\ new \in Seq(Elf32_Sym) /\ Len(new) = n
      /\ \A i \in 1 .. n : new[OldToNew(i)] = tab.syms[i]
  <2>1. new \in [1 .. n -> Elf32_Sym]
    <3>1. \A k \in 1 .. n : tab.syms[old(k)] \in Elf32_Sym
      BY <1>2, <1>4, ElementOfSeq
    <3> QED BY <3>1
  <2>2. \A i \in 1 .. n : new[OldToNew(i)] = tab.syms[i]
    BY <1>5
  <2>3. DOMAIN new = 1 .. n
    OBVIOUS
  <2> HIDE DEF n, new
  <2>4. new \in Seq(Elf32_Sym)
    BY <1>2, <2>1, SeqDef
  <2>5. Len(new) \in Nat /\ DOMAIN new = 1 .. Len(new)
    BY <2>4, LenProperties
  <2> QED BY <1>2, <2>2, <2>3, <2>4, <2>5
<1> HIDE DEF new
<1>7. tab'.syms = new
  BY <1>2, <1>3 DEF TableType
<1>8. TableType(tab')
  <2> HIDE DEF n
  <2>1. Len(new) = Len(tab.syms)
    BY <1>6 DEF n
  <2> QED BY <1>2, <1>3, <1>6, <2>1 DEF TableType
<1>9. (tab \in Table)'
  BY <1>8 DEF TableType, Table
<1>10. ASSUME NEW r \in rels
       PROVE  moved(r) \in Elf32_Rel /\ Reaches(tab', moved(r))
  <2>1. r \in Elf32_Rel
    BY DEF IInv, TypeOK
  <2>2. Reaches(tab, r)
    BY <1>2, ReachesAll DEF IInv
  <2>3. r.sym \in 1 .. n
    BY <2>2 DEF Reaches, StandsFor
  <2>4. OldToNew(r.sym) \in 1 .. n /\ new[OldToNew(r.sym)] = tab.syms[r.sym]
    BY <1>5, <1>6, <2>3
  <2>5. /\ moved(r) \in Elf32_Rel
        /\ moved(r).sym = OldToNew(r.sym)
        /\ moved(r).name = r.name /\ moved(r).from = r.from
    <3>1. OldToNew(r.sym) \in Nat
      BY <1>2, <2>4
    <3> QED BY <2>1, <3>1 DEF Elf32_Rel
  <2> HIDE DEF moved
  <2>6. Reaches(tab', moved(r))
    BY <1>6, <1>7, <2>2, <2>4, <2>5 DEF Reaches, StandsFor
  <2> QED BY <2>5, <2>6
<1> HIDE DEF moved
<1>11. rels' \subseteq Elf32_Rel
  BY <1>1, <1>10
<1>12. RelocationsReach'
  <2>1. \A r \in rels' : Reaches(tab', r)
    BY <1>1, <1>10
  <2>2. DOMAIN tab'.syms = 1 .. Len(tab'.syms)
    BY <1>8, TableFacts
  <2> QED BY <2>1, <2>2 DEF RelocationsReach, Reaches, StandsFor
<1>13. unit = NoSyms /\ loading = NothingLoading
  BY <1>1 DEF IInv, IdleOK
<1>14. UnitOK' /\ LoadingOK' /\ IdleOK' /\ TableOK'
  BY <1>1, <1>13 DEF UnitOK, LoadingOK, IdleOK, TableOK, NothingLoading, NoObject, NoSyms
<1>15. TypeOK'
  BY <1>1, <1>9, <1>11 DEF IInv, TypeOK
<1> QED BY <1>12, <1>14, <1>15 DEF IInv

(***************************************************************************)
(* Theorems                                                                *)
(***************************************************************************)
LEMMA InitOK ==
  ASSUME Init
  PROVE  IInv
<1>1. /\ tab = [syms |-> <<>>, nbuckets |-> 1, bucket |-> [h \in {0} |-> 0],
                chain |-> <<>>, nb_hashed_syms |-> 0]
      /\ rels = {} /\ unit = NoSyms /\ loading = NothingLoading
      /\ phase = "between" /\ inputs = 0 /\ reported = {}
      /\ given = [n \in Name |-> {}]
  BY DEF Init
<1>2. tab.syms = <<>> /\ tab.nbuckets = 1 /\ tab.bucket = [h \in {0} |-> 0] /\ tab.chain = <<>>
  BY <1>1
<1>3. 0 .. tab.nbuckets - 1 = {0} /\ 1 .. Len(tab.syms) = {} /\ Len(tab.syms) = 0
  BY <1>2
<1>4. tab \in Table
  <2>1. tab.bucket \in [0 .. tab.nbuckets - 1 -> Nat] /\ tab.chain \in [1 .. Len(tab.syms) -> Nat]
    BY <1>2, <1>3
  <2>2. tab.syms \in Seq(Elf32_Sym) /\ tab.nbuckets \in Nat \ {0}
    BY <1>2
  <2> QED BY <1>1, <2>1, <2>2 DEF Table
<1>5. NoSyms \in [Name -> Sym]
  BY DEF NoSyms, Sym
<1>6. TypeOK
  <2>1. MaxInputs \in Nat
    BY SymtabAssumption
  <2>2. 0 \in 0 .. MaxInputs
    BY <2>1
  <2> QED BY <1>1, <1>4, <1>5, <2>1, <2>2, NothingLoadingType DEF TypeOK
<1>7. TableOK
  <2>1. ASSUME NEW h \in 0 .. tab.nbuckets - 1
        PROVE  tab.bucket[h] = Newest(tab.syms, Len(tab.syms), h, tab.nbuckets)
    <3>1. Newest(tab.syms, 0, h, tab.nbuckets) \in 0 .. 0
      BY NewestIsGreatest
    <3> QED BY <1>2, <1>3, <3>1
  <2>2. LinksExact(tab)
    BY <1>3, <2>1 DEF LinksExact
  <2> QED BY <1>3, <2>2 DEF TableOK, NamesOnce
<1>8. IdleOK /\ UnitOK /\ LoadingOK /\ RelocationsReach
  BY <1>1 DEF IdleOK, UnitOK, LoadingOK, RelocationsReach, NoSyms, NothingLoading, NoObject
<1> QED BY <1>6, <1>7, <1>8 DEF IInv

LEMMA NextOK ==
  ASSUME IInv, [Next]_vars
  PROVE  IInv'
<1>1. ASSUME NEW n \in Function \cup Variable, NEW static \in BOOLEAN,
             \/ Use(n, static)
             \/ DefineFunction(n, static)
             \/ DefineVariable(n, static)
             \/ DefineTentatively(n, static)
      PROVE  IInv'
  <2>1. n \in Name
    BY DEF Name
  <2> QED BY <1>1, <2>1, UseStep, DefineFunctionStep, DefineVariableStep,
             DefineTentativelyStep
<1>2. CASE UNCHANGED vars
  <2>1. /\ tab' = tab /\ rels' = rels /\ unit' = unit /\ loading' = loading
        /\ phase' = phase /\ inputs' = inputs /\ reported' = reported /\ given' = given
    BY <1>2 DEF vars
  <2>2. /\ TypeOK' /\ TableOK' /\ IdleOK' /\ UnitOK' /\ LoadingOK' /\ RelocationsReach'
    BY <2>1 DEF IInv, TypeOK, Table, TableOK, LinksExact, NamesOnce, IdleOK, UnitOK,
                LoadingOK, RelocationsReach, StandsFor
  <2> QED BY <2>2 DEF IInv
<1>3. CASE StartUnit
  BY <1>3, StartUnitStep
<1>4. CASE EndUnit
  BY <1>4, EndUnitStep
<1>5. CASE \E o \in Objects : StartObject(o)
  BY <1>5, StartObjectStep
<1>6. CASE AddObjectSymbol
  BY <1>6, AddObjectSymbolStep
<1>7. CASE EndObject
  BY <1>7, EndObjectStep
<1>8. CASE \E n \in Name : tcc_add_symbol(n)
  BY <1>8, AddSymbolStep
<1>9. CASE relocate_common_syms
  BY <1>9, CommonStep
<1>10. CASE sort_syms
  BY <1>10, SortStep
<1> QED BY <1>1, <1>2, <1>3, <1>4, <1>5, <1>6, <1>7, <1>8, <1>9, <1>10 DEF Next

LEMMA Invariant == Spec => []IInv
<1>1. Init => IInv
  BY InitOK
<1>2. IInv /\ [Next]_vars => IInv'
  BY NextOK
<1> QED BY <1>1, <1>2, PTL DEF Spec

\* The table, its hash section, the Syms and old_to_new_syms are always of
\* their types: chain words and symbols stay as many, links are numbers.
THEOREM TypeCorrect == Spec => []TypeOK
<1>1. IInv => TypeOK
  BY DEF IInv
<1> QED BY <1>1, Invariant, PTL

\* find_elf_sym finds the one entry of every name that has one, for every hash
\* function and however often put_elf_sym has rebuilt the table.
THEOREM LookupFindsTheEntry == Spec => []LookupIsExact
<1>1. ASSUME IInv, phase # "sorted", NEW n \in Name
      PROVE  Entries(n) = IF find_elf_sym(tab, n) = 0 THEN {} ELSE {find_elf_sym(tab, n)}
  <2> DEFINE f == find_elf_sym(tab, n)
  <2>1. Good(tab) /\ DOMAIN tab.syms = 1 .. Len(tab.syms)
    BY <1>1, GoodNow, TableFacts DEF Good
  <2>2. n \in SymName
    BY DEF SymName
  <2>3. /\ f \in 0 .. Len(tab.syms)
        /\ f # 0 => tab.syms[f].name = n /\ tab.syms[f].bind # "local"
        /\ \A i \in 1 .. Len(tab.syms) :
             tab.syms[i].bind # "local" /\ tab.syms[i].name = n => i = f
    BY <2>1, <2>2, FindFinds
  <2> HIDE DEF f
  <2>4. Entries(n) = IF f = 0 THEN {} ELSE {f}
    <3>1. Len(tab.syms) \in Nat
      BY <2>1, TableFacts DEF Good
    <3> QED BY <2>1, <2>3, <3>1 DEF Entries
  <2> QED BY <2>4 DEF f
<1>2. IInv => LookupIsExact
  BY <1>1 DEF LookupIsExact
<1> QED BY <1>2, Invariant, PTL

\* Relocations refer to what they were made for, through every merge of
\* entries, the loading of objects and the final sort.
THEOREM RelocationsStayRight == Spec => []RelocationsReach
<1>1. IInv => RelocationsReach
  BY DEF IInv
<1> QED BY <1>1, Invariant, PTL

(***************************************************************************)
(* What becomes of definitions.  Only a stronger one takes the place of    *)
(* one that is there, and of several strong ones either all but one are    *)
(* refused or the name is reported.  Both hold of units without the        *)
(* doubtful redefinitions that the constant Redefinitions names.  The      *)
(* invariant adds to the one above which entries may be weak: never one    *)
(* that the unit being compiled will overwrite without a look.             *)
(***************************************************************************)

\* Compilers make a symbol common or weak, never both.
CommonsAreStrong ==
  \A o \in Objects : \A k \in DOMAIN o.syms :
    o.syms[k].bind = "weak" => o.syms[k].shndx # "common"

Placed == {"abs", "text", "data"}

\* What DefinitionsOnlyStrengthen allows entry e to become.
MayBecome(e, f) ==
  e.bind # "local" /\ Strength(e) > 0 =>
    /\ f.name = e.name
    /\ Exposure(f.vis) <= Exposure(e.vis)
    /\ Strength(f) >= Strength(e)
    /\ Strength(f) = Strength(e) /\ Strength(e) \in {1, 3} => f.value = e.value

Strengthens(t, u) == \A i \in 1 .. Len(t.syms) : MayBecome(t.syms[i], u.syms[i])

(***************************************************************************)
(* add_elf_sym                                                             *)
(***************************************************************************)
\* Entry e may be overwritten without a look: it is not weak and undefined.
Firm(e) == ~(e.bind = "weak" /\ e.shndx = "undef")

\* A weak entry is of an input up to `top', and is not going to be allocated.
WeakOld(e, top) ==
  e.bind = "weak" => e.value <= top /\ e.shndx \notin {"common", "bss"}

LEMMA StrengthIs ==
  ASSUME NEW e \in Elf32_Sym
  PROVE  /\ Strength(e) \in 0 .. 3
         /\ Strength(e) = 0 <=> e.shndx = "undef"
         /\ Strength(e) = 1 <=> e.shndx # "undef" /\ e.bind = "weak"
         /\ Strength(e) = 2 <=> e.shndx \in {"common", "bss"} /\ e.bind # "weak"
         /\ Strength(e) = 3 <=> e.shndx \in Placed /\ e.bind # "weak"
BY DEF Strength, Elf32_Sym, Place, Placed

LEMMA ConstrainedExposes ==
  ASSUME NEW v \in Visibility, NEW w \in Visibility
  PROVE  Exposure(Constrained(v, w)) <= Exposure(v)
BY DEF Exposure, Constrained, Visibility, Default, Protected

LEMMA MayStay ==
  ASSUME NEW e \in Elf32_Sym
  PROVE  MayBecome(e, e)
<1>1. Exposure(e.vis) \in Nat
  BY DEF Elf32_Sym, Exposure, Visibility, Default, Protected
<1>2. Strength(e) \in Nat
  BY StrengthIs
<1> QED BY <1>1, <1>2 DEF MayBecome

LEMMA MergedIs ==
  ASSUME NEW e \in Elf32_Sym, NEW s \in Elf32_Sym,
         e.name = s.name, e.bind # "local", s.bind # "local"
  PROVE  LET f == Merged(e, s) IN
         /\ MayBecome(e, f)
         /\ s.bind # "weak" => Firm(f)
         /\ \A top : WeakOld(e, top) /\ WeakOld(s, top) => WeakOld(f, top)
         /\ s.bind = "global" /\ s.shndx # "undef" /\ (e.shndx = "undef" \/ e.bind = "weak") =>
              f.bind = "global" /\ f.shndx = s.shndx /\ f.value = s.value
<1> DEFINE v == Constrained(e.vis, s.vis)
           f == Merged(e, s)
<1>1. /\ e.vis \in Visibility /\ s.vis \in Visibility
      /\ Exposure(v) <= Exposure(e.vis)
  BY ConstrainedExposes DEF Elf32_Sym
<1>t. f \in Elf32_Sym /\ f.name = s.name /\ f.bind # "local"
  BY MergedType
<1> HIDE DEF v
<1>2. CASE e.shndx = "undef"
  <2>1. f = s
    BY <1>2 DEF Merged
  <2>2. Strength(e) = 0
    BY <1>2, StrengthIs
  <2> HIDE DEF f
  <2> QED BY <1>2, <2>1, <2>2 DEF MayBecome, Firm, WeakOld, f
<1>3. CASE e.shndx # "undef" /\ s.shndx # "undef" /\ Overrides(s, e)
  <2>1. f = [s EXCEPT !.vis = v] /\ s.bind = "global" /\ e.bind = "weak"
    BY <1>3 DEF Merged, Overrides, v
  <2>2. f.vis = v /\ f.bind = s.bind /\ f.shndx = s.shndx /\ f.value = s.value
    BY <2>1 DEF Elf32_Sym
  <2> HIDE DEF f
  <2>3. Strength(e) = 1 /\ Strength(f) \in 2 .. 3
    <3>1. Strength(e) = 1
      BY <1>3, <2>1, StrengthIs
    <3>2. Strength(f) \in 0 .. 3 /\ Strength(f) # 0 /\ Strength(f) # 1
      BY <1>3, <1>t, <2>1, <2>2, StrengthIs
    <3> QED BY <3>1, <3>2
  <2>4. MayBecome(e, f)
    BY <1>1, <1>t, <2>2, <2>3 DEF MayBecome
  <2> QED BY <2>1, <2>2, <2>4 DEF Firm, WeakOld, f
<1>4. CASE e.shndx # "undef" /\ ~(s.shndx # "undef" /\ Overrides(s, e))
  <2>1. f = [e EXCEPT !.vis = v]
    BY <1>4 DEF Merged, v
  <2>2. f.vis = v /\ f.bind = e.bind /\ f.shndx = e.shndx /\ f.value = e.value
    BY <2>1 DEF Elf32_Sym
  <2> HIDE DEF f
  <2>3. Strength(f) = Strength(e) /\ Strength(e) \in Nat
    BY <1>t, <2>2, StrengthIs DEF Strength
  <2>4. MayBecome(e, f)
    BY <1>1, <1>t, <2>2, <2>3 DEF MayBecome
  <2> QED BY <1>4, <2>2, <2>4 DEF Firm, WeakOld, Overrides, f
<1> QED BY <1>2, <1>3, <1>4

\* What add_elf_sym does to the entries.
LEMMA AddIs ==
  ASSUME NEW t, Good(t), NEW s \in Elf32_Sym
  PROVE  LET u == add_elf_sym(t, s)
             k == NumberOf(t, s)
             n == Len(t.syms)
         IN  /\ n \in Nat /\ k \in 1 .. n + 1
             /\ \A i \in 1 .. n : i # k => u.syms[i] = t.syms[i]
             /\ k # n + 1 =>
                  /\ Existing(t, s) = k /\ Len(u.syms) = n
                  /\ t.syms[k].name = s.name /\ t.syms[k].bind # "local"
                  /\ s.bind # "local" /\ u.syms[k] = Merged(t.syms[k], s)
             /\ k = n + 1 =>
                  /\ Existing(t, s) = 0 /\ Len(u.syms) = n + 1 /\ u.syms[k] = s
                  /\ s.bind # "local" =>
                       \A j \in 1 .. n : t.syms[j].bind # "local" => t.syms[j].name # s.name
<1> DEFINE n == Len(t.syms)
           u == add_elf_sym(t, s)
           k == NumberOf(t, s)
           i == Existing(t, s)
<1>1. t.syms \in Seq(Elf32_Sym) /\ n \in Nat /\ s.name \in SymName
  BY TableFacts DEF Good, Elf32_Sym
<1>2. /\ i \in 0 .. n
      /\ i # 0 => t.syms[i].name = s.name /\ t.syms[i].bind # "local" /\ s.bind # "local"
      /\ s.bind # "local" =>
           \A j \in 1 .. n : t.syms[j].bind # "local" /\ t.syms[j].name = s.name => j = i
  <2>1. CASE s.bind = "local"
    BY <1>1, <2>1 DEF Existing
  <2>2. CASE s.bind # "local"
    <3>1. i = find_elf_sym(t, s.name)
      BY <2>2 DEF Existing
    <3> HIDE DEF i, n
    <3>2. LET f == find_elf_sym(t, s.name) IN
          /\ f \in 0 .. Len(t.syms)
          /\ f # 0 => t.syms[f].name = s.name /\ t.syms[f].bind # "local"
          /\ \A j \in 1 .. Len(t.syms) :
               t.syms[j].bind # "local" /\ t.syms[j].name = s.name => j = f
      BY <1>1, FindFinds
    <3> QED BY <2>2, <3>1, <3>2 DEF n
  <2> QED BY <2>1, <2>2
<1>3. CASE i = 0
  <2>1. u = put_elf_sym(t, s) /\ k = n + 1
    BY <1>3 DEF add_elf_sym, NumberOf
  <2>2. put_elf_sym(t, s).syms = Append(t.syms, s)
    BY PutGood DEF Good
  <2> HIDE DEF u, k, i
  <2>3. Len(u.syms) = n + 1 /\ u.syms[n + 1] = s /\ \A j \in 1 .. n : u.syms[j] = t.syms[j]
    BY <1>1, <2>1, <2>2
  <2>4. s.bind # "local" =>
          \A j \in 1 .. n : t.syms[j].bind # "local" => t.syms[j].name # s.name
    BY <1>2, <1>3
  <2> QED BY <1>1, <1>3, <2>1, <2>3, <2>4 DEF u, k, i
<1>4. CASE i # 0
  <2>1. u = [t EXCEPT !.syms[i] = Merged(t.syms[i], s)] /\ k = i
    BY <1>4 DEF add_elf_sym, NumberOf
  <2> HIDE DEF u, k, i
  <2>2. /\ u.syms = [t.syms EXCEPT ![i] = Merged(t.syms[i], s)]
        /\ i \in 1 .. n /\ i # n + 1
    BY <1>1, <1>2, <1>4, <2>1 DEF Good, TableType
  <2>3. /\ Len(u.syms) = n /\ u.syms[i] = Merged(t.syms[i], s)
        /\ \A j \in 1 .. n : j # i => u.syms[j] = t.syms[j]
    BY <1>1, <2>2
  <2> QED BY <1>1, <1>2, <1>4, <2>1, <2>2, <2>3 DEF u, k, i
<1> QED BY <1>3, <1>4

LEMMA AddStrengthens ==
  ASSUME NEW t, Good(t), NEW s \in Elf32_Sym
  PROVE  LET u == add_elf_sym(t, s) IN
         /\ Strengthens(t, u)
         /\ s.bind # "weak" =>
              /\ \A i \in 1 .. Len(t.syms) : Firm(t.syms[i]) => Firm(u.syms[i])
              /\ Firm(u.syms[NumberOf(t, s)])
         /\ \A top : WeakOld(s, top) /\ (\A i \in 1 .. Len(t.syms) : WeakOld(t.syms[i], top))
                       => \A i \in 1 .. Len(u.syms) : WeakOld(u.syms[i], top)
<1> DEFINE u == add_elf_sym(t, s)
           k == NumberOf(t, s)
           n == Len(t.syms)
           f == Merged(t.syms[k], s)
<1>1. /\ n \in Nat /\ k \in 1 .. n + 1
      /\ \A i \in 1 .. n : i # k => u.syms[i] = t.syms[i]
      /\ k # n + 1 =>
           /\ Len(u.syms) = n
           /\ t.syms[k].name = s.name /\ t.syms[k].bind # "local"
           /\ s.bind # "local" /\ u.syms[k] = f
      /\ k = n + 1 => Len(u.syms) = n + 1 /\ u.syms[k] = s
  BY AddIs
<1>2. \A i \in 1 .. n : t.syms[i] \in Elf32_Sym
  BY TableFacts DEF Good
<1>3. k # n + 1 => /\ MayBecome(t.syms[k], f)
                   /\ s.bind # "weak" => Firm(f)
                   /\ \A top : WeakOld(t.syms[k], top) /\ WeakOld(s, top) => WeakOld(f, top)
  <2>1. k # n + 1 => k \in 1 .. n
    BY <1>1
  <2> HIDE DEF u, k, n
  <2> QED BY <1>1, <1>2, <2>1, MergedIs
<1> HIDE DEF u, k, n, f
<1>4. ASSUME NEW i \in 1 .. n
      PROVE  /\ i # k => u.syms[i] = t.syms[i]
             /\ i = k => k # n + 1 /\ u.syms[i] = f
  BY <1>1
<1>5. ASSUME NEW i \in 1 .. n PROVE MayBecome(t.syms[i], u.syms[i])
  BY <1>2, <1>3, <1>4, MayStay
<1>6. s.bind # "weak" =>
        /\ \A i \in 1 .. n : Firm(t.syms[i]) => Firm(u.syms[i])
        /\ Firm(u.syms[k])
  BY <1>1, <1>3, <1>4 DEF Firm
<1>7. ASSUME NEW top, WeakOld(s, top), \A i \in 1 .. n : WeakOld(t.syms[i], top),
             NEW i \in 1 .. Len(u.syms)
      PROVE  WeakOld(u.syms[i], top)
  <2>1. i \in 1 .. n \/ (i = n + 1 /\ k = n + 1)
    BY <1>1
  <2>2. CASE i = n + 1 /\ k = n + 1
    BY <1>1, <1>7, <2>2
  <2>3. CASE i \in 1 .. n
    BY <1>3, <1>4, <1>7, <2>3
  <2> QED BY <2>1, <2>2, <2>3
<1> QED BY <1>5, <1>6, <1>7 DEF Strengthens, u, k, n

(***************************************************************************)
(* The invariant                                                           *)
(***************************************************************************)
\* While a unit is compiled weak entries are of earlier inputs.
Latest == IF phase = "unit" THEN inputs - 1 ELSE inputs

WeakOK ==
  phase # "sorted" => \A i \in 1 .. Len(tab.syms) : WeakOld(tab.syms[i], Latest)

\* What the Syms of the unit lead to is firm.
FirmOK ==
  \A n \in Name : unit[n].c # 0 /\ ~unit[n].static => Firm(tab.syms[unit[n].c])

\* The entry of n holds the one definition in g, and no later one replaces it.
Holds(t, n, g) ==
  \E i \in 1 .. Len(t.syms) : /\ t.syms[i].name = n
                              /\ t.syms[i].bind = "global"
                              /\ t.syms[i].shndx \in Placed
                              /\ g = {t.syms[i].value}

GivenOK == \A n \in Name : given[n] # {} /\ n \notin reported => Holds(tab, n, given[n])

LoadedOK == phase = "object" => loading.object \in Objects

DefInv == IInv /\ WeakOK /\ FirmOK /\ GivenOK /\ LoadedOK

\* What a step does to the table.
Strengthened == phase' # "sorted" => Strengthens(tab, tab')

StepOK == WeakOK' /\ FirmOK' /\ GivenOK' /\ Strengthened

LEMMA HoldsStill ==
  ASSUME NEW t, NEW u, Good(t), Good(u), Extends(t, u), Strengthens(t, u),
         NEW n, NEW g, Holds(t, n, g)
  PROVE  Holds(u, n, g)
<1>1. PICK i \in 1 .. Len(t.syms) :
        /\ t.syms[i].name = n /\ t.syms[i].bind = "global"
        /\ t.syms[i].shndx \in Placed /\ g = {t.syms[i].value}
  BY DEF Holds
<1>2. i \in 1 .. Len(u.syms)
  BY TableFacts DEF Good, Extends
<1>3. t.syms[i] \in Elf32_Sym /\ u.syms[i] \in Elf32_Sym
  BY <1>2, TableFacts DEF Good
<1>4. Strength(t.syms[i]) = 3 /\ Strength(u.syms[i]) \in 0 .. 3
  BY <1>1, <1>3, StrengthIs
<1>5. /\ u.syms[i].name = n /\ Strength(u.syms[i]) = 3 /\ u.syms[i].value = t.syms[i].value
  BY <1>1, <1>4 DEF Strengthens, MayBecome
<1>6. u.syms[i].shndx \in Placed /\ u.syms[i].bind # "weak" /\ u.syms[i].bind # "local"
  BY <1>1, <1>3, <1>5, StrengthIs DEF Extends
<1>7. u.syms[i].bind = "global"
  BY <1>3, <1>6 DEF Elf32_Sym, Bind
<1> QED BY <1>1, <1>2, <1>5, <1>6, <1>7 DEF Holds

LEMMA GivenKept ==
  ASSUME DefInv, phase # "sorted", Good(tab'), Extends(tab, tab'), Strengthens(tab, tab'),
         given' = given, reported \subseteq reported'
  PROVE  GivenOK'
<1>1. Good(tab)
  BY GoodNow DEF DefInv
<1>2. ASSUME NEW n \in Name, given[n] # {}, n \notin reported PROVE Holds(tab', n, given[n])
  BY <1>1, <1>2, HoldsStill DEF DefInv, GivenOK
<1> QED BY <1>2 DEF GivenOK, Holds

\* What a step that enters a symbol makes of the definitions given so far.
LEMMA GivenAdded ==
  ASSUME DefInv, phase # "sorted", NEW s \in Elf32_Sym, tab' = add_elf_sym(tab, s),
         Report(s), Give(s),
         s.bind = "global" /\ s.shndx \in Placed => s.value = inputs' /\ s.name \in Name
  PROVE  GivenOK'
<1> DEFINE k == NumberOf(tab, s)
           n == Len(tab.syms)
<1>1. Good(tab) /\ IInv /\ given \in [Name -> SUBSET (1 .. MaxInputs)]
  BY GoodNow DEF DefInv, IInv, TypeOK
<1>2. Good(tab') /\ Extends(tab, tab') /\ Strengthens(tab, tab')
  BY <1>1, AddGood, AddStrengthens
<1>3. reported \subseteq reported'
  BY DEF Report
<1>4. CASE given' = given
  BY <1>2, <1>3, <1>4, GivenKept
<1>5. CASE given' # given
  <2>1. /\ s.bind = "global" /\ s.shndx \in Placed /\ s.vis \notin {Hidden, Internal}
        /\ given' = [given EXCEPT ![s.name] = @ \cup {inputs'}]
        /\ s.value = inputs' /\ s.name \in Name
    BY <1>5 DEF Give, Placed
  <2>2. /\ n \in Nat /\ k \in 1 .. n + 1 /\ Len(tab'.syms) >= n
        /\ k # n + 1 =>
             /\ Existing(tab, s) = k /\ Len(tab'.syms) = n
             /\ tab.syms[k].name = s.name /\ tab.syms[k].bind # "local"
             /\ tab'.syms[k] = Merged(tab.syms[k], s)
        /\ k = n + 1 =>
             /\ Len(tab'.syms) = n + 1 /\ tab'.syms[k] = s
             /\ \A j \in 1 .. n : tab.syms[j].bind # "local" => tab.syms[j].name # s.name
    BY <1>1, <2>1, AddIs
  <2> HIDE DEF k, n
  <2>3. ASSUME NEW m \in Name, m # s.name, given[m] # {}, m \notin reported
        PROVE  Holds(tab', m, given[m])
    BY <1>1, <1>2, <2>3, HoldsStill DEF DefInv, GivenOK
  <2>4. ASSUME given[s.name] # {}, s.name \notin reported
        PROVE  \E j \in 1 .. n : /\ tab.syms[j].name = s.name /\ tab.syms[j].bind = "global"
                                 /\ tab.syms[j].shndx \in Placed
    BY <2>1, <2>4 DEF DefInv, GivenOK, Holds, n
  <2>5. ASSUME s.name \notin reported' PROVE Holds(tab', s.name, {inputs'}) /\ given[s.name] = {}
    <3>1. CASE k = n + 1
      <4>1. given[s.name] = {}
        BY <1>3, <2>2, <2>4, <2>5, <3>1
      <4> QED BY <2>1, <2>2, <3>1, <4>1 DEF Holds
    <3>2. CASE k # n + 1
      <4>1. k \in 1 .. n /\ k # 0
        BY <2>2, <3>2
      <4>2. tab.syms[k] \in Elf32_Sym
        BY <1>1, <4>1, TableFacts DEF Good, n
      <4>3. ~Clash(tab.syms[k], s)
        BY <2>2, <2>5, <3>2, <4>1 DEF Report
      <4>4. s.shndx # "undef" /\ s.bind # "local" /\ s.bind # "weak"
        BY <2>1 DEF Placed
      <4>5. tab.syms[k].shndx = "undef" \/ tab.syms[k].bind = "weak"
        BY <2>1, <4>3, <4>4 DEF Clash, Overrides
      <4>6. /\ tab'.syms[k].bind = "global" /\ tab'.syms[k].shndx = s.shndx
            /\ tab'.syms[k].value = s.value /\ tab'.syms[k].name = s.name
        <5>1. PICK e \in Elf32_Sym : e = tab.syms[k]
          BY <4>2
        <5>2. /\ e.name = s.name /\ e.bind # "local" /\ tab'.syms[k] = Merged(e, s)
              /\ e.shndx = "undef" \/ e.bind = "weak"
          BY <2>2, <3>2, <4>5, <5>1
        <5>3. Merged(e, s).name = s.name
          BY <4>4, <5>2, MergedType
        <5>4. LET f == Merged(e, s) IN
              f.bind = "global" /\ f.shndx = s.shndx /\ f.value = s.value
          BY <2>1, <4>4, <5>2, MergedIs
        <5> QED BY <5>2, <5>3, <5>4
      <4>7. given[s.name] = {}
        <5> SUFFICES ASSUME given[s.name] # {} PROVE FALSE
          OBVIOUS
        <5>1. PICK j \in 1 .. n : /\ tab.syms[j].name = s.name /\ tab.syms[j].bind = "global"
                                  /\ tab.syms[j].shndx \in Placed
          BY <1>3, <2>4, <2>5
        <5>2. j = k
          BY <1>1, <2>2, <3>2, <4>1, <5>1 DEF Good, NamesOnce, n
        <5> QED BY <4>5, <5>1, <5>2 DEF Placed
      <4> QED BY <2>1, <2>2, <4>1, <4>6, <4>7 DEF Holds
    <3> QED BY <3>1, <3>2
  <2>6. ASSUME NEW m \in Name, given'[m] # {}, m \notin reported'
        PROVE  Holds(tab', m, given'[m])
    <3>1. CASE m = s.name
      <4>1. given'[m] = {inputs'}
        BY <1>1, <2>1, <2>5, <2>6, <3>1
      <4> QED BY <2>5, <2>6, <3>1, <4>1
    <3>2. CASE m # s.name
      <4>1. given'[m] = given[m]
        BY <1>1, <2>1, <3>2
      <4> QED BY <1>3, <2>3, <2>6, <3>2, <4>1
    <3> QED BY <3>1, <3>2
  <2> QED BY <2>6 DEF GivenOK, Holds
<1> QED BY <1>4, <1>5

(***************************************************************************)
(* Steps of a unit                                                         *)
(***************************************************************************)
GoodOK == phase # "sorted" => Good(tab)

LEMMA GoodStays == IInv => GoodOK
BY GoodNow DEF GoodOK

\* The Sym of n remembers its entry.
Remembers(n, static, d, c) ==
  unit' = [unit EXCEPT ![n] = [declared |-> d, static |-> static, c |-> c]]

\* The unit overwrites entry c.
Overwrites(c, place) ==
  tab'.syms = [tab.syms EXCEPT ![c] = [@ EXCEPT !.shndx = place, !.value = inputs]]

\* Without a doubtful redefinition.
MayOverwrite(c, place) ==
  \/ tab.syms[c].shndx \in {"undef", "common"}
  \/ tab.syms[c].value = inputs /\ place # "common"

\* The Syms of the unit stay firm if the one that is entered is.
LEMMA UnitFirm ==
  ASSUME DefInv, phase = "unit", NEW n \in Name, NEW static, NEW d, NEW c,
         Remembers(n, static, d, c),
         \A i \in 1 .. Len(tab.syms) : Firm(tab.syms[i]) => Firm(tab'.syms[i]),
         ~static => Firm(tab'.syms[c])
  PROVE  FirmOK'
<1>1. ASSUME NEW m \in Name, unit'[m].c # 0, ~unit'[m].static PROVE Firm(tab'.syms[unit'[m].c])
  <2>1. CASE m = n
    BY <1>1, <2>1 DEF DefInv, IInv, TypeOK, Remembers
  <2>2. CASE m # n
    <3>1. unit'[m] = unit[m]
      BY <2>2 DEF DefInv, IInv, TypeOK, Remembers
    <3>2. unit[m].c \in 1 .. Len(tab.syms)
      BY <1>1, <3>1 DEF DefInv, IInv, UnitOK, StandsFor
    <3> QED BY <1>1, <3>1, <3>2 DEF DefInv, FirmOK
  <2> QED BY <2>1, <2>2
<1> QED BY <1>1 DEF FirmOK, Firm

\* A symbol of the unit is entered.
LEMMA UnitAdds ==
  ASSUME DefInv, phase = "unit", NEW n \in Name, NEW static \in BOOLEAN,
         NEW place \in Place, NEW value \in Nat, unit[n].c = 0
  PROVE  LET s == Symbol(n, static, place, value)
             u == put_extern_sym2(n, static, place, value)
             k == Number(n, static)
         IN  /\ s \in Elf32_Sym /\ s.name = n /\ s.bind # "weak"
             /\ u = add_elf_sym(tab, s) /\ k = NumberOf(tab, s)
             /\ Good(u) /\ Extends(tab, u) /\ Strengthens(tab, u)
             /\ \A i \in 1 .. Len(tab.syms) : Firm(tab.syms[i]) => Firm(u.syms[i])
             /\ Firm(u.syms[k])
             /\ \A i \in 1 .. Len(u.syms) : WeakOld(u.syms[i], inputs - 1)
<1> DEFINE s == Symbol(n, static, place, value)
           u == put_extern_sym2(n, static, place, value)
           k == Number(n, static)
<1>1. IInv /\ Good(tab) /\ inputs \in Nat \ {0} /\ n \in SymName
  BY UnitFacts DEF DefInv
<1>2. /\ s \in Elf32_Sym /\ s.name = n /\ s.bind # "weak"
  BY <1>1 DEF Symbol, Elf32_Sym, Bind, Default, Visibility, Protected
<1>3. u = add_elf_sym(tab, s) /\ k = NumberOf(tab, s)
  BY DEF put_extern_sym2, Number, NumberOf, Existing, Symbol
<1>4. \A i \in 1 .. Len(tab.syms) : WeakOld(tab.syms[i], inputs - 1)
  BY DEF DefInv, WeakOK, Latest
<1>5. WeakOld(s, inputs - 1)
  BY <1>2 DEF WeakOld
<1> HIDE DEF s, u, k
<1>6. Good(u) /\ Extends(tab, u)
  BY <1>1, <1>2, <1>3, AddGood
<1>7. /\ Strengthens(tab, u)
      /\ \A i \in 1 .. Len(tab.syms) : Firm(tab.syms[i]) => Firm(u.syms[i])
      /\ Firm(u.syms[k])
      /\ \A top : WeakOld(s, top) /\ (\A i \in 1 .. Len(tab.syms) : WeakOld(tab.syms[i], top))
                    => \A i \in 1 .. Len(u.syms) : WeakOld(u.syms[i], top)
  BY <1>1, <1>2, <1>3, AddStrengthens
<1> QED BY <1>2, <1>3, <1>4, <1>5, <1>6, <1>7 DEF s, u, k

\* An entry that the unit remembers is overwritten.
LEMMA UnitOverwrites ==
  ASSUME DefInv, phase = "unit", phase' = phase, inputs' = inputs,
         NEW n \in Name, NEW static \in BOOLEAN, DeclaredAs(n, static),
         NEW place \in {"text", "data", "common"}, NEW c \in Nat, c = unit[n].c, c # 0,
         MayOverwrite(c, place), Overwrites(c, place), Remembers(n, static, "yes", c)
  PROVE  /\ WeakOK' /\ FirmOK' /\ Strengthens(tab, tab') /\ Extends(tab, tab')
         /\ c \in 1 .. Len(tab'.syms) /\ tab'.syms[c].name = n
         /\ tab'.syms[c].shndx = place /\ tab'.syms[c].value = inputs
         /\ ~static => tab.syms[c].bind = "global" /\ tab'.syms[c].bind = "global"
<1> DEFINE e == tab.syms[c]
           f == [e EXCEPT !.shndx = place, !.value = inputs]
<1>1. /\ IInv /\ Good(tab) /\ inputs \in Nat \ {0}
      /\ tab.syms \in Seq(Elf32_Sym) /\ Len(tab.syms) \in Nat
  BY UnitFacts, TableFacts DEF DefInv, Good
<1>2. StandsFor(tab, c, n, static, inputs) /\ unit[n].static = static
  BY <1>1 DEF IInv, UnitOK, DeclaredAs
<1>3. c \in 1 .. Len(tab.syms) /\ e \in Elf32_Sym /\ (e.bind = "local" <=> static) /\ e.name = n
  BY <1>1, <1>2 DEF StandsFor
<1>4. e.bind # "weak" /\ MayOverwrite(c, place)
  <2>1. WeakOld(e, inputs - 1)
    BY <1>3 DEF DefInv, WeakOK, Latest
  <2>2. ~static => Firm(e)
    BY <1>2 DEF DefInv, FirmOK
  <2>3. e.value \in Nat
    BY <1>3 DEF Elf32_Sym
  <2> QED BY <1>1, <1>3, <2>1, <2>2, <2>3 DEF WeakOld, Firm, MayOverwrite
<1>5. /\ f \in Elf32_Sym /\ f.shndx = place /\ f.value = inputs /\ f.name = e.name
      /\ f.bind = e.bind /\ f.vis = e.vis /\ f.from = e.from
  BY <1>1, <1>3 DEF Elf32_Sym, Place
<1>6. /\ Len(tab'.syms) = Len(tab.syms) /\ tab'.syms[c] = f
      /\ \A i \in 1 .. Len(tab.syms) : i # c => tab'.syms[i] = tab.syms[i]
      /\ tab'.syms = [tab.syms EXCEPT ![c] = f]
  BY <1>1, <1>3 DEF Overwrites
<1>7. MayBecome(e, f)
  <2>1. Exposure(f.vis) <= Exposure(e.vis)
    BY <1>3, <1>5 DEF Exposure, Elf32_Sym, Visibility, Default, Protected
  <2>2. /\ Strength(e) = 0 <=> e.shndx = "undef"
        /\ Strength(e) = 2 <=> e.shndx \in {"common", "bss"}
        /\ Strength(e) = 3 <=> e.shndx \in Placed
        /\ Strength(e) \in {0, 2, 3}
    BY <1>3, <1>4, StrengthIs
  <2>3. Strength(f) = IF place = "common" THEN 2 ELSE 3
    BY <1>4, <1>5, StrengthIs DEF Placed
  <2> HIDE DEF f, e
  <2>4. Strength(e) = 3 => place # "common" /\ e.value = inputs
    BY <2>2 DEF Placed, MayOverwrite, e
  <2> QED BY <1>5, <2>1, <2>2, <2>3, <2>4 DEF MayBecome
<1> HIDE DEF f
<1>8. Strengthens(tab, tab')
  <2>1. \A i \in 1 .. Len(tab.syms) : tab.syms[i] \in Elf32_Sym
    BY <1>1
  <2> QED BY <1>6, <1>7, <2>1, MayStay DEF Strengthens
<1>9. Extends(tab, tab')
  BY <1>1, <1>5, <1>6 DEF Extends
<1>10. WeakOK'
  <2>1. \A i \in 1 .. Len(tab.syms) : WeakOld(tab.syms[i], inputs - 1)
    BY DEF DefInv, WeakOK, Latest
  <2>2. \A i \in 1 .. Len(tab'.syms) : WeakOld(tab'.syms[i], inputs - 1)
    BY <1>4, <1>5, <1>6, <2>1 DEF WeakOld
  <2> QED BY <2>2 DEF WeakOK, Latest, WeakOld
<1>11. FirmOK'
  <2>1. \A i \in 1 .. Len(tab.syms) : Firm(tab.syms[i]) => Firm(tab'.syms[i])
    BY <1>4, <1>5, <1>6 DEF Firm
  <2>2. ~static => Firm(tab'.syms[c])
    BY <1>4, <1>5, <1>6 DEF Firm
  <2> QED BY <2>1, <2>2, UnitFirm
<1>12. ~static => e.bind = "global"
  BY <1>3, <1>4 DEF Elf32_Sym, Bind
<1> QED BY <1>3, <1>5, <1>6, <1>8, <1>9, <1>10, <1>11, <1>12

LEMMA UseDefs ==
  ASSUME DefInv, IInv', NEW n \in Name, NEW static \in BOOLEAN, Use(n, static)
  PROVE  StepOK
<1> DEFINE u == put_extern_sym2(n, static, "undef", 0)
           k == Number(n, static)
           d == IF unit[n].declared = "no" THEN "extern" ELSE unit[n].declared
<1>1. /\ phase = "unit" /\ phase' = "unit" /\ phase # "sorted" /\ DeclaredAs(n, static)
      /\ tab' = IF unit[n].c = 0 THEN u ELSE tab
      /\ Remembers(n, static, d, k)
      /\ inputs' = inputs /\ reported' = reported /\ given' = given
  BY DEF Use, Remembers
<1>2. IInv /\ Good(tab) /\ Extends(tab, tab)
  BY <1>1, UnitFacts DEF DefInv
<1> HIDE DEF d, u, k
<1>3. CASE unit[n].c = 0
  <2>1. "undef" \in Place /\ 0 \in Nat
    BY DEF Place
  <2>2. /\ Good(u) /\ Extends(tab, u) /\ Strengthens(tab, u)
        /\ \A i \in 1 .. Len(tab.syms) : Firm(tab.syms[i]) => Firm(u.syms[i])
        /\ Firm(u.syms[k])
        /\ \A i \in 1 .. Len(u.syms) : WeakOld(u.syms[i], inputs - 1)
    BY <1>1, <1>3, <2>1, UnitAdds DEF u, k
  <2>3. tab' = u
    BY <1>1, <1>3
  <2>4. WeakOK'
    BY <1>1, <2>2, <2>3 DEF WeakOK, Latest, WeakOld
  <2>5. FirmOK'
    BY <1>1, <2>2, <2>3, UnitFirm
  <2>6. GivenOK'
    BY <1>1, <2>2, <2>3, GivenKept
  <2> QED BY <2>2, <2>3, <2>4, <2>5, <2>6 DEF StepOK, Strengthened
<1>4. CASE unit[n].c # 0
  <2>1. tab' = tab /\ k = unit[n].c
    BY <1>1, <1>4 DEF k, Number
  <2>2. Strengthens(tab, tab')
    <3>1. \A i \in 1 .. Len(tab.syms) : tab.syms[i] \in Elf32_Sym
      BY <1>2, TableFacts DEF Good
    <3> QED BY <2>1, <3>1, MayStay DEF Strengthens
  <2>3. WeakOK'
    BY <1>1, <2>1 DEF DefInv, WeakOK, Latest, WeakOld
  <2>4. FirmOK'
    <3>1. ~static => Firm(tab.syms[k])
      BY <1>1, <1>2, <1>4, <2>1 DEF DefInv, FirmOK, DeclaredAs, IInv, UnitOK
    <3>2. \A i \in 1 .. Len(tab.syms) : Firm(tab.syms[i]) => Firm(tab'.syms[i])
      BY <2>1
    <3>3. ~static => Firm(tab'.syms[k])
      BY <2>1, <3>1
    <3> QED BY <1>1, <3>2, <3>3, UnitFirm
  <2>5. GivenOK'
    BY <1>1, <1>2, <2>1, <2>2, GivenKept
  <2> QED BY <2>2, <2>3, <2>4, <2>5 DEF StepOK, Strengthened
<1> QED BY <1>3, <1>4

\* DefineFunction and DefineVariable, apart from the place.
LEMMA DefineDefs ==
  ASSUME DefInv, IInv', phase = "unit", NEW n \in Name, NEW static \in BOOLEAN,
         DeclaredAs(n, static), NEW place \in {"text", "data"}, Untouched(unit[n].c),
         tab' = put_extern_sym2(n, static, place, inputs),
         Remembers(n, static, "yes", Number(n, static)), ReportAdded(n, static, place),
         inputs' = inputs, Give(Symbol(n, static, place, inputs)), phase' = phase
  PROVE  StepOK
<1> DEFINE s == Symbol(n, static, place, inputs)
           u == put_extern_sym2(n, static, place, inputs)
           k == Number(n, static)
<1>1. IInv /\ Good(tab) /\ inputs \in Nat \ {0} /\ phase # "sorted" /\ place \in Place
  BY UnitFacts DEF DefInv, Place
<1>u. Remembers(n, static, "yes", k)
  OBVIOUS
<1>2. CASE unit[n].c = 0
  <2>1. /\ s \in Elf32_Sym /\ s.name = n
        /\ u = add_elf_sym(tab, s)
        /\ Good(u) /\ Extends(tab, u) /\ Strengthens(tab, u)
        /\ \A i \in 1 .. Len(tab.syms) : Firm(tab.syms[i]) => Firm(u.syms[i])
        /\ Firm(u.syms[k])
        /\ \A i \in 1 .. Len(u.syms) : WeakOld(u.syms[i], inputs - 1)
    BY <1>1, <1>2, UnitAdds
  <2>2. s.value = inputs /\ Report(s) /\ Give(s) /\ tab' = u
    BY <1>2 DEF Symbol, ReportAdded
  <2> HIDE DEF s, u, k
  <2>3. WeakOK'
    BY <2>1, <2>2 DEF WeakOK, Latest, WeakOld
  <2>4. FirmOK'
    BY <1>u, <2>1, <2>2, UnitFirm
  <2>5. GivenOK'
    BY <1>1, <2>1, <2>2, GivenAdded
  <2> QED BY <2>1, <2>2, <2>3, <2>4, <2>5 DEF StepOK, Strengthened
<1>3. CASE unit[n].c # 0
  <2>1. PICK c \in Nat : c = unit[n].c /\ c # 0
    BY <1>1, <1>3 DEF IInv, TypeOK, Sym
  <2>2. /\ k = c /\ reported' = reported
        /\ tab' = [tab EXCEPT !.syms[c] = [@ EXCEPT !.shndx = place, !.value = inputs]]
    BY <2>1 DEF Number, put_extern_sym2, ReportAdded
  <2>3. Overwrites(c, place)
    BY <1>1, <2>2 DEF Good, TableType, Overwrites
  <2>4. MayOverwrite(c, place)
    BY <2>1 DEF Untouched, MayOverwrite
  <2> HIDE DEF k
  <2>5. /\ WeakOK' /\ FirmOK' /\ Strengthens(tab, tab') /\ Extends(tab, tab')
        /\ c \in 1 .. Len(tab'.syms) /\ tab'.syms[c].name = n
        /\ tab'.syms[c].shndx = place /\ tab'.syms[c].value = inputs
        /\ ~static => tab.syms[c].bind = "global" /\ tab'.syms[c].bind = "global"
    <3>1. place \in {"text", "data", "common"}
      OBVIOUS
    <3>2. Remembers(n, static, "yes", c)
      BY <1>u, <2>2
    <3> QED BY <2>1, <2>3, <2>4, <3>1, <3>2, UnitOverwrites
  <2>6. Good(tab')
    <3>1. GoodOK'
      BY GoodStays, PTL
    <3> QED BY <3>1 DEF GoodOK
  <2>7. CASE given' = given
    BY <1>1, <2>2, <2>5, <2>6, <2>7, GivenKept DEF StepOK, Strengthened
  <2>8. CASE given' # given
    <3>1. ~static /\ given' = [given EXCEPT ![n] = @ \cup {inputs}]
      BY <2>8 DEF Give, Symbol
    <3>2. ASSUME n \notin reported PROVE given[n] \in {{}, {inputs}}
      <4> SUFFICES ASSUME given[n] # {} PROVE given[n] = {inputs}
        OBVIOUS
      <4>1. PICK i \in 1 .. Len(tab.syms) :
              /\ tab.syms[i].name = n /\ tab.syms[i].bind = "global"
              /\ tab.syms[i].shndx \in Placed /\ given[n] = {tab.syms[i].value}
        BY <3>2 DEF DefInv, GivenOK, Holds
      <4>2. StandsFor(tab, c, n, static, inputs)
        BY <1>1, <2>1 DEF IInv, UnitOK, DeclaredAs
      <4>3. i = c
        BY <1>1, <3>1, <4>1, <4>2 DEF Good, NamesOnce, StandsFor
      <4> QED BY <2>4, <4>1, <4>3 DEF Placed, MayOverwrite
    <3>3. Holds(tab', n, {inputs})
      BY <2>5, <3>1 DEF Holds, Placed
    <3>4. ASSUME NEW m \in Name, given'[m] # {}, m \notin reported'
          PROVE  Holds(tab', m, given'[m])
      <4>1. given \in [Name -> SUBSET (1 .. MaxInputs)]
        BY <1>1 DEF IInv, TypeOK
      <4>2. CASE m = n
        <5>1. given'[m] = {inputs}
          BY <2>2, <3>1, <3>2, <3>4, <4>1, <4>2
        <5> QED BY <3>3, <4>2, <5>1
      <4>3. CASE m # n
        <5>1. given'[m] = given[m] /\ m \notin reported
          BY <2>2, <3>1, <3>4, <4>1, <4>3
        <5>2. Holds(tab, m, given[m])
          BY <3>4, <5>1 DEF DefInv, GivenOK
        <5> QED BY <1>1, <2>5, <2>6, <5>1, <5>2, HoldsStill
      <4> QED BY <4>2, <4>3
    <3>5. GivenOK'
      BY <3>4 DEF GivenOK, Holds
    <3> QED BY <2>5, <3>5 DEF StepOK, Strengthened
  <2> QED BY <2>7, <2>8
<1> QED BY <1>2, <1>3

LEMMA DefineTentativelyDefs ==
  ASSUME DefInv, IInv', "tentative" \notin Redefinitions,
         NEW n \in Name, NEW static \in BOOLEAN, DefineTentatively(n, static)
  PROVE  StepOK
<1> DEFINE u == put_extern_sym2(n, static, "undef", inputs)
           k == Number(n, static)
           s == Symbol(n, static, "undef", inputs)
<1>1. /\ phase = "unit" /\ phase' = phase /\ phase # "sorted" /\ DeclaredAs(n, static)
      /\ k \in DOMAIN tab.syms => tab.syms[k].shndx \in {"undef", "common"}
      /\ tab' = [u EXCEPT !.syms[k].shndx = "common"]
      /\ Remembers(n, static, "yes", k)
      /\ inputs' = inputs /\ reported' = reported /\ given' = given
  BY DEF DefineTentatively, Remembers
<1>2. /\ IInv /\ Good(tab) /\ inputs \in Nat \ {0} /\ "undef" \in Place
      /\ Len(tab.syms) \in Nat /\ DOMAIN tab.syms = 1 .. Len(tab.syms)
      /\ \A i \in 1 .. Len(tab.syms) : tab.syms[i] \in Elf32_Sym
  BY <1>1, UnitFacts, TableFacts DEF DefInv, Place, Good
<1>3. Good(tab')
  <2>1. GoodOK'
    BY GoodStays, PTL
  <2> QED BY <1>1, <2>1 DEF GoodOK
<1>4. CASE unit[n].c = 0
  <2>1. /\ s \in Elf32_Sym /\ s.name = n /\ s.bind # "weak" /\ s.shndx = "undef"
        /\ u = add_elf_sym(tab, s) /\ k = NumberOf(tab, s)
        /\ Good(u) /\ Extends(tab, u) /\ Strengthens(tab, u)
        /\ \A i \in 1 .. Len(tab.syms) : Firm(tab.syms[i]) => Firm(u.syms[i])
        /\ \A i \in 1 .. Len(u.syms) : WeakOld(u.syms[i], inputs - 1)
    BY <1>1, <1>2, <1>4, UnitAdds DEF Symbol
  <2>2. /\ k \in 1 .. Len(tab.syms) + 1
        /\ k # Len(tab.syms) + 1 => Len(u.syms) = Len(tab.syms) /\ u.syms[k] = Merged(tab.syms[k], s)
        /\ k = Len(tab.syms) + 1 => Len(u.syms) = Len(tab.syms) + 1 /\ u.syms[k] = s
    BY <1>2, <2>1, AddIs
  <2> HIDE DEF u, k, s
  <2>3. /\ u.syms \in Seq(Elf32_Sym) /\ k \in 1 .. Len(u.syms) /\ u.syms[k] \in Elf32_Sym
        /\ Len(u.syms) \in Nat
    BY <1>2, <2>1, <2>2, TableFacts DEF Good
  <2>4. /\ Len(tab'.syms) = Len(u.syms)
        /\ tab'.syms[k] = [u.syms[k] EXCEPT !.shndx = "common"]
        /\ \A i \in 1 .. Len(u.syms) : i # k => tab'.syms[i] = u.syms[i]
    <3>1. PICK e \in Elf32_Sym : e = [u.syms[k] EXCEPT !.shndx = "common"]
      BY <2>3 DEF Elf32_Sym, Place
    <3>2. tab' = [u EXCEPT !.syms = [u.syms EXCEPT ![k] = e]]
      BY <1>1, <3>1
    <3>3. tab'.syms = [u.syms EXCEPT ![k] = e]
      BY <2>1, <3>2 DEF Good, TableType
    <3> QED BY <2>3, <3>1, <3>3
  <2>5. /\ tab'.syms[k].name = u.syms[k].name /\ tab'.syms[k].bind = u.syms[k].bind
        /\ tab'.syms[k].from = u.syms[k].from /\ tab'.syms[k].shndx = "common"
        /\ u.syms[k].shndx = "common" => tab'.syms[k] = u.syms[k]
    BY <2>3, <2>4 DEF Elf32_Sym
  <2>6. ASSUME k \in 1 .. Len(tab.syms)
        PROVE  IF tab.syms[k].shndx = "undef" THEN u.syms[k] = s
               ELSE tab.syms[k].shndx = "common" /\ u.syms[k].shndx = "common"
                    /\ u.syms[k].bind = tab.syms[k].bind
    <3>1. PICK e \in Elf32_Sym : e = tab.syms[k]
      BY <1>2, <2>6
    <3>2. u.syms[k] = Merged(e, s) /\ e.shndx \in {"undef", "common"}
      BY <1>1, <1>2, <2>2, <2>6, <3>1
    <3>3. CASE e.shndx = "undef"
      BY <3>1, <3>2, <3>3 DEF Merged
    <3>4. CASE e.shndx = "common"
      <4>1. Merged(e, s) = [e EXCEPT !.vis = Constrained(e.vis, s.vis)]
        BY <2>1, <3>4 DEF Merged
      <4> QED BY <3>1, <3>2, <3>4, <4>1 DEF Elf32_Sym
    <3> QED BY <3>2, <3>3, <3>4
  <2>7. u.syms[k].bind # "weak"
    <3>1. CASE k \in 1 .. Len(tab.syms)
      <4>1. WeakOld(tab.syms[k], inputs - 1)
        BY <1>1, <3>1 DEF DefInv, WeakOK, Latest
      <4> QED BY <2>1, <2>6, <3>1, <4>1 DEF WeakOld
    <3>2. CASE k \notin 1 .. Len(tab.syms)
      <4>1. k = Len(tab.syms) + 1
        BY <1>2, <2>2, <3>2
      <4> QED BY <2>1, <2>2, <4>1
    <3> QED BY <3>1, <3>2
  <2>8. Strengthens(tab, tab')
    <3> SUFFICES ASSUME NEW i \in 1 .. Len(tab.syms) PROVE MayBecome(tab.syms[i], tab'.syms[i])
      BY DEF Strengthens
    <3>1. i \in 1 .. Len(u.syms) /\ MayBecome(tab.syms[i], u.syms[i])
      BY <1>2, <2>1, <2>3 DEF Extends, Strengthens
    <3>2. CASE i # k
      BY <2>4, <3>1, <3>2
    <3>3. CASE i = k /\ tab.syms[i].shndx = "undef"
      <4>1. ~(Strength(tab.syms[i]) > 0)
        BY <3>3 DEF Strength
      <4> QED BY <4>1 DEF MayBecome
    <3>4. CASE i = k /\ tab.syms[i].shndx # "undef"
      BY <2>5, <2>6, <3>1, <3>4
    <3> QED BY <3>2, <3>3, <3>4
  <2>9. Extends(tab, tab')
    <3>1. Extends(u, tab')
      <4>1. \A i \in 1 .. Len(u.syms) :
              /\ tab'.syms[i].name = u.syms[i].name /\ tab'.syms[i].bind = u.syms[i].bind
              /\ tab'.syms[i].from = u.syms[i].from
        BY <2>4, <2>5
      <4>2. Len(u.syms) <= Len(tab'.syms)
        BY <2>3, <2>4
      <4> QED BY <4>1, <4>2 DEF Extends
    <3> QED BY <1>2, <2>1, <2>3, <2>4, <3>1 DEF Extends
  <2>10. WeakOK'
    <3>1. ASSUME NEW i \in 1 .. Len(tab'.syms) PROVE WeakOld(tab'.syms[i], inputs - 1)
      <4>1. CASE i = k
        BY <2>5, <2>7, <4>1 DEF WeakOld
      <4>2. CASE i # k
        BY <2>1, <2>4, <4>2
      <4> QED BY <4>1, <4>2
    <3> QED BY <1>1, <3>1 DEF WeakOK, Latest, WeakOld
  <2>11. FirmOK'
    <3>1. \A i \in 1 .. Len(tab.syms) : i \in 1 .. Len(u.syms)
      BY <1>2, <2>1, <2>3 DEF Extends
    <3>2. \A i \in 1 .. Len(tab.syms) : Firm(tab.syms[i]) => Firm(tab'.syms[i])
      BY <2>1, <2>4, <2>5, <3>1 DEF Firm
    <3>3. Firm(tab'.syms[k])
      BY <2>5 DEF Firm
    <3> QED BY <1>1, <3>2, <3>3, UnitFirm
  <2>12. GivenOK'
    BY <1>1, <1>3, <2>8, <2>9, GivenKept
  <2> QED BY <2>8, <2>10, <2>11, <2>12 DEF StepOK, Strengthened
<1>5. CASE unit[n].c # 0
  <2>1. PICK c \in Nat : c = unit[n].c /\ c # 0
    BY <1>2, <1>5 DEF IInv, TypeOK, Sym
  <2>2. StandsFor(tab, c, n, static, inputs)
    BY <1>1, <1>2, <2>1 DEF IInv, UnitOK, DeclaredAs
  <2>3. /\ k = c /\ c \in 1 .. Len(tab.syms)
        /\ u = [tab EXCEPT !.syms[c] = [@ EXCEPT !.shndx = "undef", !.value = inputs]]
    BY <2>1, <2>2 DEF Number, put_extern_sym2, StandsFor
  <2> HIDE DEF u, k
  <2>4. u.syms = [tab.syms EXCEPT ![c] = [@ EXCEPT !.shndx = "undef", !.value = inputs]]
    BY <1>2, <2>3 DEF Good, TableType
  <2>5. tab'.syms = [u.syms EXCEPT ![c] = [@ EXCEPT !.shndx = "common"]]
    BY <1>1, <1>2, <2>3 DEF Good, TableType
  <2>6. PICK e \in Elf32_Sym : e = tab.syms[c]
    BY <1>2, <2>3
  <2>7. /\ u.syms = [tab.syms EXCEPT ![c] = [e EXCEPT !.shndx = "undef", !.value = inputs]]
        /\ u.syms[c] = [e EXCEPT !.shndx = "undef", !.value = inputs]
    BY <1>2, <2>3, <2>4, <2>6
  <2>8. [[e EXCEPT !.shndx = "undef", !.value = inputs] EXCEPT !.shndx = "common"]
          = [e EXCEPT !.shndx = "common", !.value = inputs]
    BY DEF Elf32_Sym
  <2>9. tab'.syms = [tab.syms EXCEPT ![c] = [e EXCEPT !.shndx = "common", !.value = inputs]]
    <3> DEFINE a == [e EXCEPT !.shndx = "undef", !.value = inputs]
               b == [e EXCEPT !.shndx = "common", !.value = inputs]
    <3>1. u.syms = [tab.syms EXCEPT ![c] = a] /\ [a EXCEPT !.shndx = "common"] = b
      BY <2>7, <2>8
    <3>2. tab'.syms = [u.syms EXCEPT ![c] = [u.syms[c] EXCEPT !.shndx = "common"]] /\ u.syms[c] = a
      BY <2>5, <2>7
    <3> HIDE DEF a, b
    <3>3. tab'.syms = [[tab.syms EXCEPT ![c] = a] EXCEPT ![c] = b]
      BY <3>1, <3>2
    <3>4. tab'.syms = [tab.syms EXCEPT ![c] = b]
      BY <3>3
    <3> QED BY <3>4 DEF b
  <2>10. Overwrites(c, "common") /\ MayOverwrite(c, "common") /\ Remembers(n, static, "yes", c)
    BY <1>1, <1>2, <2>3, <2>6, <2>9 DEF Overwrites, MayOverwrite
  <2>11. WeakOK' /\ FirmOK' /\ Strengthens(tab, tab') /\ Extends(tab, tab')
    <3>1. "common" \in {"text", "data", "common"}
      OBVIOUS
    <3> QED BY <1>1, <2>1, <2>10, <3>1, UnitOverwrites
  <2>12. GivenOK'
    BY <1>1, <1>3, <2>11, GivenKept
  <2> QED BY <2>11, <2>12 DEF StepOK, Strengthened
<1> QED BY <1>4, <1>5

(***************************************************************************)
(* Other steps                                                             *)
(***************************************************************************)
LEMMA WeakThrough ==
  ASSUME WeakOK, phase # "sorted", inputs \in Nat, NEW top \in {inputs, inputs + 1}
  PROVE  \A i \in 1 .. Len(tab.syms) :
           tab.syms[i] \in Elf32_Sym => WeakOld(tab.syms[i], top)
BY DEF WeakOK, Latest, WeakOld, Elf32_Sym

\* A step that leaves the table alone, or gives a common symbol its place.
LEMMA TableRests ==
  ASSUME DefInv, IInv', phase # "sorted", phase' # "sorted", given' = given,
         reported' = reported,
         Len(tab'.syms) = Len(tab.syms),
         \A i \in 1 .. Len(tab.syms) :
           \/ tab'.syms[i] = tab.syms[i]
           \/ tab.syms[i].shndx = "common" /\ tab'.syms[i] = [tab.syms[i] EXCEPT !.shndx = "bss"],
         unit' = NoSyms, phase' # "unit", inputs' \in {inputs, inputs + 1}
  PROVE  StepOK
<1>1. IInv /\ Good(tab) /\ inputs \in Nat
  BY GoodNow DEF DefInv, IInv, TypeOK
<1>2. Good(tab')
  <2>1. GoodOK'
    BY GoodStays, PTL
  <2> QED BY <2>1 DEF GoodOK
<1>3. \A i \in 1 .. Len(tab.syms) : tab.syms[i] \in Elf32_Sym /\ WeakOld(tab.syms[i], inputs')
  BY <1>1, TableFacts, WeakThrough DEF Good, DefInv
<1>4. ASSUME NEW e \in Elf32_Sym, WeakOld(e, inputs'), NEW f,
             f = e \/ (e.shndx = "common" /\ f = [e EXCEPT !.shndx = "bss"])
      PROVE  /\ MayBecome(e, f) /\ WeakOld(f, inputs')
             /\ f.name = e.name /\ f.bind = e.bind /\ f.from = e.from
  <2>1. CASE f = e
    BY <1>4, <2>1, MayStay
  <2>2. CASE e.shndx = "common" /\ f = [e EXCEPT !.shndx = "bss"]
    <3>1. /\ f \in Elf32_Sym /\ f.shndx = "bss" /\ f.name = e.name /\ f.bind = e.bind
          /\ f.from = e.from /\ f.vis = e.vis /\ e.bind # "weak"
      BY <1>4, <2>2 DEF Elf32_Sym, Place, WeakOld
    <3>2. Strength(e) = 2 /\ Strength(f) = 2
      BY <2>2, <3>1, StrengthIs
    <3>3. Exposure(f.vis) <= Exposure(e.vis)
      BY <3>1 DEF Exposure, Elf32_Sym, Visibility, Default, Protected
    <3> QED BY <3>1, <3>2, <3>3 DEF MayBecome, WeakOld
  <2> QED BY <1>4, <2>1, <2>2
<1>5. \A i \in 1 .. Len(tab.syms) :
        /\ MayBecome(tab.syms[i], tab'.syms[i]) /\ WeakOld(tab'.syms[i], inputs')
        /\ tab'.syms[i].name = tab.syms[i].name /\ tab'.syms[i].bind = tab.syms[i].bind
        /\ tab'.syms[i].from = tab.syms[i].from
  BY <1>3, <1>4
<1>6. Strengthens(tab, tab')
  BY <1>5 DEF Strengthens
<1>7. Extends(tab, tab')
  <2>1. Len(tab.syms) \in Nat
    BY <1>1, TableFacts DEF Good
  <2> QED BY <1>5, <2>1 DEF Extends
<1>8. WeakOK'
  BY <1>5 DEF WeakOK, Latest, WeakOld
<1>9. FirmOK'
  BY DEF FirmOK, NoSyms
<1>10. GivenOK'
  BY <1>1, <1>2, <1>6, <1>7, GivenKept
<1> QED BY <1>6, <1>8, <1>9, <1>10 DEF StepOK, Strengthened

\* A step outside units that enters symbol s.
LEMMA TableGrows ==
  ASSUME DefInv, phase # "sorted", phase' # "sorted", phase' # "unit",
         inputs' \in {inputs, inputs + 1}, unit' = NoSyms,
         NEW s \in Elf32_Sym, s.name \in Name, s.value = inputs' \/ s.shndx = "undef",
         s.bind = "weak" => s.value <= inputs' /\ s.shndx \notin {"common", "bss"},
         tab' = add_elf_sym(tab, s), Report(s), Give(s)
  PROVE  StepOK
<1>1. IInv /\ Good(tab) /\ inputs \in Nat
  BY GoodNow DEF DefInv, IInv, TypeOK
<1>2. \A i \in 1 .. Len(tab.syms) : tab.syms[i] \in Elf32_Sym /\ WeakOld(tab.syms[i], inputs')
  BY <1>1, TableFacts, WeakThrough DEF Good, DefInv
<1>3. WeakOld(s, inputs')
  BY DEF WeakOld
<1>4. /\ Strengthens(tab, tab')
      /\ \A i \in 1 .. Len(tab'.syms) : WeakOld(tab'.syms[i], inputs')
  BY <1>1, <1>2, <1>3, AddStrengthens
<1>5. WeakOK'
  BY <1>4 DEF WeakOK, Latest, WeakOld
<1>6. FirmOK'
  BY DEF FirmOK, NoSyms
<1>7. GivenOK'
  BY <1>1, GivenAdded DEF Placed
<1> QED BY <1>4, <1>5, <1>6, <1>7 DEF StepOK, Strengthened

LEMMA StartUnitDefs ==
  ASSUME DefInv, IInv', StartUnit
  PROVE  StepOK
<1> DEFINE s == [name |-> FileName, bind |-> "local", vis |-> Default,
                 shndx |-> "abs", value |-> 0, from |-> inputs']
<1>1. /\ phase = "between" /\ phase # "sorted" /\ phase' = "unit"
      /\ inputs' = inputs + 1 /\ tab' = put_elf_sym(tab, s)
      /\ unit' = unit /\ reported' = reported /\ given' = given
  BY DEF StartUnit
<1>2. IInv /\ Good(tab) /\ inputs \in Nat /\ unit = NoSyms
  BY <1>1, GoodNow DEF DefInv, IInv, TypeOK, IdleOK
<1>3. s \in Elf32_Sym /\ s.bind = "local"
  BY <1>1, <1>2 DEF Elf32_Sym, SymName, Bind, Place, Default, Visibility, Protected
<1>4. tab' = add_elf_sym(tab, s)
  BY <1>1 DEF add_elf_sym, Existing
<1> HIDE DEF s
<1>5. Good(tab') /\ Extends(tab, tab')
  BY <1>2, <1>3, <1>4, AddGood
<1>6. /\ Strengthens(tab, tab')
      /\ \A i \in 1 .. Len(tab'.syms) : WeakOld(tab'.syms[i], inputs)
  <2>1. \A i \in 1 .. Len(tab.syms) : WeakOld(tab.syms[i], inputs)
    BY <1>1, <1>2, TableFacts, WeakThrough DEF Good, DefInv
  <2>2. WeakOld(s, inputs)
    BY <1>3 DEF WeakOld
  <2> QED BY <1>2, <1>3, <1>4, <2>1, <2>2, AddStrengthens
<1>7. WeakOK'
  <2>1. inputs' - 1 = inputs
    BY <1>1, <1>2
  <2> QED BY <1>1, <1>6, <2>1 DEF WeakOK, Latest, WeakOld
<1>8. FirmOK'
  BY <1>1, <1>2 DEF FirmOK, NoSyms
<1>9. GivenOK'
  BY <1>1, <1>5, <1>6, GivenKept
<1> QED BY <1>6, <1>7, <1>8, <1>9 DEF StepOK, Strengthened

LEMMA AddObjectSymbolDefs ==
  ASSUME CommonsAreStrong, DefInv, AddObjectSymbol
  PROVE  StepOK
<1> DEFINE k == Len(loading.map) + 1
           o == loading.object.syms[k]
           s == Renumbered(k)
<1>1. /\ phase = "object" /\ phase # "sorted" /\ phase' = "object"
      /\ k <= Len(loading.object.syms)
      /\ tab' = add_elf_sym(tab, s)
      /\ Report(s) /\ inputs' = inputs /\ Give(s) /\ unit' = unit
  BY DEF AddObjectSymbol
<1>2. /\ inputs \in Nat \ {0} /\ unit = NoSyms
      /\ loading.object.syms \in Seq(ObjectSym)
      /\ DOMAIN loading.object.syms = 1 .. Len(loading.object.syms)
      /\ loading.map \in Seq(Nat) /\ Len(loading.map) \in Nat
  BY <1>1, ObjectFacts DEF DefInv
<1>3. k \in DOMAIN loading.object.syms /\ o \in ObjectSym
  BY <1>1, <1>2, ElementOfSeq
<1>4. /\ s \in Elf32_Sym /\ s.name \in Name /\ s.bind = o.bind /\ s.shndx = o.shndx
      /\ s.value = IF o.shndx = "undef" THEN 0 ELSE inputs
  BY <1>2, <1>3 DEF Renumbered, ObjectSym, Elf32_Sym, SymName, Place
<1>5. s.bind = "weak" => s.value <= inputs /\ s.shndx \notin {"common", "bss"}
  BY <1>1, <1>2, <1>3, <1>4 DEF CommonsAreStrong, ObjectSym, DefInv, LoadedOK
<1> HIDE DEF s
<1> QED BY <1>1, <1>2, <1>4, <1>5, TableGrows

LEMMA AddSymbolDefs ==
  ASSUME DefInv, NEW n \in Name, tcc_add_symbol(n)
  PROVE  StepOK
<1> DEFINE s == [name |-> n, bind |-> "global", vis |-> Default, shndx |-> "abs",
                 value |-> inputs + 1, from |-> inputs + 1]
<1>1. /\ phase = "between" /\ phase # "sorted" /\ phase' = "between"
      /\ inputs' = inputs + 1
      /\ tab' = add_elf_sym(tab, s) /\ Report(s) /\ Give(s) /\ unit' = unit
  BY DEF tcc_add_symbol
<1>2. inputs \in Nat /\ unit = NoSyms
  BY <1>1 DEF DefInv, IInv, TypeOK, IdleOK
<1>3. s \in Elf32_Sym /\ s.name \in Name /\ s.value = inputs' /\ s.bind = "global"
  BY <1>1, <1>2 DEF Elf32_Sym, SymName, Bind, Place, Default, Visibility, Protected
<1> HIDE DEF s
<1> QED BY <1>1, <1>2, <1>3, TableGrows

\* The sort moves entries, and with them what they hold.
LEMMA SortDefs ==
  ASSUME DefInv, sort_syms
  PROVE  StepOK
<1> DEFINE n == Len(tab.syms)
           old(k) == CHOOSE i \in 1 .. n : OldToNew(i) = k
           new == [k \in 1 .. n |-> tab.syms[old(k)]]
<1>1. /\ phase \in {"between", "linked"} /\ phase # "sorted" /\ phase' = "sorted"
      /\ unit' = unit /\ reported' = reported /\ given' = given
  BY DEF sort_syms
<1>2. /\ IInv /\ Good(tab) /\ tab.syms \in Seq(Elf32_Sym) /\ n \in Nat
      /\ DOMAIN tab.syms = 1 .. n /\ unit = NoSyms
  BY <1>1, GoodNow, TableFacts DEF Good, DefInv, IInv, IdleOK
<1>3. tab'.syms = new
  BY <1>2 DEF sort_syms, Good, TableType
<1>4. \A i \in 1 .. n : OldToNew(i) \in 1 .. n /\ old(OldToNew(i)) = i
  <2> TAKE i \in 1 .. n
  <2>1. OldToNew(i) \in 1 .. n
    BY <1>2, OldToNewInRange
  <2>2. \A k \in 1 .. n : old(k) \in 1 .. n /\ OldToNew(old(k)) = k
    BY <1>2, OldToNewOnto
  <2>3. old(OldToNew(i)) \in 1 .. n /\ OldToNew(old(OldToNew(i))) = OldToNew(i)
    BY <2>1, <2>2
  <2> HIDE DEF old
  <2> QED BY <1>2, <2>1, <2>3, OldToNewOnto
<1> HIDE DEF old
<1>5. \A i \in 1 .. n : new[OldToNew(i)] = tab.syms[i]
  BY <1>4
<1>6. 1 .. Len(new) = 1 .. n
  <2>1. new \in Seq(Elf32_Sym)
    <3>1. IInv'
      BY <1>2, SortStep
    <3>2. (tab \in Table)'
      BY <3>1 DEF IInv, TypeOK
    <3> QED BY <1>3, <3>2 DEF Table
  <2>2. DOMAIN new = 1 .. n
    OBVIOUS
  <2> HIDE DEF new
  <2> QED BY <2>1, <2>2, LenProperties
<1>7. ASSUME NEW m \in Name, given[m] # {}, m \notin reported
      PROVE  Holds(tab', m, given[m])
  <2>1. PICK i \in 1 .. n :
          /\ tab.syms[i].name = m /\ tab.syms[i].bind = "global"
          /\ tab.syms[i].shndx \in Placed /\ given[m] = {tab.syms[i].value}
    BY <1>7 DEF DefInv, GivenOK, Holds
  <2>2. PICK k \in 1 .. Len(tab'.syms) : tab'.syms[k] = tab.syms[i]
    <3> HIDE DEF new, n
    <3> QED BY <1>3, <1>4, <1>5, <1>6
  <2> QED BY <2>1, <2>2 DEF Holds
<1>8. GivenOK'
  BY <1>1, <1>7 DEF GivenOK, Holds
<1>9. WeakOK' /\ FirmOK' /\ Strengthened
  BY <1>1, <1>2 DEF WeakOK, FirmOK, NoSyms, Strengthened
<1> QED BY <1>8, <1>9 DEF StepOK

(***************************************************************************)
(* Theorems                                                                *)
(***************************************************************************)
LEMMA NextDefs ==
  ASSUME Redefinitions = {}, CommonsAreStrong, DefInv, IInv', Next
  PROVE  StepOK /\ LoadedOK'
<1>g. IInv /\ (phase # "sorted" => Good(tab))
  BY GoodNow DEF DefInv
<1>1. ASSUME NEW n \in Name, NEW static \in BOOLEAN, Use(n, static)
      PROVE  StepOK /\ LoadedOK'
  <2>1. LoadedOK'
    BY <1>1 DEF Use, LoadedOK
  <2> QED BY <1>1, <2>1, UseDefs
<1>2. ASSUME NEW n \in Name, NEW static \in BOOLEAN,
             DefineFunction(n, static) \/ DefineVariable(n, static)
      PROVE  StepOK /\ LoadedOK'
  <2>1. PICK place \in {"text", "data"} :
          /\ phase = "unit" /\ DeclaredAs(n, static) /\ Untouched(unit[n].c)
          /\ tab' = put_extern_sym2(n, static, place, inputs)
          /\ Remembers(n, static, "yes", Number(n, static))
          /\ ReportAdded(n, static, place)
          /\ inputs' = inputs /\ Give(Symbol(n, static, place, inputs)) /\ phase' = phase
    BY <1>2 DEF DefineFunction, DefineVariable, Remembers
  <2>2. LoadedOK'
    BY <2>1 DEF LoadedOK
  <2> QED BY <2>1, <2>2, DefineDefs
<1>3. ASSUME NEW n \in Name, NEW static \in BOOLEAN, DefineTentatively(n, static)
      PROVE  StepOK /\ LoadedOK'
  <2>1. LoadedOK'
    BY <1>3 DEF DefineTentatively, LoadedOK
  <2> QED BY <1>3, <2>1, DefineTentativelyDefs
<1>4. CASE StartUnit
  <2>1. LoadedOK'
    BY <1>4 DEF StartUnit, LoadedOK
  <2> QED BY <1>4, <2>1, StartUnitDefs
<1>5. ASSUME tab' = tab, phase # "sorted", phase' # "sorted", phase' # "unit", given' = given,
             reported' = reported, unit' = NoSyms, inputs' \in {inputs, inputs + 1}
      PROVE  StepOK
  BY <1>5, TableRests
<1>6. CASE EndUnit
  <2>1. /\ tab' = tab /\ phase = "unit" /\ phase' = "between" /\ unit' = NoSyms
        /\ given' = given /\ reported' = reported /\ inputs' = inputs
    BY <1>6 DEF EndUnit
  <2> QED BY <1>5, <2>1 DEF LoadedOK
<1>7. CASE \E o \in Objects : StartObject(o)
  <2>1. /\ tab' = tab /\ phase = "between" /\ phase' = "object" /\ unit' = NoSyms
        /\ given' = given /\ reported' = reported /\ inputs' = inputs + 1
        /\ loading'.object \in Objects
    BY <1>7, <1>g DEF StartObject, IInv, IdleOK
  <2> QED BY <1>5, <2>1 DEF LoadedOK
<1>8. CASE AddObjectSymbol
  <2>1. phase = "object" /\ loading'.object = loading.object
    BY <1>8, <1>g DEF AddObjectSymbol, IInv, TypeOK
  <2> QED BY <1>8, <2>1, AddObjectSymbolDefs DEF LoadedOK, DefInv
<1>9. CASE EndObject
  <2>1. /\ tab' = tab /\ phase = "object" /\ phase' = "between" /\ unit' = NoSyms
        /\ given' = given /\ reported' = reported /\ inputs' = inputs
    BY <1>9, <1>g DEF EndObject, IInv, IdleOK
  <2> QED BY <1>5, <2>1 DEF LoadedOK
<1>10. CASE \E n \in Name : tcc_add_symbol(n)
  <2>1. LoadedOK'
    BY <1>10 DEF tcc_add_symbol, LoadedOK
  <2> QED BY <1>10, <2>1, AddSymbolDefs
<1>11. CASE relocate_common_syms
  <2>1. /\ phase = "between" /\ phase # "sorted" /\ phase' = "linked" /\ unit' = NoSyms
        /\ given' = given /\ reported' = reported /\ inputs' = inputs
        /\ tab' = [tab EXCEPT !.syms =
                     [i \in DOMAIN @ |-> IF @[i].shndx = "common"
                                         THEN [@[i] EXCEPT !.shndx = "bss"] ELSE @[i]]]
    BY <1>11, <1>g DEF relocate_common_syms, IInv, IdleOK
  <2>2. DOMAIN tab.syms = 1 .. Len(tab.syms) /\ Len(tab.syms) \in Nat
    BY <1>g, <2>1, TableFacts DEF Good
  <2>3. tab'.syms = [i \in 1 .. Len(tab.syms) |->
                       IF tab.syms[i].shndx = "common"
                       THEN [tab.syms[i] EXCEPT !.shndx = "bss"] ELSE tab.syms[i]]
    BY <1>g, <2>1, <2>2 DEF Good, TableType
  <2>4. Len(tab'.syms) = Len(tab.syms)
    <3>1. (tab \in Table)'
      BY DEF IInv, TypeOK
    <3>2. tab'.syms \in Seq(Elf32_Sym) /\ DOMAIN tab'.syms = 1 .. Len(tab.syms)
      BY <2>3, <3>1 DEF Table
    <3> QED BY <2>2, <3>2, LenProperties
  <2>5. \A i \in 1 .. Len(tab.syms) :
          \/ tab'.syms[i] = tab.syms[i]
          \/ tab.syms[i].shndx = "common" /\ tab'.syms[i] = [tab.syms[i] EXCEPT !.shndx = "bss"]
    BY <2>3
  <2>6. phase' # "sorted" /\ phase' # "unit" /\ inputs' \in {inputs, inputs + 1}
    BY <2>1
  <2> QED BY <2>1, <2>4, <2>5, <2>6, TableRests DEF LoadedOK
<1>12. CASE sort_syms
  BY <1>12, SortDefs DEF sort_syms, LoadedOK
<1>13. ASSUME NEW n \in Function \cup Variable, NEW static \in BOOLEAN,
              \/ Use(n, static)
              \/ DefineFunction(n, static)
              \/ DefineVariable(n, static)
              \/ DefineTentatively(n, static)
       PROVE  StepOK /\ LoadedOK'
  <2>1. n \in Name
    BY DEF Name
  <2> QED BY <1>1, <1>2, <1>3, <1>13, <2>1
<1> QED BY <1>4, <1>6, <1>7, <1>8, <1>9, <1>10, <1>11, <1>12, <1>13 DEF Next

LEMMA InitDefs == Init => DefInv
<1> SUFFICES ASSUME Init PROVE DefInv
  OBVIOUS
<1>1. IInv
  BY InitOK
<1>2. tab.syms = <<>> /\ given = [n \in Name |-> {}] /\ unit = NoSyms /\ phase = "between"
  BY DEF Init
<1>3. 1 .. Len(tab.syms) = {}
  BY <1>2
<1> QED BY <1>1, <1>2, <1>3 DEF DefInv, WeakOK, FirmOK, GivenOK, LoadedOK, NoSyms

LEMMA DefsInvariant ==
  ASSUME Redefinitions = {}, CommonsAreStrong
  PROVE  DefInv /\ [Next]_vars => DefInv'
<1> SUFFICES ASSUME DefInv, [Next]_vars PROVE DefInv'
  OBVIOUS
<1>1. IInv'
  BY NextOK DEF DefInv
<1>2. CASE Next
  BY <1>1, <1>2, NextDefs DEF DefInv, StepOK
<1>3. CASE UNCHANGED vars
  <2>1. /\ tab' = tab /\ unit' = unit /\ loading' = loading
        /\ phase' = phase /\ inputs' = inputs /\ reported' = reported /\ given' = given
    BY <1>3 DEF vars
  <2>2. WeakOK' /\ FirmOK' /\ GivenOK' /\ LoadedOK'
    BY <2>1 DEF DefInv, WeakOK, FirmOK, GivenOK, LoadedOK, Latest, WeakOld, Firm, Holds
  <2> QED BY <1>1, <2>2 DEF DefInv
<1> QED BY <1>2, <1>3

\* Whatever units, objects and added symbols define, in any order: a name
\* that is not reported has one defining input, and its entry holds that
\* definition.  Left out are a tentative definition after another input's
\* definition and a definition of what the unit has already used as another's
\* (put_extern_sym2 then overwrites the entry without a look, and the property
\* fails: run elf_tentative), and objects with weak common symbols.
THEOREM StrongDefinitionsWin ==
  ASSUME Redefinitions = {}, CommonsAreStrong
  PROVE  Spec => []StrongDefinitionWins
<1>1. DefInv => StrongDefinitionWins
  <2> SUFFICES ASSUME DefInv, NEW n \in Name, given[n] # {}, n \notin reported
               PROVE  \E i \in Entries(n) : /\ tab.syms[i].shndx \in {"abs", "text", "data"}
                                            /\ given[n] = {tab.syms[i].value}
    BY DEF StrongDefinitionWins
  <2>1. PICK i \in 1 .. Len(tab.syms) :
          /\ tab.syms[i].name = n /\ tab.syms[i].bind = "global"
          /\ tab.syms[i].shndx \in Placed /\ given[n] = {tab.syms[i].value}
    BY DEF DefInv, GivenOK, Holds
  <2>2. DOMAIN tab.syms = 1 .. Len(tab.syms)
    BY DEF DefInv, IInv, TypeOK, Table
  <2> QED BY <2>1, <2>2 DEF Entries, Placed
<1> QED BY <1>1, InitDefs, DefsInvariant, PTL DEF Spec

\* A name that is defined stays defined, its definition only gives way to a
\* stronger one, and its visibility only becomes more constrained.
THEOREM OnlyStrongerTakesOver ==
  ASSUME Redefinitions = {}, CommonsAreStrong
  PROVE  Spec => DefinitionsOnlyStrengthen
<1> DEFINE Step == phase' # "sorted" =>
             \A i \in DOMAIN tab.syms :
               LET e == tab.syms[i]
                   f == tab'.syms[i]
               IN  e.bind # "local" /\ Strength(e) > 0 =>
                     /\ f.name = e.name
                     /\ Exposure(f.vis) <= Exposure(e.vis)
                     /\ Strength(f) >= Strength(e)
                     /\ Strength(f) = Strength(e) /\ Strength(e) \in {1, 3} => f.value = e.value
<1>1. DefInv /\ DefInv' /\ [Next]_vars => [Step]_vars
  <2> SUFFICES ASSUME DefInv, DefInv', Next PROVE Step
    OBVIOUS
  <2>1. Strengthened
    BY NextDefs DEF DefInv, StepOK
  <2>2. DOMAIN tab.syms = 1 .. Len(tab.syms)
    BY DEF DefInv, IInv, TypeOK, Table
  <2> QED BY <2>1, <2>2 DEF Strengthened, Strengthens, MayBecome
<1>2. Spec => [][Step]_vars
  <2> HIDE DEF Step
  <2> QED BY <1>1, InitDefs, DefsInvariant, PTL DEF Spec
<1> QED BY <1>2 DEF DefinitionsOnlyStrengthen
=============================================================================

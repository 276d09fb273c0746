--------------------------- MODULE SymScopesProofs ---------------------------
(***************************************************************************)
(* Proofs about SymScopes, for every set of names, every pool size and     *)
(* every bound.  Both pushes insert one fresh Sym into Order, at the end   *)
(* (sym_push) or at the end of file scope (global_identifier_push); both   *)
(* pops cut Order to a prefix.  The lemmas say what an insertion and a cut *)
(* preserve, and the theorems apply them action by action.                 *)
(***************************************************************************)
EXTENDS SymScopes, NaturalExtrema, SequenceTheorems

\* Syms in use and Syms on the free list all came from xmalloc.
PoolOK ==
  /\ \A i \in 1 .. Depth : Order[i] \in 1 .. pooled
  /\ \A i \in DOMAIN free : free[i] \in 1 .. pooled

\* The blocks' records of local_stack: inside it, the inner ones higher.
MarksOK ==
  /\ phase # "body" => marks = <<>>
  /\ \A i \in DOMAIN marks : marks[i].pos \in 0 .. Len(local_stack)
  /\ \A i, j \in DOMAIN marks : i <= j => marks[i].pos <= marks[j].pos

\* ... and their records of the expression stack.
BasesOK ==
  /\ \A i \in DOMAIN marks : marks[i].base \in 0 .. Len(vstack)
  /\ \A i, j \in DOMAIN marks : i <= j => marks[i].base <= marks[j].base

\* What each phase says of the stacks; true only while no compilation starts
\* over what a failed one left behind.
PhaseOK ==
  /\ phase = "idle" => global_stack = <<>>
  /\ phase \in {"idle", "file", "proto"} => local_stack = <<>>

\* The part of TypeOK that the pushes and pops establish.
HeapType ==
  /\ free \in Seq(Sym)
  /\ pooled \in 0 .. MaxSyms
  /\ cell \in [Sym -> Contents]
  /\ global_stack \in Seq(Sym)
  /\ local_stack \in Seq(Sym)
  /\ sym_identifier \in [Name -> Sym \cup {NULL}]
  /\ decls \in 0 .. MaxDecls

\* The Sym m is put at position p of Order.
InsertedAt(p, m) ==
  /\ Depth' = Depth + 1
  /\ \A i \in 1 .. Depth + 1 :
       Order'[i] = IF i < p THEN Order[i] ELSE IF i = p THEN m ELSE Order[i - 1]

LEMMA OrderType ==
  ASSUME TypeOK
  PROVE  /\ Depth \in Nat
         /\ Len(global_stack) \in Nat
         /\ Len(local_stack) \in Nat
         /\ Depth = Len(global_stack) + Len(local_stack)
         /\ \A i \in 1 .. Depth : Order[i] \in Sym
BY DEF TypeOK, Depth, Order

\* What sym_malloc gives is in no stack and no longer on the free list.
LEMMA Malloc ==
  ASSUME TypeOK, PoolOK, SymsDisjoint, TakeSym
  PROVE  /\ pooled' \in 0 .. MaxSyms /\ pooled <= pooled'
         /\ sym_malloc \in 1 .. pooled'
         /\ free' \in Seq(Sym)
         /\ \A k \in 1 .. Depth : Order[k] # sym_malloc
         /\ \A i \in DOMAIN free' : /\ free'[i] \in 1 .. pooled'
                                    /\ free'[i] # sym_malloc
                                    /\ \A k \in 1 .. Depth : Order[k] # free'[i]
         /\ \A i, j \in DOMAIN free' : i # j => free'[i] # free'[j]
<1> USE ScopesAssumption
<1>1. CASE free # <<>>
  <2>1. FreeList = free /\ pooled' = pooled /\ free' = Tail(free)
    BY <1>1 DEF FreeList, TakeSym
  <2>2. /\ Tail(free) \in Seq(Sym)
        /\ Len(Tail(free)) = Len(free) - 1
        /\ \A i \in 1 .. Len(Tail(free)) : Tail(free)[i] = free[i + 1]
        /\ Len(free) \in Nat \ {0}
    BY <1>1 DEF TypeOK
  <2>3. sym_malloc = free[1] /\ 1 \in DOMAIN free
    BY <1>1, <2>1 DEF sym_malloc, TypeOK
  <2>4. \A i \in DOMAIN free' : /\ i \in 1 .. Len(free) - 1
                                /\ i + 1 \in DOMAIN free
                                /\ i + 1 # 1
                                /\ free'[i] = free[i + 1]
    BY <2>1, <2>2 DEF TypeOK
  <2>5. pooled' \in 0 .. MaxSyms /\ pooled <= pooled'
    BY <2>1 DEF TypeOK
  <2> QED BY <2>1, <2>2, <2>3, <2>4, <2>5 DEF SymsDisjoint, PoolOK
<1>2. CASE free = <<>>
  <2> DEFINE batch == [i \in 1 .. SymPoolNb |-> pooled + SymPoolNb + 1 - i]
  <2>1. /\ FreeList = batch
        /\ pooled' = pooled + SymPoolNb
        /\ pooled + SymPoolNb <= MaxSyms
        /\ free' = Tail(batch)
    BY <1>2 DEF FreeList, TakeSym, CanMalloc
  <2>2. pooled \in Nat /\ pooled + SymPoolNb \in Nat
    BY DEF TypeOK
  <2>3. /\ batch \in Seq(Sym)
        /\ Len(batch) = SymPoolNb
        /\ batch # <<>>
        /\ \A i \in 1 .. SymPoolNb : batch[i] = pooled + SymPoolNb + 1 - i
    <3>1. \A i \in 1 .. SymPoolNb : pooled + SymPoolNb + 1 - i \in Sym
      BY <2>1, <2>2 DEF Sym
    <3>2. batch \in [1 .. SymPoolNb -> Sym]
      BY <3>1
    <3>3. batch \in Seq(Sym) /\ Len(batch) = SymPoolNb
      BY <3>2
    <3> QED BY <3>3
  <2> HIDE DEF batch
  <2>4. /\ Tail(batch) \in Seq(Sym)
        /\ Len(Tail(batch)) = SymPoolNb - 1
        /\ \A i \in 1 .. SymPoolNb - 1 : Tail(batch)[i] = batch[i + 1]
    BY <2>3
  <2>5. sym_malloc = pooled + SymPoolNb
    BY <2>1, <2>3 DEF sym_malloc
  <2>6. \A i \in DOMAIN free' : /\ i \in 1 .. SymPoolNb - 1
                                /\ free'[i] = pooled + SymPoolNb - i
    BY <2>1, <2>2, <2>3, <2>4
  <2>7. \A k \in 1 .. Depth : Order[k] <= pooled
    BY <2>2 DEF PoolOK
  <2>8. \A i \in DOMAIN free' : free'[i] > pooled /\ free'[i] < pooled + SymPoolNb
    BY <2>2, <2>6
  <2>9. \A i, j \in DOMAIN free' : i # j => free'[i] # free'[j]
    BY <2>2, <2>6
  <2>10. \A k \in 1 .. Depth : Order[k] \in 1 .. pooled
    BY DEF PoolOK
  <2>11. free' \in Seq(Sym) /\ pooled' \in 0 .. MaxSyms /\ pooled <= pooled'
    BY <2>1, <2>2, <2>4
  <2>12. sym_malloc \in 1 .. pooled'
    BY <2>1, <2>2, <2>5
  <2>13. \A i \in DOMAIN free' : free'[i] \in 1 .. pooled' /\ free'[i] # sym_malloc
    BY <2>1, <2>2, <2>5, <2>6
  <2>14. \A i \in DOMAIN free', k \in 1 .. Depth : Order[k] # free'[i]
    BY <2>2, <2>6, <2>10
  <2>15. \A k \in 1 .. Depth : Order[k] # sym_malloc
    BY <2>2, <2>5, <2>10
  <2> QED BY <2>9, <2>11, <2>12, <2>13, <2>14, <2>15
<1> QED BY <1>1, <1>2

(***************************************************************************)
(* Insertion                                                               *)
(***************************************************************************)

\* global_identifier_push puts it above file scope, below the locals.
LEMMA GlobalPushInserts ==
  ASSUME TypeOK, NEW m, global_stack' = Append(global_stack, m),
         local_stack' = local_stack
  PROVE  InsertedAt(Len(global_stack) + 1, m)
<1>1. /\ Len(global_stack') = Len(global_stack) + 1
      /\ \A i \in 1 .. Len(global_stack) + 1 :
           global_stack'[i] = IF i <= Len(global_stack) THEN global_stack[i] ELSE m
  BY DEF TypeOK
<1> QED BY <1>1 DEF InsertedAt, Depth, Order, TypeOK

\* OpenFunction's dummy Sym goes above file scope, at the end.
LEMMA LocalPushInserts ==
  ASSUME TypeOK, NEW m, local_stack' = Append(local_stack, m),
         global_stack' = global_stack
  PROVE  InsertedAt(Depth + 1, m)
<1>1. /\ Len(local_stack') = Len(local_stack) + 1
      /\ \A i \in 1 .. Len(local_stack) + 1 :
           local_stack'[i] = IF i <= Len(local_stack) THEN local_stack[i] ELSE m
  BY DEF TypeOK
<1>2. /\ Depth = Len(global_stack) + Len(local_stack)
      /\ Depth' = Depth + 1
      /\ Len(global_stack) \in Nat /\ Len(local_stack) \in Nat /\ Depth \in Nat
  BY <1>1 DEF Depth, TypeOK
<1>3. \A i \in 1 .. Depth + 1 :
        Order'[i] = IF i <= Len(global_stack) THEN global_stack[i]
                    ELSE local_stack'[i - Len(global_stack)]
  BY <1>2 DEF Order
<1>4. \A i \in 1 .. Depth :
        Order[i] = IF i <= Len(global_stack) THEN global_stack[i]
                   ELSE local_stack[i - Len(global_stack)]
  BY DEF Order
<1>5. ASSUME NEW i \in 1 .. Depth + 1
      PROVE  Order'[i] = IF i < Depth + 1 THEN Order[i]
                         ELSE IF i = Depth + 1 THEN m ELSE Order[i - 1]
  <2>1. CASE i <= Len(global_stack)
    BY <1>2, <1>3, <1>4, <2>1
  <2>2. CASE i > Len(global_stack) /\ i <= Depth
    <3>1. i - Len(global_stack) \in 1 .. Len(local_stack)
      BY <1>2, <2>2
    <3>2. local_stack'[i - Len(global_stack)] = local_stack[i - Len(global_stack)]
      BY <1>1, <1>2, <3>1
    <3> QED BY <1>2, <1>3, <1>4, <2>2, <3>2
  <2>3. CASE i = Depth + 1
    <3>1. i - Len(global_stack) = Len(local_stack) + 1
      BY <1>2, <2>3
    <3>2. local_stack'[i - Len(global_stack)] = m
      BY <1>1, <1>2, <3>1
    <3> QED BY <1>2, <1>3, <2>3, <3>2
  <2> QED BY <1>2, <2>1, <2>2, <2>3
<1> QED BY <1>2, <1>5 DEF InsertedAt

\* sym_push puts the Sym on local_stack if that is not empty, else on
\* global_stack: at the end of Order either way.
LEMMA PushAppends ==
  ASSUME TypeOK, NEW n, NEW b, sym_push(n, b)
  PROVE  InsertedAt(Depth + 1, sym_malloc)
<1>1. CASE local_stack # <<>>
  BY <1>1, LocalPushInserts DEF sym_push
<1>2. CASE local_stack = <<>>
  <2>1. local_stack' = local_stack /\ global_stack' = Append(global_stack, sym_malloc)
    BY <1>2 DEF sym_push
  <2>2. Depth = Len(global_stack)
    BY <1>2 DEF Depth, TypeOK
  <2> QED BY <2>1, <2>2, GlobalPushInserts
<1> QED BY <1>1, <1>2

\* Inserting what sym_malloc gave keeps every Sym in one place.
LEMMA InsertionDisjoint ==
  ASSUME TypeOK, PoolOK, SymsDisjoint, TakeSym,
         NEW p \in 1 .. Depth + 1, InsertedAt(p, sym_malloc)
  PROVE  SymsDisjoint' /\ PoolOK'
<1> USE OrderType, Malloc
<1> DEFINE m == sym_malloc
<1>1. \A i \in 1 .. Depth' :
        \/ i < p /\ i \in 1 .. Depth /\ Order'[i] = Order[i]
        \/ i = p /\ Order'[i] = m
        \/ i > p /\ i - 1 \in 1 .. Depth /\ Order'[i] = Order[i - 1]
  BY DEF InsertedAt
<1>2. ASSUME NEW i \in 1 .. Depth', NEW j \in 1 .. Depth', i # j
      PROVE  Order'[i] # Order'[j]
  BY <1>1, <1>2 DEF SymsDisjoint
<1>3. \A i \in 1 .. Depth', j \in DOMAIN free' : Order'[i] # free'[j]
  BY <1>1
<1>4. SymsDisjoint'
  BY <1>2, <1>3 DEF SymsDisjoint
<1>5. \A i \in 1 .. Depth : Order[i] \in 1 .. pooled'
  BY DEF PoolOK, TypeOK
<1>6. PoolOK'
  BY <1>1, <1>5 DEF PoolOK
<1> QED BY <1>4, <1>6

(***************************************************************************)
(* Removal                                                                 *)
(***************************************************************************)

\* sym_pop frees what stands at positions off + k + 1 .. off + Len(s) of
\* Order; what remains in use stood elsewhere, sh positions higher.
LEMMA PopDisjoint ==
  ASSUME TypeOK, PoolOK, SymsDisjoint,
         NEW s \in Seq(Sym), NEW k \in 0 .. Len(s), NEW off \in Nat, NEW sh \in Nat,
         \A i \in 1 .. Len(s) : off + i \in 1 .. Depth /\ Order[off + i] = s[i],
         \A i \in 1 .. Depth' : /\ sh + i \in 1 .. Depth
                                /\ Order'[i] = Order[sh + i]
                                /\ sh + i \notin off + k + 1 .. off + Len(s),
         sym_pop(s, k)
  PROVE  SymsDisjoint' /\ PoolOK' /\ free' \in Seq(Sym)
<1>0. PICK d \in Nat : d = Len(s) - k /\ Len(s) \in Nat /\ k \in Nat
  <2>1. Len(s) \in Nat /\ k \in Nat /\ Len(s) - k \in Nat
    OBVIOUS
  <2> QED BY <2>1
<1>1. /\ SubSeq(s, k + 1, Len(s)) \in Seq(Sym)
      /\ Len(SubSeq(s, k + 1, Len(s))) = d
      /\ \A i \in 1 .. d : SubSeq(s, k + 1, Len(s))[i] = s[k + i]
  <2>1. /\ SubSeq(s, k + 1, Len(s)) \in Seq(Sym)
        /\ Len(SubSeq(s, k + 1, Len(s))) = d
    BY <1>0, SubSeqProperties
  <2>2. ASSUME NEW i \in 1 .. d
        PROVE  SubSeq(s, k + 1, Len(s))[i] = s[k + i]
    <3>1. i \in 1 .. Len(SubSeq(s, k + 1, Len(s))) /\ k + 1 + i - 1 = k + i
      BY <1>0, <2>1
    <3> QED BY <1>0, <2>1, <3>1, SubSeqProperties
  <2> QED BY <2>1, <2>2
<1>2. free \in Seq(Sym) /\ Len(free) \in Nat
  BY DEF TypeOK
<1>3. /\ free' \in Seq(Sym)
      /\ Len(free') = d + Len(free)
      /\ \A i \in 1 .. d + Len(free) :
           free'[i] = IF i <= d THEN s[k + i] ELSE free[i - d]
  <2>1. free' = SubSeq(s, k + 1, Len(s)) \o free
    BY DEF sym_pop
  <2>2. PICK u \in Seq(Sym) : /\ u = SubSeq(s, k + 1, Len(s))
                              /\ Len(u) = d
                              /\ \A i \in 1 .. d : u[i] = s[k + i]
    BY <1>1
  <2>3. /\ u \o free \in Seq(Sym)
        /\ Len(u \o free) = Len(u) + Len(free)
        /\ \A i \in 1 .. Len(u) + Len(free) :
             (u \o free)[i] = IF i <= Len(u) THEN u[i] ELSE free[i - Len(u)]
    BY <1>2, ConcatProperties
  <2>4. ASSUME NEW i \in 1 .. d + Len(free)
        PROVE  free'[i] = IF i <= d THEN s[k + i] ELSE free[i - d]
    <3>1. CASE i <= d
      <4>1. i \in 1 .. d
        BY <1>0, <1>2, <3>1
      <4> QED BY <2>1, <2>2, <2>3, <3>1, <4>1
    <3>2. CASE ~(i <= d)
      BY <2>1, <2>2, <2>3, <3>2
    <3> QED BY <3>1, <3>2
  <2>5. free' \in Seq(Sym) /\ Len(free') = d + Len(free)
    BY <2>1, <2>2, <2>3
  <2> QED BY <2>4, <2>5
<1>4. ASSUME NEW j \in DOMAIN free'
      PROVE  \/ /\ j <= d /\ off + (k + j) \in 1 .. Depth
                /\ off + (k + j) \in off + k + 1 .. off + Len(s)
                /\ free'[j] = Order[off + (k + j)]
             \/ /\ j > d /\ j - d \in DOMAIN free
                /\ free'[j] = free[j - d]
  <2>1. j \in 1 .. d + Len(free)
    BY <1>0, <1>2, <1>3
  <2>2. CASE j <= d
    <3>1. k + j \in 1 .. Len(s)
      BY <1>0, <1>2, <2>1, <2>2
    <3>2. off + (k + j) \in off + k + 1 .. off + Len(s)
      BY <1>0, <1>2, <2>1, <2>2
    <3>3. off + (k + j) \in 1 .. Depth /\ Order[off + (k + j)] = s[k + j]
      BY <3>1
    <3>4. free'[j] = s[k + j]
      BY <1>3, <2>1, <2>2
    <3> QED BY <2>2, <3>2, <3>3, <3>4
  <2>3. CASE j > d
    <3>1. j - d \in 1 .. Len(free)
      BY <1>0, <1>2, <2>1, <2>3
    <3>2. j - d \in DOMAIN free
      BY <1>2, <3>1
    <3>3. ~(j <= d)
      BY <1>0, <2>1, <2>3
    <3>4. free'[j] = free[j - d]
      BY <1>3, <2>1, <3>3
    <3> QED BY <2>3, <3>2, <3>4
  <2> QED BY <1>0, <1>2, <2>1, <2>2, <2>3
<1>5. \A i, j \in DOMAIN free' : i # j => free'[i] # free'[j]
  <2>1. \A i \in DOMAIN free' : i \in Nat
    BY <1>3
  <2> SUFFICES ASSUME NEW i \in DOMAIN free', NEW j \in DOMAIN free', i # j
               PROVE  free'[i] # free'[j]
    OBVIOUS
  <2>2. CASE i <= d /\ j <= d
    <3>1. off + (k + i) # off + (k + j)
      BY <1>0, <2>1
    <3>2. free'[i] = Order[off + (k + i)] /\ off + (k + i) \in 1 .. Depth
      BY <1>0, <1>4, <2>1, <2>2
    <3>3. free'[j] = Order[off + (k + j)] /\ off + (k + j) \in 1 .. Depth
      BY <1>0, <1>4, <2>1, <2>2
    <3> QED BY <3>1, <3>2, <3>3 DEF SymsDisjoint
  <2>3. CASE i > d /\ j > d
    <3>1. i - d # j - d
      BY <1>0, <2>1
    <3>2. free'[i] = free[i - d] /\ i - d \in DOMAIN free
      BY <1>0, <1>4, <2>1, <2>3
    <3>3. free'[j] = free[j - d] /\ j - d \in DOMAIN free
      BY <1>0, <1>4, <2>1, <2>3
    <3> QED BY <3>1, <3>2, <3>3 DEF SymsDisjoint
  <2>4. CASE i <= d /\ j > d
    <3>1. free'[i] = Order[off + (k + i)] /\ off + (k + i) \in 1 .. Depth
      BY <1>0, <1>4, <2>1, <2>4
    <3>2. free'[j] = free[j - d] /\ j - d \in DOMAIN free
      BY <1>0, <1>4, <2>1, <2>4
    <3> QED BY <3>1, <3>2 DEF SymsDisjoint
  <2>5. CASE i > d /\ j <= d
    <3>1. free'[j] = Order[off + (k + j)] /\ off + (k + j) \in 1 .. Depth
      BY <1>0, <1>4, <2>1, <2>5
    <3>2. free'[i] = free[i - d] /\ i - d \in DOMAIN free
      BY <1>0, <1>4, <2>1, <2>5
    <3> QED BY <3>1, <3>2 DEF SymsDisjoint
  <2> QED BY <1>0, <2>1, <2>2, <2>3, <2>4, <2>5
<1>6. \A i, j \in 1 .. Depth' : i # j => Order'[i] # Order'[j]
  BY DEF SymsDisjoint
<1>7. \A i \in 1 .. Depth', j \in DOMAIN free' : Order'[i] # free'[j]
  <2> SUFFICES ASSUME NEW i \in 1 .. Depth', NEW j \in DOMAIN free'
               PROVE  Order'[i] # free'[j]
    OBVIOUS
  <2>1. /\ sh + i \in 1 .. Depth /\ Order'[i] = Order[sh + i]
        /\ sh + i \notin off + k + 1 .. off + Len(s)
    OBVIOUS
  <2>2. CASE /\ off + (k + j) \in 1 .. Depth
             /\ off + (k + j) \in off + k + 1 .. off + Len(s)
             /\ free'[j] = Order[off + (k + j)]
    <3>1. sh + i # off + (k + j)
      BY <2>1, <2>2
    <3> QED BY <2>1, <2>2, <3>1 DEF SymsDisjoint
  <2>3. CASE j - d \in DOMAIN free /\ free'[j] = free[j - d]
    BY <2>1, <2>3 DEF SymsDisjoint
  <2> QED BY <1>4, <2>2, <2>3
<1>8. pooled' = pooled
  BY DEF sym_pop
<1>9. PoolOK'
  <2>1. \A i \in 1 .. Depth' : Order'[i] \in 1 .. pooled'
    BY <1>8 DEF PoolOK
  <2>2. \A j \in DOMAIN free' : free'[j] \in 1 .. pooled'
    BY <1>4, <1>8 DEF PoolOK
  <2> QED BY <2>1, <2>2 DEF PoolOK
<1> QED BY <1>3, <1>5, <1>6, <1>7, <1>9 DEF SymsDisjoint

\* Order is cut to its first q Syms.
CutTo(q) == /\ Depth' = q
            /\ \A i \in 1 .. q : Order'[i] = Order[i]

LEMMA LocalCut ==
  ASSUME TypeOK, NEW k \in 0 .. Len(local_stack),
         local_stack' = SubSeq(local_stack, 1, k), global_stack' = global_stack
  PROVE  /\ CutTo(Len(global_stack) + k)
         /\ local_stack' \in Seq(Sym) /\ Len(local_stack') = k
<1>1. /\ local_stack' \in Seq(Sym) /\ Len(local_stack') = k
      /\ \A i \in 1 .. k : local_stack'[i] = local_stack[i]
  BY DEF TypeOK
<1>2. /\ Len(global_stack) \in Nat /\ Len(local_stack) \in Nat
      /\ Depth' = Len(global_stack) + k
      /\ Depth = Len(global_stack) + Len(local_stack)
  BY <1>1 DEF Depth, TypeOK
<1>3. ASSUME NEW i \in 1 .. Len(global_stack) + k
      PROVE  Order'[i] = Order[i]
  <2>1. i \in 1 .. Depth /\ i \in 1 .. Depth'
    BY <1>2
  <2>2. CASE i <= Len(global_stack)
    BY <2>1, <2>2 DEF Order
  <2>3. CASE i > Len(global_stack)
    <3>1. i - Len(global_stack) \in 1 .. k
      BY <1>2, <2>3
    <3> QED BY <1>1, <1>2, <2>1, <2>3, <3>1 DEF Order
  <2> QED BY <1>2, <2>2, <2>3
<1> QED BY <1>1, <1>2, <1>3 DEF CutTo

\* Where the two stacks stand in Order.
LEMMA StacksInOrder ==
  ASSUME TypeOK
  PROVE  /\ \A i \in 1 .. Len(global_stack) : i \in 1 .. Depth /\ Order[i] = global_stack[i]
         /\ \A i \in 1 .. Len(local_stack) :
              /\ Len(global_stack) + i \in 1 .. Depth
              /\ Order[Len(global_stack) + i] = local_stack[i]
<1>1. /\ Len(global_stack) \in Nat /\ Len(local_stack) \in Nat
      /\ Depth = Len(global_stack) + Len(local_stack)
  BY DEF Depth, TypeOK
<1>2. \A i \in 1 .. Len(global_stack) : i \in 1 .. Depth /\ Order[i] = global_stack[i]
  BY <1>1 DEF Order
<1>3. ASSUME NEW i \in 1 .. Len(local_stack)
      PROVE  /\ Len(global_stack) + i \in 1 .. Depth
             /\ Order[Len(global_stack) + i] = local_stack[i]
  <2>1. /\ Len(global_stack) + i \in 1 .. Depth
        /\ ~(Len(global_stack) + i <= Len(global_stack))
        /\ Len(global_stack) + i - Len(global_stack) = i
    BY <1>1
  <2> QED BY <2>1 DEF Order
<1> QED BY <1>2, <1>3

(***************************************************************************)
(* What each kind of push and pop does to the tables                       *)
(***************************************************************************)

LEMMA FilledType ==
  ASSUME TypeOK, NEW n \in Name \cup {Anon}, NEW b \in BOOLEAN,
         NEW prev \in Sym \cup {NULL}, CountDecl(n), sym_malloc \in Sym
  PROVE  Filled(n, b, prev) \in [Sym -> Contents] /\ decls' \in 0 .. MaxDecls
<1>1. NewDecl(n) \in 0 .. MaxDecls /\ decls' \in 0 .. MaxDecls
  BY ScopesAssumption DEF NewDecl, CountDecl, TypeOK
<1>2. cell[sym_malloc].prev_tok \in Sym \cup {NULL}
  BY DEF TypeOK, Contents
<1> QED BY <1>1, <1>2 DEF Filled, Contents, TypeOK

LEMMA PushStep ==
  ASSUME TypeOK, PoolOK, SymsDisjoint,
         NEW n \in Name \cup {Anon}, NEW b \in BOOLEAN, sym_push(n, b)
  PROVE  /\ HeapType' /\ PoolOK' /\ SymsDisjoint'
         /\ Len(local_stack') \in Nat /\ Len(local_stack) <= Len(local_stack')
<1>1. TakeSym
  BY DEF sym_push
<1>2. sym_malloc \in Sym /\ free' \in Seq(Sym) /\ pooled' \in 0 .. MaxSyms
  BY <1>1, Malloc, ScopesAssumption DEF Sym
<1>3. PoolOK' /\ SymsDisjoint'
  BY <1>1, OrderType, PushAppends, InsertionDisjoint
<1>4. cell' \in [Sym -> Contents] /\ decls' \in 0 .. MaxDecls
  <2>1. (IF n = Anon THEN NULL ELSE sym_identifier[n]) \in Sym \cup {NULL}
    BY DEF TypeOK
  <2> QED BY <1>2, <2>1, FilledType DEF sym_push
<1>5. sym_identifier' \in [Name -> Sym \cup {NULL}]
  BY <1>2 DEF sym_push, Bind, TypeOK
<1>6. /\ global_stack' \in Seq(Sym) /\ local_stack' \in Seq(Sym)
      /\ Len(local_stack') \in Nat /\ Len(local_stack) <= Len(local_stack')
  <2>1. CASE local_stack # <<>>
    <3>1. /\ local_stack' = Append(local_stack, sym_malloc)
          /\ global_stack' = global_stack
      BY <2>1 DEF sym_push
    <3> QED BY <1>2, <3>1 DEF TypeOK
  <2>2. CASE local_stack = <<>>
    <3>1. /\ global_stack' = Append(global_stack, sym_malloc)
          /\ local_stack' = local_stack
      BY <2>2 DEF sym_push
    <3> QED BY <1>2, <3>1 DEF TypeOK
  <2> QED BY <2>1, <2>2
<1> QED BY <1>2, <1>3, <1>4, <1>5, <1>6 DEF HeapType

LEMMA GlobalPushStep ==
  ASSUME TypeOK, PoolOK, SymsDisjoint,
         NEW n \in Name \cup {Anon}, NEW b \in BOOLEAN, global_identifier_push(n, b)
  PROVE  /\ HeapType' /\ PoolOK' /\ SymsDisjoint'
         /\ local_stack' = local_stack
         /\ sym_malloc \in Sym /\ NewDecl(n) \in 0 .. MaxDecls
<1>1. TakeSym /\ local_stack' = local_stack
      /\ global_stack' = Append(global_stack, sym_malloc)
  BY DEF global_identifier_push
<1>2. sym_malloc \in Sym /\ free' \in Seq(Sym) /\ pooled' \in 0 .. MaxSyms
  BY <1>1, Malloc, ScopesAssumption DEF Sym
<1>3. PoolOK' /\ SymsDisjoint'
  <2>1. Len(global_stack) + 1 \in 1 .. Depth + 1
    BY OrderType
  <2> QED BY <1>1, <2>1, GlobalPushInserts, InsertionDisjoint
<1>4. cell' \in [Sym -> Contents] /\ decls' \in 0 .. MaxDecls
  BY <1>2, FilledType DEF global_identifier_push
<1>5. sym_identifier' \in [Name -> Sym \cup {NULL}]
  BY <1>2 DEF global_identifier_push, Bind, TypeOK
<1>6. global_stack' \in Seq(Sym) /\ local_stack' \in Seq(Sym)
  BY <1>1, <1>2 DEF TypeOK
<1>7. NewDecl(n) \in 0 .. MaxDecls
  BY ScopesAssumption DEF global_identifier_push, NewDecl, CountDecl, TypeOK
<1> QED BY <1>1, <1>2, <1>3, <1>4, <1>5, <1>6, <1>7 DEF HeapType

\* OldestAbove finds the oldest of the popped Syms of a name.
LEMMA Oldest ==
  ASSUME NEW s, NEW k \in Nat, Len(s) \in Nat, NEW n,
         NEW o, o = OldestAbove(s, k, n)
  PROVE  \/ /\ o = 0
            /\ \A j \in k + 1 .. Len(s) : cell[s[j]].token # n
         \/ /\ o # 0
            /\ o \in k + 1 .. Len(s)
            /\ cell[s[o]].token = n
            /\ \A j \in k + 1 .. o - 1 : cell[s[j]].token # n
<1> DEFINE I == {i \in (k + 1) .. Len(s) : cell[s[i]].token = n}
<1>1. o = IF I = {} THEN 0 ELSE CHOOSE i \in I : \A j \in I : i <= j
  BY DEF OldestAbove
<1>2. CASE I = {}
  BY <1>1, <1>2
<1>3. CASE I # {}
  <2>1. I \in SUBSET Nat
    OBVIOUS
  <2>2. \E i \in I : \A j \in I : i <= j
    BY <1>3, <2>1, Least
  <2>3. o \in I /\ \A j \in I : o <= j
    <3> HIDE DEF I
    <3> QED BY <1>1, <1>3, <2>2
  <2> QED BY <2>3
<1> QED BY <1>2, <1>3

LEMMA UnlinkedType ==
  ASSUME TypeOK, NEW s \in Seq(Sym), NEW k \in Nat
  PROVE  Unlinked(s, k) \in [Name -> Sym \cup {NULL}]
<1> SUFFICES ASSUME NEW n \in Name
             PROVE  Unlinked(s, k)[n] \in Sym \cup {NULL}
  BY DEF Unlinked
<1>1. PICK o : o = OldestAbove(s, k, n)
  OBVIOUS
<1>2. Unlinked(s, k)[n] = IF o = 0 THEN sym_identifier[n] ELSE cell[s[o]].prev_tok
  BY <1>1 DEF Unlinked
<1>3. CASE o = 0
  BY <1>2, <1>3 DEF TypeOK
<1>4. CASE o # 0
  <2>1. o \in 1 .. Len(s)
    BY <1>1, <1>4, Oldest
  <2>2. cell[s[o]] \in Contents
    BY <2>1 DEF TypeOK
  <2> QED BY <1>2, <1>4, <2>2 DEF Contents
<1> QED BY <1>3, <1>4

LEMMA PopLocalStep ==
  ASSUME TypeOK, PoolOK, SymsDisjoint, NEW k \in 0 .. Len(local_stack),
         sym_pop(local_stack, k), local_stack' = SubSeq(local_stack, 1, k),
         global_stack' = global_stack, decls' = decls
  PROVE  /\ HeapType' /\ PoolOK' /\ SymsDisjoint'
         /\ CutTo(Len(global_stack) + k)
         /\ Len(local_stack') = k
<1>1. /\ CutTo(Len(global_stack) + k)
      /\ local_stack' \in Seq(Sym) /\ Len(local_stack') = k
  BY LocalCut
<1>2. /\ Len(global_stack) \in Nat /\ k \in Nat /\ local_stack \in Seq(Sym)
      /\ Depth = Len(global_stack) + Len(local_stack) /\ Len(local_stack) \in Nat
  BY OrderType DEF TypeOK
<1>3. \A i \in 1 .. Depth' :
        /\ 0 + i \in 1 .. Depth
        /\ Order'[i] = Order[0 + i]
        /\ 0 + i \notin Len(global_stack) + k + 1 .. Len(global_stack) + Len(local_stack)
  BY <1>1, <1>2 DEF CutTo
<1>4. SymsDisjoint' /\ PoolOK' /\ free' \in Seq(Sym)
  BY <1>2, <1>3, StacksInOrder, PopDisjoint
<1>5. sym_identifier' \in [Name -> Sym \cup {NULL}]
  BY <1>2, UnlinkedType DEF sym_pop
<1>6. cell' = cell /\ pooled' = pooled
  BY DEF sym_pop
<1> QED BY <1>1, <1>4, <1>5, <1>6 DEF HeapType, TypeOK

\* File scope is popped as a whole, be there locals above it or not.
LEMMA PopGlobalStep ==
  ASSUME TypeOK, PoolOK, SymsDisjoint,
         sym_pop(global_stack, 0), global_stack' = <<>>,
         local_stack' = local_stack, decls' = decls
  PROVE  HeapType' /\ PoolOK' /\ SymsDisjoint'
<1>1. /\ Len(global_stack) \in Nat /\ global_stack \in Seq(Sym)
      /\ Depth = Len(global_stack) + Len(local_stack) /\ Len(local_stack) \in Nat
      /\ 0 \in Nat /\ 0 \in 0 .. Len(global_stack)
  BY OrderType DEF TypeOK
<1>2. Len(global_stack') = 0 /\ Depth' = Len(local_stack)
  BY <1>1 DEF Depth
<1>3. ASSUME NEW i \in 1 .. Depth'
      PROVE  /\ Len(global_stack) + i \in 1 .. Depth
             /\ Order'[i] = Order[Len(global_stack) + i]
             /\ Len(global_stack) + i \notin 0 + 0 + 1 .. 0 + Len(global_stack)
  <2>1. i \in 1 .. Len(local_stack) /\ ~(i <= 0) /\ i - 0 = i
    BY <1>1, <1>2
  <2>2. Order'[i] = local_stack[i]
    BY <1>2, <2>1 DEF Order
  <2> QED BY <1>1, <2>1, <2>2, StacksInOrder
<1>4. \A i \in 1 .. Len(global_stack) :
        0 + i \in 1 .. Depth /\ Order[0 + i] = global_stack[i]
  BY <1>1, StacksInOrder
<1>5. SymsDisjoint' /\ PoolOK' /\ free' \in Seq(Sym)
  BY <1>1, <1>3, <1>4, PopDisjoint
<1>6. sym_identifier' \in [Name -> Sym \cup {NULL}]
  BY <1>1, UnlinkedType DEF sym_pop
<1>7. cell' = cell /\ pooled' = pooled /\ global_stack' \in Seq(Sym)
  BY DEF sym_pop
<1> QED BY <1>5, <1>6, <1>7 DEF HeapType, TypeOK

(***************************************************************************)
(* The invariant that needs no assumption on what happens after an error   *)
(***************************************************************************)
HeapInv == TypeOK /\ PoolOK /\ SymsDisjoint /\ MarksOK /\ BasesOK

\* The tables are as the pushes and pops leave them; the rest is unchanged
\* or checked by the caller.
LEMMA Assemble ==
  ASSUME HeapInv, HeapType', PoolOK', SymsDisjoint', MarksOK', BasesOK',
         marks' \in Seq(Mark), vstack' \in Seq(Value), phase' \in Phase
  PROVE  HeapInv'
BY DEF HeapInv, HeapType, TypeOK

LEMMA MarksKept ==
  ASSUME HeapInv, marks' = marks, phase' = phase \/ marks = <<>>,
         Len(local_stack') \in Nat, Len(local_stack) <= Len(local_stack')
  PROVE  MarksOK'
<1>1. Len(local_stack) \in Nat
  BY DEF HeapInv, TypeOK
<1> QED BY <1>1 DEF HeapInv, MarksOK

\* The values under the blocks' records stay; more may come above them.
LEMMA BasesKept ==
  ASSUME HeapInv, marks' = marks, vstack' \in Seq(Value),
         marks = <<>> \/ Len(vstack) <= Len(vstack')
  PROVE  BasesOK'
<1>1. Len(vstack) \in Nat /\ Len(vstack') \in Nat
  BY DEF HeapInv, TypeOK
<1>2. CASE marks = <<>>
  BY <1>2 DEF BasesOK
<1>3. CASE Len(vstack) <= Len(vstack')
  BY <1>1, <1>3 DEF HeapInv, BasesOK
<1> QED BY <1>2, <1>3

LEMMA NoMarks ==
  ASSUME marks' = <<>>
  PROVE  MarksOK' /\ BasesOK' /\ marks' \in Seq(Mark)
BY DEF MarksOK, BasesOK

LEMMA HeapKept ==
  ASSUME HeapInv, UNCHANGED <<heap, decls>>
  PROVE  HeapType' /\ PoolOK' /\ SymsDisjoint'
BY DEF HeapInv, HeapType, TypeOK, PoolOK, SymsDisjoint, Order, Depth, heap

LEMMA ValuePushed ==
  ASSUME HeapInv, marks' = marks,
         NEW v \in Sym, NEW d \in 0 .. MaxDecls, PushValue(v, d)
  PROVE  vstack' \in Seq(Value) /\ BasesOK'
<1>1. [sym |-> v, decl |-> d] \in Value
  BY DEF Value
<1>2. vstack' = Append(vstack, [sym |-> v, decl |-> d]) /\ vstack \in Seq(Value)
  BY DEF PushValue, HeapInv, TypeOK
<1>3. vstack' \in Seq(Value) /\ Len(vstack) <= Len(vstack')
  BY <1>1, <1>2
<1> QED BY <1>3, BasesKept

LEMMA HereType ==
  ASSUME HeapInv, InBlock
  PROVE  /\ Len(marks) \in 1 .. Len(marks) /\ Len(marks) \in Nat /\ Here \in Mark
         /\ Here.pos \in 0 .. Len(local_stack)
         /\ Here.base \in 0 .. Len(vstack)
         /\ \A i \in DOMAIN marks : marks[i].base <= Here.base
<1>1. marks \in Seq(Mark) /\ marks # <<>>
  BY DEF HeapInv, TypeOK, InBlock
<1>2. Len(marks) \in 1 .. Len(marks) /\ Len(marks) \in Nat
  BY <1>1
<1>3. Here \in Mark /\ Here.pos \in 0 .. Len(local_stack) /\ Here.base \in 0 .. Len(vstack)
  BY <1>1, <1>2 DEF Here, HeapInv, MarksOK, BasesOK
<1>4. \A i \in DOMAIN marks : i <= Len(marks)
  BY <1>1
<1>5. \A i \in DOMAIN marks : marks[i].base <= Here.base
  BY <1>1, <1>2, <1>4 DEF Here, HeapInv, BasesOK
<1> QED BY <1>2, <1>3, <1>5

\* Recording the top of local_stack when a block opens.
LEMMA MarkPushed ==
  ASSUME HeapInv, phase = "body", phase' = "body", local_stack' = local_stack,
         NEW e \in BOOLEAN, NEW b \in Nat,
         marks' = Append(marks, [pos |-> Len(local_stack), is_expr |-> e, base |-> b]),
         vstack' \in Seq(Value), b <= Len(vstack'),
         \A i \in DOMAIN marks : marks[i].base <= b
  PROVE  MarksOK' /\ BasesOK' /\ marks' \in Seq(Mark)
<1>1. Len(local_stack) \in Nat /\ marks \in Seq(Mark)
  BY DEF HeapInv, TypeOK
<1>2. [pos |-> Len(local_stack), is_expr |-> e, base |-> b] \in Mark
  BY <1>1 DEF Mark
<1>3. /\ marks' \in Seq(Mark)
      /\ Len(marks') = Len(marks) + 1
      /\ \A i \in 1 .. Len(marks) + 1 :
           marks'[i] = IF i <= Len(marks) THEN marks[i]
                       ELSE [pos |-> Len(local_stack), is_expr |-> e, base |-> b]
  BY <1>1, <1>2
<1>4. \A i \in DOMAIN marks' : \/ i \in DOMAIN marks /\ marks'[i] = marks[i]
                               \/ /\ i = Len(marks) + 1
                                  /\ marks'[i].pos = Len(local_stack)
                                  /\ marks'[i].base = b
  BY <1>1, <1>3
<1>5. \A i \in DOMAIN marks' : marks'[i].pos \in 0 .. Len(local_stack')
  BY <1>1, <1>4 DEF HeapInv, MarksOK
<1>6. \A i, j \in DOMAIN marks' : i <= j => marks'[i].pos <= marks'[j].pos
  <2> SUFFICES ASSUME NEW i \in DOMAIN marks', NEW j \in DOMAIN marks', i <= j
               PROVE  marks'[i].pos <= marks'[j].pos
    OBVIOUS
  <2>1. CASE j = Len(marks) + 1
    <3>1. marks'[j].pos = Len(local_stack)
      BY <1>1, <1>3, <2>1
    <3> QED BY <1>1, <1>5, <3>1
  <2>2. CASE j # Len(marks) + 1
    <3>1. i \in DOMAIN marks /\ j \in DOMAIN marks
      BY <1>1, <1>3, <2>2
    <3> QED BY <1>1, <1>3, <3>1 DEF HeapInv, MarksOK
  <2> QED BY <2>1, <2>2
<1>7. \A i \in DOMAIN marks : marks[i].base \in Nat
  <2>1. \A i \in DOMAIN marks : marks[i] \in Mark
    BY <1>1
  <2> QED BY <2>1 DEF Mark
<1>8. \A i \in DOMAIN marks' : marks'[i].base \in Nat /\ marks'[i].base <= b
  BY <1>4, <1>7
<1>9. \A i \in DOMAIN marks' : marks'[i].base \in 0 .. Len(vstack')
  <2>1. Len(vstack') \in Nat
    OBVIOUS
  <2> QED BY <1>8, <2>1
<1>10. \A i, j \in DOMAIN marks' : i <= j => marks'[i].base <= marks'[j].base
  <2> SUFFICES ASSUME NEW i \in DOMAIN marks', NEW j \in DOMAIN marks', i <= j
               PROVE  marks'[i].base <= marks'[j].base
    OBVIOUS
  <2>1. CASE j = Len(marks) + 1
    <3>1. marks'[j].base = b
      BY <1>1, <1>3, <2>1
    <3> QED BY <1>8, <3>1
  <2>2. CASE j # Len(marks) + 1
    <3>1. i \in DOMAIN marks /\ j \in DOMAIN marks
      BY <1>1, <1>3, <2>2
    <3> QED BY <1>1, <1>3, <3>1 DEF HeapInv, BasesOK
  <2> QED BY <2>1, <2>2
<1> QED BY <1>3, <1>5, <1>6, <1>9, <1>10 DEF MarksOK, BasesOK

\* Popping back to the innermost record when its block closes.
LEMMA MarkPopped ==
  ASSUME HeapInv, InBlock, phase' = "body",
         Len(local_stack') = Here.pos, vstack' = vstack,
         marks' = SubSeq(marks, 1, Len(marks) - 1)
  PROVE  MarksOK' /\ BasesOK' /\ marks' \in Seq(Mark)
<1>1. /\ marks \in Seq(Mark) /\ Len(marks) \in Nat /\ Len(marks) \in 1 .. Len(marks)
      /\ Here.pos \in Nat
  BY HereType DEF HeapInv, TypeOK, Mark
<1>2. /\ marks' \in Seq(Mark)
      /\ Len(marks') = Len(marks) - 1
      /\ \A i \in 1 .. Len(marks) - 1 : marks'[i] = marks[i]
  <2>1. PICK k \in 0 .. Len(marks) : k = Len(marks) - 1
    <3>1. Len(marks) - 1 \in 0 .. Len(marks)
      BY <1>1
    <3> QED BY <3>1
  <2>2. /\ SubSeq(marks, 1, k) \in Seq(Mark)
        /\ Len(SubSeq(marks, 1, k)) = k
        /\ \A i \in 1 .. k : SubSeq(marks, 1, k)[i] = marks[i]
    BY <1>1
  <2> QED BY <2>1, <2>2
<1>3. \A i \in DOMAIN marks' : /\ i \in DOMAIN marks /\ marks'[i] = marks[i]
                               /\ i <= Len(marks)
  BY <1>1, <1>2
<1>4. \A i \in DOMAIN marks' : marks'[i].pos \in 0 .. Len(local_stack')
  <2> TAKE i \in DOMAIN marks'
  <2>1. marks[i].pos <= marks[Len(marks)].pos /\ marks[i].pos \in 0 .. Len(local_stack)
    BY <1>1, <1>3 DEF HeapInv, MarksOK
  <2> QED BY <1>1, <1>3, <2>1 DEF Here
<1> QED BY <1>2, <1>3, <1>4 DEF HeapInv, MarksOK, BasesOK

\* A declaration that leaves blocks, values and phase alone.
LEMMA PushOnly ==
  ASSUME HeapInv, NEW n \in Name \cup {Anon}, NEW b \in BOOLEAN, sym_push(n, b),
         marks' = marks, vstack' = vstack, phase' = phase
  PROVE  HeapInv'
<1>1. /\ TypeOK /\ PoolOK /\ SymsDisjoint /\ marks \in Seq(Mark)
      /\ vstack \in Seq(Value) /\ phase \in Phase /\ Len(vstack) \in Nat
  BY DEF HeapInv, TypeOK
<1>2. /\ HeapType' /\ PoolOK' /\ SymsDisjoint'
      /\ Len(local_stack') \in Nat /\ Len(local_stack) <= Len(local_stack')
  BY <1>1, PushStep
<1>3. MarksOK'
  BY <1>2, MarksKept
<1>4. BasesOK'
  BY <1>1, BasesKept
<1> QED BY <1>1, <1>2, <1>3, <1>4, Assemble

\* A symbol pushed at file scope and a value made from it.
LEMMA GlobalPushAndValue ==
  ASSUME HeapInv, NEW n \in Name \cup {Anon}, global_identifier_push(n, TRUE),
         NEW d \in 0 .. MaxDecls, PushValue(sym_malloc, d),
         marks' = marks, phase' = phase
  PROVE  HeapInv'
<1>1. /\ TypeOK /\ PoolOK /\ SymsDisjoint /\ marks \in Seq(Mark)
      /\ phase \in Phase /\ Len(local_stack) \in Nat /\ TRUE \in BOOLEAN
  BY DEF HeapInv, TypeOK
<1>2. /\ HeapType' /\ PoolOK' /\ SymsDisjoint' /\ local_stack' = local_stack
      /\ sym_malloc \in Sym
  BY <1>1, GlobalPushStep
<1>3. MarksOK'
  BY <1>1, <1>2, MarksKept
<1>4. vstack' \in Seq(Value) /\ BasesOK'
  BY <1>2, ValuePushed
<1> QED BY <1>1, <1>2, <1>3, <1>4, Assemble

LEMMA InitHeapInv == Init => HeapInv
<1> SUFFICES ASSUME Init PROVE HeapInv
  OBVIOUS
<1> USE ScopesAssumption DEF Init
<1>1. TypeOK
  BY DEF TypeOK, Contents, Sym, Phase
<1>2. Len(free) = 0 /\ Depth = 0
  BY DEF Depth
<1>3. PoolOK /\ SymsDisjoint
  BY <1>2 DEF PoolOK, SymsDisjoint
<1>4. MarksOK /\ BasesOK
  BY DEF MarksOK, BasesOK
<1> QED BY <1>1, <1>3, <1>4 DEF HeapInv

LEMMA NextHeapInv == HeapInv /\ [Next]_vars => HeapInv'
<1> SUFFICES ASSUME HeapInv, [Next]_vars PROVE HeapInv'
  OBVIOUS
<1>t. /\ TypeOK /\ PoolOK /\ SymsDisjoint /\ MarksOK /\ BasesOK
      /\ marks \in Seq(Mark) /\ vstack \in Seq(Value) /\ phase \in Phase
      /\ decls \in 0 .. MaxDecls /\ Len(local_stack) \in Nat /\ Len(vstack) \in Nat
      /\ local_stack \in Seq(Sym) /\ <<>> \in Seq(Value)
      /\ Ident \subseteq Name \cup {Anon} /\ Name \subseteq Name \cup {Anon}
      /\ Anon \in Name \cup {Anon} /\ FALSE \in BOOLEAN /\ TRUE \in BOOLEAN
  BY DEF HeapInv, TypeOK, Name
<1>p. {"idle", "file", "proto", "params", "body", "failed"} \subseteq Phase
  BY DEF Phase
<1>1. CASE StartCompile
  <2>1. sym_push(Anon, FALSE) /\ marks' = marks /\ phase' = "file" /\ vstack' = <<>>
        /\ phase # "body"
    BY <1>1, ScopesAssumption DEF StartCompile
  <2>2. marks = <<>>
    BY <1>t, <2>1 DEF MarksOK
  <2> QED BY <1>t, <1>p, <2>1, <2>2, PushStep, MarksKept, BasesKept, Assemble
<1>2. CASE EndCompile
  <2>1. /\ sym_pop(global_stack, 0) /\ global_stack' = <<>> /\ local_stack' = local_stack
        /\ marks' = marks /\ phase' = "idle" /\ phase = "file"
        /\ decls' = decls /\ vstack' = vstack
    BY <1>2 DEF EndCompile
  <2>2. marks = <<>>
    BY <1>t, <2>1 DEF MarksOK
  <2> QED BY <1>t, <1>p, <2>1, <2>2, PopGlobalStep, MarksKept, BasesKept, Assemble
<1>3. CASE Fail
  <2>1. /\ sym_pop(global_stack, 0) /\ global_stack' = <<>> /\ local_stack' = local_stack
        /\ marks' = <<>> /\ phase' = "failed" /\ decls' = decls /\ vstack' = vstack
    BY <1>3 DEF Fail
  <2> QED BY <1>t, <1>p, <2>1, PopGlobalStep, NoMarks, Assemble
<1>4. ASSUME NEW n \in Ident, DeclareFunction(n) PROVE HeapInv'
  <2>1. marks' = marks /\ phase' = "proto" /\ phase = "file" /\ vstack' = vstack
    BY <1>4 DEF DeclareFunction
  <2>2. marks = <<>>
    BY <1>t, <2>1 DEF MarksOK
  <2>3. CASE UNCHANGED <<heap, decls>>
    <3>1. local_stack' = local_stack
      BY <2>3 DEF heap
    <3>2. HeapType' /\ PoolOK' /\ SymsDisjoint'
      BY <2>3, HeapKept
    <3>3. MarksOK' /\ BasesOK'
      BY <1>t, <2>1, <2>2, <3>1, MarksKept, BasesKept
    <3> QED BY <1>t, <1>p, <2>1, <3>2, <3>3, Assemble
  <2>4. CASE global_identifier_push(n, TRUE)
    <3>1. HeapType' /\ PoolOK' /\ SymsDisjoint' /\ local_stack' = local_stack
      BY <1>t, <2>4, GlobalPushStep
    <3>2. MarksOK' /\ BasesOK'
      BY <1>t, <2>1, <2>2, <3>1, MarksKept, BasesKept
    <3> QED BY <1>t, <1>p, <2>1, <3>1, <3>2, Assemble
  <2> QED BY <1>4, <2>3, <2>4 DEF DeclareFunction
<1>5. CASE OpenFunction
  <2>1. /\ TakeSym /\ cell' = Filled(Anon, FALSE, NULL)
        /\ local_stack' = Append(local_stack, sym_malloc)
        /\ global_stack' = global_stack /\ sym_identifier' = sym_identifier
        /\ marks' = marks /\ vstack' = vstack /\ decls' = decls
        /\ phase = "proto" /\ phase' = "params"
    BY <1>5 DEF OpenFunction
  <2>2. marks = <<>>
    BY <1>t, <2>1 DEF MarksOK
  <2>3. sym_malloc \in Sym /\ free' \in Seq(Sym) /\ pooled' \in 0 .. MaxSyms
    BY <1>t, <2>1, Malloc, ScopesAssumption DEF Sym
  <2>4. CountDecl(Anon)
    BY <2>1 DEF CountDecl
  <2>5. cell' \in [Sym -> Contents]
    BY <1>t, <2>1, <2>3, <2>4, FilledType
  <2>6. PoolOK' /\ SymsDisjoint'
    <3>1. Depth + 1 \in 1 .. Depth + 1
      BY <1>t, OrderType
    <3> QED BY <1>t, <2>1, <3>1, LocalPushInserts, InsertionDisjoint
  <2>7. /\ local_stack' \in Seq(Sym) /\ Len(local_stack') \in Nat
        /\ Len(local_stack) <= Len(local_stack')
    BY <1>t, <2>1, <2>3
  <2>8. HeapType'
    BY <1>t, <2>1, <2>3, <2>5, <2>7 DEF HeapType, TypeOK
  <2>9. MarksOK' /\ BasesOK'
    BY <1>t, <2>1, <2>2, <2>7, MarksKept, BasesKept
  <2> QED BY <1>t, <1>p, <2>1, <2>6, <2>8, <2>9, Assemble
<1>6. ASSUME NEW n \in Ident, PushParam(n) PROVE HeapInv'
  <2>1. sym_push(n, FALSE) /\ marks' = marks /\ vstack' = vstack /\ phase' = phase
    BY <1>6 DEF PushParam
  <2> QED BY <1>t, <2>1, PushOnly
<1>7. CASE OpenBody
  <2>1. /\ phase = "params" /\ phase' = "body" /\ vstack' = vstack
        /\ local_stack' = local_stack /\ UNCHANGED <<heap, decls>>
        /\ marks' = <<[pos |-> Len(local_stack), is_expr |-> FALSE, base |-> 0]>>
    BY <1>7 DEF OpenBody, heap
  <2>2. [pos |-> Len(local_stack), is_expr |-> FALSE, base |-> 0] \in Mark
    BY <1>t DEF Mark
  <2>3. MarksOK' /\ BasesOK' /\ marks' \in Seq(Mark)
    BY <1>t, <2>1, <2>2 DEF MarksOK, BasesOK
  <2> QED BY <1>t, <1>p, <2>1, <2>3, HeapKept, Assemble
<1>8. CASE EndFunction
  <2>1. /\ sym_pop(local_stack, 0) /\ local_stack' = <<>> /\ global_stack' = global_stack
        /\ marks' = marks /\ vstack' = vstack /\ decls' = decls
        /\ marks = <<>> /\ phase' = "file"
    BY <1>8 DEF EndFunction
  <2>2. SubSeq(local_stack, 1, 0) = <<>> /\ 0 \in 0 .. Len(local_stack)
    BY <1>t, SubSeqEmpty
  <2> QED BY <1>t, <1>p, <2>1, <2>2, PopLocalStep, NoMarks, Assemble
<1>9. CASE EnterBlock
  <2>1. /\ InBlock /\ phase = "body" /\ phase' = "body"
        /\ vstack' = SubSeq(vstack, 1, Here.base)
        /\ local_stack' = local_stack /\ UNCHANGED <<heap, decls>>
    BY <1>9 DEF EnterBlock, BetweenStatements, InBlock, heap
  <2>2. /\ Here \in Mark /\ Here.base \in 0 .. Len(vstack)
        /\ \A i \in DOMAIN marks : marks[i].base <= Here.base
    BY <2>1, HereType
  <2>3. PICK e \in {FALSE, Here.is_expr} :
          marks' = Append(marks, [pos |-> Len(local_stack), is_expr |-> e,
                                  base |-> Here.base])
    BY <1>9 DEF EnterBlock
  <2>4. e \in BOOLEAN
    BY <2>2, <2>3 DEF Mark
  <2>5. vstack' \in Seq(Value) /\ Len(vstack') = Here.base
    <3>1. PICK k \in 0 .. Len(vstack) : k = Here.base
      BY <2>2
    <3>2. vstack' = SubSeq(vstack, 1, k)
      BY <2>1, <3>1
    <3>3. SubSeq(vstack, 1, k) \in Seq(Value) /\ Len(SubSeq(vstack, 1, k)) = k
      BY <1>t
    <3> QED BY <3>1, <3>2, <3>3
  <2>6. MarksOK' /\ BasesOK' /\ marks' \in Seq(Mark)
    <3>1. Here.base \in Nat /\ Here.base <= Len(vstack')
      BY <1>t, <2>2, <2>5
    <3> QED BY <2>1, <2>2, <2>3, <2>4, <2>5, <3>1, MarkPushed
  <2> QED BY <1>t, <1>p, <2>1, <2>5, <2>6, HeapKept, Assemble
<1>10. CASE EnterStatementExpr
  <2>1. /\ phase = "body" /\ phase' = "body" /\ vstack' = vstack
        /\ local_stack' = local_stack /\ UNCHANGED <<heap, decls>>
        /\ marks' = Append(marks, [pos |-> Len(local_stack), is_expr |-> TRUE,
                                   base |-> Len(vstack)])
        /\ Len(vstack) \in Nat
    BY <1>t, <1>10 DEF EnterStatementExpr, InBlock, heap
  <2>2. \A i \in DOMAIN marks : marks[i].base <= Len(vstack)
    BY <1>t DEF BasesOK
  <2>3. MarksOK' /\ BasesOK' /\ marks' \in Seq(Mark)
    <3>1. PICK k \in Nat : k = Len(vstack)
      BY <2>1
    <3>2. /\ marks' = Append(marks, [pos |-> Len(local_stack), is_expr |-> TRUE, base |-> k])
          /\ k <= Len(vstack') /\ vstack' \in Seq(Value)
          /\ \A i \in DOMAIN marks : marks[i].base <= k
      BY <1>t, <2>1, <2>2, <3>1
    <3> QED BY <1>t, <2>1, <3>2, MarkPushed
  <2> QED BY <1>t, <1>p, <2>1, <2>3, HeapKept, Assemble
<1>11. CASE LeaveBlock
  <2>1. /\ InBlock /\ phase = "body" /\ phase' = "body" /\ vstack' = vstack
        /\ sym_pop(local_stack, Here.pos)
        /\ local_stack' = SubSeq(local_stack, 1, Here.pos)
        /\ global_stack' = global_stack /\ decls' = decls
        /\ marks' = SubSeq(marks, 1, Len(marks) - 1)
    BY <1>11 DEF LeaveBlock, BetweenStatements, InBlock
  <2>2. Here.pos \in 0 .. Len(local_stack)
    BY <2>1, HereType
  <2>3. HeapType' /\ PoolOK' /\ SymsDisjoint' /\ Len(local_stack') = Here.pos
    BY <1>t, <2>1, <2>2, PopLocalStep
  <2>4. MarksOK' /\ BasesOK' /\ marks' \in Seq(Mark)
    BY <2>1, <2>3, MarkPopped
  <2> QED BY <1>t, <1>p, <2>1, <2>3, <2>4, Assemble
<1>12. ASSUME NEW n \in Ident, NEW b \in BOOLEAN, PushName(n, b) PROVE HeapInv'
  <2>1. sym_push(n, b) /\ marks' = marks /\ vstack' = vstack /\ phase' = phase
    BY <1>12 DEF PushName
  <2> QED BY <1>t, <2>1, PushOnly
<1>13. ASSUME NEW n \in Name, DeclareUnlessBound(n) PROVE HeapInv'
  <2>1. /\ sym_push(n, n \in Ident) /\ marks' = marks /\ vstack' = vstack
        /\ phase' = phase /\ (n \in Ident) \in BOOLEAN
    BY <1>13 DEF DeclareUnlessBound
  <2> QED BY <1>t, <2>1, PushOnly
<1>14. CASE PushType
  <2>1. sym_push(Anon, FALSE) /\ marks' = marks /\ vstack' = vstack /\ phase' = phase
    BY <1>14 DEF PushType
  <2> QED BY <1>t, <2>1, PushOnly
<1>15. ASSUME NEW n \in Ident, UseName(n) PROVE HeapInv'
  <2>1. /\ sym_identifier[n] # NULL /\ marks' = marks /\ phase' = phase
        /\ PushValue(sym_identifier[n], cell[sym_identifier[n]].decl)
        /\ UNCHANGED <<heap, decls>> /\ local_stack' = local_stack
    BY <1>15 DEF UseName, heap
  <2>2. sym_identifier[n] \in Sym /\ cell[sym_identifier[n]].decl \in 0 .. MaxDecls
    BY <1>t, <2>1 DEF TypeOK, Name, Contents
  <2> QED BY <1>t, <2>1, <2>2, ValuePushed, HeapKept, MarksKept, Assemble
<1>16. ASSUME NEW n \in Ident, CallUndeclared(n) PROVE HeapInv'
  <2>1. /\ global_identifier_push(n, TRUE) /\ PushValue(sym_malloc, NewDecl(n))
        /\ marks' = marks /\ phase' = phase
    BY <1>16 DEF CallUndeclared
  <2>2. NewDecl(n) \in 0 .. MaxDecls
    BY <1>t, <2>1, GlobalPushStep
  <2> QED BY <1>t, <2>1, <2>2, GlobalPushAndValue
<1>17. CASE UseLiteral
  <2>1. /\ global_identifier_push(Anon, TRUE) /\ PushValue(sym_malloc, 0)
        /\ marks' = marks /\ phase' = phase
    BY <1>17 DEF UseLiteral
  <2>2. 0 \in 0 .. MaxDecls
    BY ScopesAssumption
  <2> QED BY <1>t, <2>1, <2>2, GlobalPushAndValue
<1>18. CASE DropValue
  <2>1. /\ InBlock /\ Len(vstack) - Here.base > 0 /\ marks' = marks /\ phase' = phase
        /\ vstack' = SubSeq(vstack, 1, Len(vstack) - 1)
        /\ UNCHANGED <<heap, decls>> /\ local_stack' = local_stack
    BY <1>18 DEF DropValue, OwnValues, heap
  <2>2. /\ Here.base \in 0 .. Len(vstack)
        /\ \A i \in DOMAIN marks : marks[i].base <= Here.base
    BY <2>1, HereType
  <2>3. vstack' \in Seq(Value) /\ Len(vstack') = Len(vstack) - 1
    <3>1. PICK k \in 0 .. Len(vstack) : k = Len(vstack) - 1
      <4>1. Len(vstack) - 1 \in 0 .. Len(vstack)
        BY <1>t, <2>1, <2>2
      <4> QED BY <4>1
    <3>2. SubSeq(vstack, 1, k) \in Seq(Value) /\ Len(SubSeq(vstack, 1, k)) = k
      BY <1>t
    <3> QED BY <2>1, <3>1, <3>2
  <2>4. BasesOK'
    <3>1. \A i \in DOMAIN marks : marks[i].base \in Nat
      BY <1>t DEF BasesOK
    <3>2. \A i \in DOMAIN marks : marks[i].base \in 0 .. Len(vstack')
      BY <1>t, <2>1, <2>2, <2>3, <3>1
    <3> QED BY <1>t, <2>1, <3>2 DEF BasesOK
  <2> QED BY <1>t, <2>1, <2>3, <2>4, HeapKept, MarksKept, Assemble
<1>19. CASE UNCHANGED vars
  <2>1. /\ UNCHANGED <<heap, decls>> /\ local_stack' = local_stack
        /\ marks' = marks /\ vstack' = vstack /\ phase' = phase
    BY <1>19 DEF vars, heap
  <2> QED BY <1>t, <2>1, HeapKept, MarksKept, BasesKept, Assemble
<1> QED BY <1>1, <1>2, <1>3, <1>4, <1>5, <1>6, <1>7, <1>8, <1>9, <1>10, <1>11,
           <1>12, <1>13, <1>14, <1>15, <1>16, <1>17, <1>18, <1>19 DEF Next

LEMMA HeapInvAlways == Spec => []HeapInv
BY InitHeapInv, NextHeapInv, PTL DEF Spec

\* Every variable keeps its type, whatever the program compiled, whatever
\* the pool size, also when a compilation follows a failed one.
THEOREM TypeCorrect == Spec => []TypeOK
<1>1. HeapInv => TypeOK
  BY DEF HeapInv
<1> QED BY <1>1, HeapInvAlways, PTL

\* The free list never hands out a Sym that a stack still holds: no Sym is in
\* use twice, or in use and free at once (sym_malloc, sym_free, sym_pop).
THEOREM NoSymInTwoPlaces == Spec => []SymsDisjoint
<1>1. HeapInv => SymsDisjoint
  BY DEF HeapInv
<1> QED BY <1>1, HeapInvAlways, PTL

(***************************************************************************)
(* Chains                                                                  *)
(***************************************************************************)

\* A Sym m, named n, inserted at p changes nothing for the positions below p,
\* and for another name only shifts the positions above.
LEMMA NewestKept ==
  ASSUME TypeOK, NEW m, NEW n, NEW p \in 1 .. Depth + 1, InsertedAt(p, m),
         \A i \in 1 .. Depth : cell'[Order[i]] = cell[Order[i]],
         cell'[m].token = n,
         NEW c, NEW t, NEW k \in 0 .. Depth, IsNewest(c, t, k)
  PROVE  /\ k < p => IsNewest(c, t, k)'
         /\ k + 1 >= p /\ t # n => IsNewest(c, t, k + 1)'
<1>0. Depth \in Nat /\ p \in Nat /\ k \in Nat
  BY OrderType
<1>1. \A i \in 1 .. Depth : /\ i < p => Order'[i] = Order[i]
                            /\ i >= p => Order'[i + 1] = Order[i]
  BY <1>0 DEF InsertedAt
<1>2. Order'[p] = m
  BY <1>0 DEF InsertedAt
<1>3. ASSUME k < p PROVE IsNewest(c, t, k)'
  <2>1. \A i \in 1 .. k : i \in 1 .. Depth /\ Order'[i] = Order[i]
    BY <1>0, <1>1, <1>3
  <2>2. \A i \in 1 .. k : cell'[Order'[i]] = cell[Order[i]]
    BY <2>1
  <2>3. CASE c = NULL /\ \A i \in 1 .. k : cell[Order[i]].token # t
    BY <2>2, <2>3 DEF IsNewest
  <2>4. ASSUME NEW i \in 1 .. k, c = Order[i], cell[c].token = t,
               \A j \in (i + 1) .. k : cell[Order[j]].token # t
        PROVE  IsNewest(c, t, k)'
    <3>1. c = Order'[i] /\ cell'[c].token = t
      BY <2>1, <2>2, <2>4
    <3>2. \A j \in (i + 1) .. k : j \in 1 .. k
      BY <1>0
    <3>3. \A j \in (i + 1) .. k : cell'[Order'[j]].token # t
      BY <2>2, <2>4, <3>2
    <3> QED BY <3>1, <3>3 DEF IsNewest
  <2> QED BY <2>3, <2>4 DEF IsNewest
<1>4. ASSUME k + 1 >= p, t # n PROVE IsNewest(c, t, k + 1)'
  <2>1. \A i \in 1 .. k + 1 :
          \/ i < p /\ i \in 1 .. k /\ cell'[Order'[i]] = cell[Order[i]]
          \/ i = p /\ cell'[Order'[i]].token # t
          \/ i > p /\ i - 1 \in 1 .. k /\ cell'[Order'[i]] = cell[Order[i - 1]]
    <3> TAKE i \in 1 .. k + 1
    <3>1. CASE i < p
      <4>1. i \in 1 .. k /\ i \in 1 .. Depth
        BY <1>0, <1>4, <3>1
      <4> QED BY <1>1, <3>1, <4>1
    <3>2. CASE i = p
      BY <1>2, <1>4, <3>2
    <3>3. CASE i > p
      <4>1. i - 1 \in 1 .. k /\ i - 1 \in 1 .. Depth /\ i - 1 >= p /\ i - 1 + 1 = i
        BY <1>0, <3>3
      <4> QED BY <1>1, <3>3, <4>1
    <3> QED BY <1>0, <3>1, <3>2, <3>3
  <2>2. CASE c = NULL /\ \A i \in 1 .. k : cell[Order[i]].token # t
    <3>1. \A i \in 1 .. k + 1 : cell'[Order'[i]].token # t
      BY <2>1, <2>2
    <3> QED BY <2>2, <3>1 DEF IsNewest
  <2>3. ASSUME NEW i \in 1 .. k, c = Order[i], cell[c].token = t,
               \A j \in (i + 1) .. k : cell[Order[j]].token # t
        PROVE  IsNewest(c, t, k + 1)'
    <3>0. i \in 1 .. Depth /\ cell'[c].token = t
      BY <1>0, <2>3
    <3>1. CASE i < p
      <4>1. i \in 1 .. k + 1 /\ c = Order'[i]
        BY <1>0, <1>1, <2>3, <3>0, <3>1
      <4>2. \A j \in (i + 1) .. k + 1 : cell'[Order'[j]].token # t
        <5> TAKE j \in (i + 1) .. k + 1
        <5>1. /\ j \in 1 .. k + 1
              /\ j \in 1 .. k => j \in (i + 1) .. k
              /\ j > p => j - 1 \in (i + 1) .. k
          BY <1>0, <3>1
        <5> QED BY <2>1, <2>3, <5>1
      <4> QED BY <3>0, <4>1, <4>2 DEF IsNewest
    <3>2. CASE i >= p
      <4>1. i + 1 \in 1 .. k + 1 /\ c = Order'[i + 1]
        BY <1>0, <1>1, <2>3, <3>0, <3>2
      <4>2. \A j \in (i + 1 + 1) .. k + 1 : cell'[Order'[j]].token # t
        <5> TAKE j \in (i + 1 + 1) .. k + 1
        <5>1. j \in 1 .. k + 1 /\ j > p /\ j - 1 \in (i + 1) .. k
          BY <1>0, <3>2
        <5> QED BY <1>0, <2>1, <2>3, <5>1
      <4> QED BY <3>0, <4>1, <4>2 DEF IsNewest
    <3> QED BY <1>0, <3>1, <3>2
  <2> QED BY <2>2, <2>3 DEF IsNewest
<1> QED BY <1>3, <1>4

\* A push keeps the chains if the new Sym points at the newest older one of
\* its name and no newer one stands above it.
LEMMA ChainsInserted ==
  ASSUME TypeOK, PoolOK, SymsDisjoint, ChainsInOrder, TakeSym,
         NEW n \in Name \cup {Anon}, NEW b, NEW prev, NEW p \in 1 .. Depth + 1,
         InsertedAt(p, sym_malloc), cell' = Filled(n, b, prev), Bind(n),
         n # Anon => /\ IsNewest(prev, n, p - 1)
                     /\ \A j \in p .. Depth : cell[Order[j]].token # n
  PROVE  ChainsInOrder'
<1> DEFINE m == sym_malloc
<1>0. /\ Depth \in Nat /\ p \in Nat /\ m \in Sym /\ cell \in [Sym -> Contents]
      /\ \A i \in 1 .. Depth : Order[i] \in Sym /\ Order[i] # m
      /\ Anon \notin Name
  BY OrderType, Malloc, ScopesAssumption DEF Sym, TypeOK
<1>1. /\ \A i \in 1 .. Depth : cell'[Order[i]] = cell[Order[i]]
      /\ cell'[m].token = n
      /\ n # Anon => cell'[m].prev_tok = prev
  BY <1>0 DEF Filled
<1>2. \A i \in 1 .. Depth + 1 :
        \/ i < p /\ i \in 1 .. Depth /\ Order'[i] = Order[i]
        \/ i = p /\ Order'[i] = m
        \/ i > p /\ i - 1 \in 1 .. Depth /\ i - 1 >= p /\ Order'[i] = Order[i - 1]
  BY <1>0 DEF InsertedAt
<1>d. Depth' = Depth + 1
  BY DEF InsertedAt
<1> HIDE DEF m
<1>3. ASSUME NEW t \in Name PROVE IsNewest(sym_identifier[t], t, Depth)'
  <2>1. CASE t = n
    <3>1. sym_identifier'[t] = m
      BY <1>0, <2>1 DEF Bind, TypeOK, m
    <3>2. p \in 1 .. Depth + 1 /\ m = Order'[p] /\ cell'[m].token = t
      BY <1>0, <1>1, <1>2, <2>1
    <3>3. \A j \in (p + 1) .. Depth + 1 : cell'[Order'[j]].token # t
      <4> TAKE j \in (p + 1) .. Depth + 1
      <4>1. /\ j - 1 \in p .. Depth /\ j - 1 \in 1 .. Depth /\ j \in 1 .. Depth + 1
            /\ j > p
        BY <1>0
      <4>2. Order'[j] = Order[j - 1]
        BY <1>0, <1>2, <4>1
      <4> QED BY <1>0, <1>1, <2>1, <4>1, <4>2
    <3> QED BY <1>d, <3>1, <3>2, <3>3 DEF IsNewest
  <2>2. CASE t # n
    <3>1. sym_identifier'[t] = sym_identifier[t]
      BY <2>2 DEF Bind, TypeOK
    <3>2. IsNewest(sym_identifier[t], t, Depth)
      BY DEF ChainsInOrder
    <3>3. PICK c : c = sym_identifier[t]
      OBVIOUS
    <3>4. IsNewest(c, t, Depth)
      BY <3>2, <3>3
    <3>5. Depth \in 0 .. Depth /\ Depth + 1 >= p
      BY <1>0
    <3>6. PICK k \in 0 .. Depth : k = Depth
      BY <3>5
    <3>7. IsNewest(c, t, k + 1)'
      BY <1>1, <2>2, <3>4, <3>5, <3>6, NewestKept DEF m
    <3> QED BY <1>d, <3>1, <3>3, <3>6, <3>7 DEF IsNewest
  <2> QED BY <2>1, <2>2
<1>4. ASSUME NEW i \in 1 .. Depth', cell'[Order'[i]].token \in Name
      PROVE  IsNewest(cell[Order[i]].prev_tok, cell[Order[i]].token, i - 1)'
  <2>0. i \in 1 .. Depth + 1
    BY <1>d
  <2>1. CASE i < p
    <3>1. i \in 1 .. Depth /\ cell'[Order'[i]] = cell[Order[i]]
      BY <1>0, <1>1, <1>2, <2>0, <2>1
    <3>c. PICK c : c = cell[Order[i]].prev_tok
      OBVIOUS
    <3>t. PICK t : t = cell[Order[i]].token
      OBVIOUS
    <3>2. PICK k \in 0 .. Depth : k = i - 1
      <4>1. i - 1 \in 0 .. Depth
        BY <1>0, <3>1
      <4> QED BY <4>1
    <3>3. IsNewest(c, t, k) /\ k < p
      BY <1>0, <1>4, <2>1, <3>1, <3>c, <3>t, <3>2 DEF ChainsInOrder
    <3>4. IsNewest(c, t, k)'
      BY <1>1, <3>3, NewestKept DEF m
    <3> QED BY <3>1, <3>c, <3>t, <3>2, <3>4 DEF IsNewest
  <2>2. CASE i = p
    <3>1. Order'[i] = m /\ n # Anon /\ cell'[Order'[i]].prev_tok = prev
          /\ cell'[Order'[i]].token = n
      BY <1>0, <1>1, <1>2, <1>4, <2>0, <2>2
    <3>2. PICK k \in 0 .. Depth : k = p - 1
      <4>1. p - 1 \in 0 .. Depth
        BY <1>0
      <4> QED BY <4>1
    <3>3. IsNewest(prev, n, k) /\ k < p
      BY <1>0, <3>1, <3>2
    <3>4. IsNewest(prev, n, k)'
      BY <1>1, <3>3, NewestKept DEF m
    <3> QED BY <2>2, <3>1, <3>2, <3>4 DEF IsNewest
  <2>3. CASE i > p
    <3>1. i - 1 \in 1 .. Depth /\ i - 1 \in p .. Depth /\ cell'[Order'[i]] = cell[Order[i - 1]]
      BY <1>0, <1>1, <1>2, <2>0, <2>3
    <3>c. PICK c : c = cell[Order[i - 1]].prev_tok
      OBVIOUS
    <3>t. PICK t : t = cell[Order[i - 1]].token
      OBVIOUS
    <3>2. PICK k \in 0 .. Depth : k = i - 1 - 1
      <4>1. i - 1 - 1 \in 0 .. Depth
        BY <1>0, <3>1
      <4> QED BY <4>1
    <3>3. t \in Name /\ t # n
      BY <1>0, <1>4, <3>1, <3>t
    <3>4. IsNewest(c, t, k)
      BY <3>1, <3>c, <3>t, <3>2, <3>3 DEF ChainsInOrder
    <3>5. k + 1 >= p /\ k + 1 = i - 1
      BY <1>0, <3>1, <3>2
    <3>6. IsNewest(c, t, k + 1)'
      BY <1>1, <3>3, <3>4, <3>5, NewestKept DEF m
    <3> QED BY <3>1, <3>c, <3>t, <3>5, <3>6 DEF IsNewest
  <2> QED BY <1>0, <2>0, <2>1, <2>2, <2>3
<1> QED BY <1>3, <1>4 DEF ChainsInOrder

\* Below q and where no Sym of the name stands between, the newest is the same.
LEMMA NewestBelow ==
  ASSUME NEW c, NEW t, NEW k \in Nat, NEW q \in 0 .. k, IsNewest(c, t, k),
         \A j \in (q + 1) .. k : cell[Order[j]].token # t
  PROVE  IsNewest(c, t, q)
<1>1. CASE c = NULL /\ \A i \in 1 .. k : cell[Order[i]].token # t
  <2>1. \A i \in 1 .. q : i \in 1 .. k
    OBVIOUS
  <2> QED BY <1>1, <2>1 DEF IsNewest
<1>2. ASSUME NEW i \in 1 .. k, c = Order[i], cell[c].token = t,
             \A j \in (i + 1) .. k : cell[Order[j]].token # t
      PROVE  IsNewest(c, t, q)
  <2>1. i \in 1 .. q
    <3>1. i \notin (q + 1) .. k
      BY <1>2
    <3> QED BY <3>1
  <2>2. \A j \in (i + 1) .. q : j \in (i + 1) .. k
    OBVIOUS
  <2> QED BY <1>2, <2>1, <2>2 DEF IsNewest
<1> QED BY <1>1, <1>2 DEF IsNewest

\* What was newest among the first k stays so when Order is cut above them.
LEMMA NewestCut ==
  ASSUME NEW q \in Nat, CutTo(q), cell' = cell,
         NEW c, NEW t, NEW k \in 0 .. q, IsNewest(c, t, k)
  PROVE  IsNewest(c, t, k)'
<1>1. \A i \in 1 .. k : i \in 1 .. q /\ Order'[i] = Order[i]
  BY DEF CutTo
<1>2. CASE c = NULL /\ \A i \in 1 .. k : cell[Order[i]].token # t
  BY <1>1, <1>2 DEF IsNewest
<1>3. ASSUME NEW i \in 1 .. k, c = Order[i], cell[c].token = t,
             \A j \in (i + 1) .. k : cell[Order[j]].token # t
      PROVE  IsNewest(c, t, k)'
  <2>1. \A j \in (i + 1) .. k : j \in 1 .. k
    OBVIOUS
  <2> QED BY <1>1, <1>3, <2>1 DEF IsNewest
<1> QED BY <1>2, <1>3 DEF IsNewest

\* A pop of the top of Order keeps the chains.
LEMMA ChainsCut ==
  ASSUME TypeOK, ChainsInOrder,
         NEW s \in Seq(Sym), NEW k \in 0 .. Len(s), NEW off \in Nat,
         Depth = off + Len(s),
         \A i \in 1 .. Len(s) : off + i \in 1 .. Depth /\ Order[off + i] = s[i],
         sym_pop(s, k), CutTo(off + k)
  PROVE  ChainsInOrder'
<1>0. PICK q \in Nat : q = off + k
  <2>1. off + k \in Nat
    OBVIOUS
  <2> QED BY <2>1
<1>1. /\ cell' = cell /\ sym_identifier' = Unlinked(s, k) /\ CutTo(q) /\ Depth' = q
      /\ Depth \in Nat /\ q \in 0 .. Depth /\ Len(s) \in Nat /\ k \in Nat
  BY <1>0 DEF sym_pop, CutTo
<1>2. ASSUME NEW t \in Name PROVE IsNewest(sym_identifier[t], t, Depth)'
  <2>1. PICK o : o = OldestAbove(s, k, t)
    OBVIOUS
  <2>o. \/ /\ o = 0
           /\ \A j \in k + 1 .. Len(s) : cell[s[j]].token # t
        \/ /\ o # 0
           /\ o \in k + 1 .. Len(s)
           /\ cell[s[o]].token = t
           /\ \A j \in k + 1 .. o - 1 : cell[s[j]].token # t
    BY <1>1, <1>2, <2>1, Oldest
  <2>2. sym_identifier'[t] = IF o = 0 THEN sym_identifier[t] ELSE cell[s[o]].prev_tok
    BY <1>1, <2>1 DEF Unlinked
  <2>c. PICK c : c = sym_identifier'[t]
    OBVIOUS
  <2>3. IsNewest(c, t, q)
    <3>1. CASE o = 0
      <4>a. c = sym_identifier[t]
        BY <2>2, <2>c, <3>1
      <4>b. IsNewest(sym_identifier[t], t, Depth)
        BY <1>2 DEF ChainsInOrder
      <4>1. IsNewest(c, t, Depth)
        BY <4>a, <4>b
      <4>2. \A j \in k + 1 .. Len(s) : cell[s[j]].token # t
        BY <2>o, <3>1
      <4>3. \A j \in (q + 1) .. Depth : cell[Order[j]].token # t
        <5> TAKE j \in (q + 1) .. Depth
        <5>1. j - off \in k + 1 .. Len(s) /\ j - off \in 1 .. Len(s) /\ off + (j - off) = j
          BY <1>0, <1>1
        <5>2. Order[j] = s[j - off]
          BY <5>1
        <5> QED BY <4>2, <5>1, <5>2
      <4> QED BY <1>1, <4>1, <4>3, NewestBelow
    <3>2. CASE o # 0
      <4>1. /\ o \in k + 1 .. Len(s) /\ cell[s[o]].token = t
            /\ \A j \in k + 1 .. o - 1 : cell[s[j]].token # t
        BY <2>o, <3>2
      <4>2. o \in 1 .. Len(s) /\ off + o \in 1 .. Depth /\ Order[off + o] = s[o]
        BY <1>1, <4>1
      <4>3. PICK h \in Nat : h = off + o - 1
        <5>1. off + o - 1 \in Nat
          BY <4>2
        <5> QED BY <5>1
      <4>g. PICK g \in 1 .. Depth : g = off + o
        BY <4>2
      <4>a. c = cell[Order[g]].prev_tok /\ t = cell[Order[g]].token /\ h = g - 1
        BY <2>2, <2>c, <3>2, <4>1, <4>2, <4>3, <4>g
      <4>b. IsNewest(cell[Order[g]].prev_tok, cell[Order[g]].token, g - 1)
        BY <1>2, <4>a DEF ChainsInOrder
      <4>4. IsNewest(c, t, h)
        BY <4>a, <4>b
      <4>5. q \in 0 .. h
        BY <1>0, <1>1, <4>1, <4>3
      <4>6. \A j \in (q + 1) .. h : cell[Order[j]].token # t
        <5> TAKE j \in (q + 1) .. h
        <5>1. /\ j - off \in k + 1 .. o - 1 /\ j - off \in 1 .. Len(s)
              /\ off + (j - off) = j
          BY <1>0, <1>1, <4>1, <4>3
        <5>2. Order[j] = s[j - off]
          BY <5>1
        <5> QED BY <4>1, <5>1, <5>2
      <4> QED BY <4>4, <4>5, <4>6, NewestBelow
    <3> QED BY <3>1, <3>2
  <2>4. q \in 0 .. q
    BY <1>1
  <2>5. IsNewest(c, t, q)'
    BY <1>1, <2>3, <2>4, NewestCut
  <2> QED BY <1>1, <2>c, <2>5 DEF IsNewest
<1>3. ASSUME NEW i \in 1 .. Depth', cell'[Order'[i]].token \in Name
      PROVE  IsNewest(cell[Order[i]].prev_tok, cell[Order[i]].token, i - 1)'
  <2>1. i \in 1 .. q /\ i \in 1 .. Depth /\ Order'[i] = Order[i] /\ cell' = cell
    BY <1>1 DEF CutTo
  <2>c. PICK c : c = cell[Order[i]].prev_tok
    OBVIOUS
  <2>t. PICK t : t = cell[Order[i]].token
    OBVIOUS
  <2>2. PICK h \in 0 .. q : h = i - 1
    <3>1. i - 1 \in 0 .. q
      BY <1>1, <2>1
    <3> QED BY <3>1
  <2>3. IsNewest(c, t, h)
    BY <1>3, <2>1, <2>c, <2>t, <2>2 DEF ChainsInOrder
  <2>4. IsNewest(c, t, h)'
    BY <1>1, <2>3, NewestCut
  <2> QED BY <2>1, <2>c, <2>t, <2>2, <2>4 DEF IsNewest
<1> QED BY <1>2, <1>3 DEF ChainsInOrder

LEMMA PushChains ==
  ASSUME HeapInv, ChainsInOrder, NEW n \in Name \cup {Anon}, NEW b, sym_push(n, b)
  PROVE  ChainsInOrder'
<1>1. TypeOK /\ PoolOK /\ SymsDisjoint /\ TakeSym
  BY DEF HeapInv, sym_push
<1>2. InsertedAt(Depth + 1, sym_malloc)
  BY <1>1, PushAppends
<1>3. PICK p \in 1 .. Depth + 1 : p = Depth + 1
  <2>1. Depth + 1 \in 1 .. Depth + 1
    BY <1>1, OrderType
  <2> QED BY <2>1
<1>4. Depth \in Nat /\ p - 1 = Depth /\ p .. Depth = {}
  BY <1>1, <1>3, OrderType
<1>5. n # Anon => IsNewest(sym_identifier[n], n, p - 1)
  BY <1>4 DEF ChainsInOrder
<1>6. PICK prev : prev = IF n = Anon THEN NULL ELSE sym_identifier[n]
  OBVIOUS
<1>7. cell' = Filled(n, b, prev) /\ Bind(n)
  BY <1>6 DEF sym_push
<1>8. n # Anon => IsNewest(prev, n, p - 1) /\ \A j \in p .. Depth : cell[Order[j]].token # n
  BY <1>4, <1>5, <1>6
<1> QED BY <1>1, <1>2, <1>3, <1>7, <1>8, ChainsInserted

LEMMA GlobalPushChains ==
  ASSUME HeapInv, ChainsInOrder, NEW n \in Name \cup {Anon}, NEW b,
         global_identifier_push(n, b)
  PROVE  ChainsInOrder'
<1>1. TypeOK /\ PoolOK /\ SymsDisjoint /\ TakeSym
  BY DEF HeapInv, global_identifier_push
<1>2. PICK p \in 1 .. Depth + 1 : p = Len(global_stack) + 1
  <2>1. Len(global_stack) + 1 \in 1 .. Depth + 1
    BY <1>1, OrderType
  <2> QED BY <2>1
<1>3. InsertedAt(p, sym_malloc)
  BY <1>1, <1>2, GlobalPushInserts DEF global_identifier_push
<1>4. PICK prev : prev = NULL
  OBVIOUS
<1>5. cell' = Filled(n, b, prev) /\ Bind(n)
  BY <1>4 DEF global_identifier_push
<1>6. n # Anon => IsNewest(prev, n, p - 1) /\ \A j \in p .. Depth : cell[Order[j]].token # n
  <2> SUFFICES ASSUME n # Anon
               PROVE  IsNewest(prev, n, p - 1) /\ \A j \in p .. Depth : cell[Order[j]].token # n
    OBVIOUS
  <2>1. IsNewest(NULL, n, Depth)
    BY DEF global_identifier_push, ChainsInOrder
  <2>2. \A i \in 1 .. Depth : Order[i] # NULL
    BY <1>1, OrderType, ScopesAssumption
  <2>3. \A i \in 1 .. Depth : cell[Order[i]].token # n
    BY <2>1, <2>2 DEF IsNewest
  <2>4. /\ \A i \in 1 .. p - 1 : i \in 1 .. Depth
        /\ \A i \in p .. Depth : i \in 1 .. Depth
    BY <1>1, OrderType
  <2> QED BY <1>4, <2>3, <2>4 DEF IsNewest
<1> QED BY <1>1, <1>3, <1>5, <1>6, ChainsInserted

LEMMA PopLocalChains ==
  ASSUME HeapInv, ChainsInOrder, NEW k \in 0 .. Len(local_stack),
         sym_pop(local_stack, k), local_stack' = SubSeq(local_stack, 1, k),
         global_stack' = global_stack
  PROVE  ChainsInOrder'
<1>1. /\ TypeOK /\ local_stack \in Seq(Sym) /\ Len(global_stack) \in Nat
      /\ Depth = Len(global_stack) + Len(local_stack)
  BY OrderType DEF HeapInv, TypeOK
<1>2. CutTo(Len(global_stack) + k)
  BY <1>1, LocalCut
<1> QED BY <1>1, <1>2, StacksInOrder, ChainsCut

LEMMA PopGlobalChains ==
  ASSUME HeapInv, ChainsInOrder, local_stack = <<>>, local_stack' = local_stack,
         sym_pop(global_stack, 0), global_stack' = <<>>
  PROVE  ChainsInOrder'
<1>1. /\ TypeOK /\ global_stack \in Seq(Sym) /\ Len(global_stack) \in Nat
      /\ 0 \in 0 .. Len(global_stack) /\ 0 \in Nat
      /\ Depth = 0 + Len(global_stack)
  BY OrderType DEF HeapInv, TypeOK, Depth
<1>2. CutTo(0 + 0)
  BY DEF CutTo, Depth
<1>3. \A i \in 1 .. Len(global_stack) :
        0 + i \in 1 .. Depth /\ Order[0 + i] = global_stack[i]
  BY <1>1, StacksInOrder
<1> QED BY <1>1, <1>2, <1>3, ChainsCut

(***************************************************************************)
(* Look-up, as long as no compilation starts over a failed one             *)
(***************************************************************************)
ScopeInv == HeapInv /\ PhaseOK /\ LookupIsInnermost

LEMMA ChainsKept ==
  ASSUME ChainsInOrder, UNCHANGED heap
  PROVE  ChainsInOrder'
<1>1. /\ cell' = cell /\ global_stack' = global_stack /\ local_stack' = local_stack
      /\ sym_identifier' = sym_identifier
  BY DEF heap
<1>2. Depth' = Depth /\ Order' = Order
  BY <1>1 DEF Depth, Order
<1> QED BY <1>1, <1>2 DEF ChainsInOrder, IsNewest

LEMMA InitScopeInv == Init => ScopeInv
<1> SUFFICES ASSUME Init PROVE ScopeInv
  OBVIOUS
<1>1. PhaseOK
  BY DEF Init, PhaseOK
<1>2. Depth = 0 /\ sym_identifier = [n \in Name |-> NULL]
  BY DEF Init, Depth
<1>3. ChainsInOrder
  BY <1>2 DEF ChainsInOrder, IsNewest
<1> QED BY <1>1, <1>3, InitHeapInv DEF ScopeInv, LookupIsInnermost

\* The actions that push: the phase and the chains they leave behind.
LEMMA PushScopes ==
  ASSUME ScopeInv, phase \notin {"idle", "failed", "proto"}, phase' = phase,
         NEW n \in Name \cup {Anon}, NEW b,
         sym_push(n, b) \/ (global_identifier_push(n, b) /\ phase # "file")
  PROVE  PhaseOK' /\ LookupIsInnermost'
<1>1. HeapInv /\ ChainsInOrder
  BY DEF ScopeInv, LookupIsInnermost
<1>2. ChainsInOrder'
  BY <1>1, PushChains, GlobalPushChains
<1>3. PhaseOK'
  <2>1. CASE phase = "file"
    <3>1. local_stack' = <<>>
      BY <2>1 DEF ScopeInv, PhaseOK, sym_push
    <3> QED BY <2>1, <3>1 DEF PhaseOK
  <2>2. CASE phase # "file"
    BY <2>2 DEF PhaseOK
  <2> QED BY <2>1, <2>2
<1> QED BY <1>2, <1>3 DEF LookupIsInnermost

\* The actions that leave the tables alone.
LEMMA HeapKeptScopes ==
  ASSUME ScopeInv, UNCHANGED heap,
         \/ phase' = phase
         \/ phase = "file" /\ phase' = "proto"
         \/ phase = "params" /\ phase' = "body"
  PROVE  PhaseOK' /\ LookupIsInnermost'
<1>1. PhaseOK'
  BY DEF ScopeInv, PhaseOK, heap
<1>2. CASE phase = "failed"
  BY <1>1, <1>2 DEF LookupIsInnermost
<1>3. CASE phase # "failed"
  <2>1. ChainsInOrder
    BY <1>3 DEF ScopeInv, LookupIsInnermost
  <2> QED BY <1>1, <2>1, ChainsKept DEF LookupIsInnermost
<1> QED BY <1>1, <1>2, <1>3

LEMMA NextScopes ==
  ASSUME "failed" \notin RestartFrom, ScopeInv, [Next]_vars
  PROVE  PhaseOK' /\ LookupIsInnermost'
<1>t. /\ HeapInv /\ PhaseOK /\ (phase # "failed" => ChainsInOrder)
      /\ local_stack \in Seq(Sym)
      /\ Ident \subseteq Name \cup {Anon} /\ Name \subseteq Name \cup {Anon}
      /\ Anon \in Name \cup {Anon}
  BY DEF ScopeInv, LookupIsInnermost, HeapInv, TypeOK, Name
<1>1. CASE StartCompile
  <2>1. sym_push(Anon, FALSE) /\ phase = "idle" /\ phase' = "file"
    BY <1>1, ScopesAssumption DEF StartCompile
  <2>2. ChainsInOrder'
    BY <1>t, <2>1, PushChains
  <2>3. local_stack' = <<>>
    BY <1>t, <2>1 DEF PhaseOK, sym_push
  <2> QED BY <2>1, <2>2, <2>3 DEF PhaseOK, LookupIsInnermost
<1>2. CASE EndCompile
  <2>1. /\ sym_pop(global_stack, 0) /\ global_stack' = <<>> /\ local_stack' = local_stack
        /\ phase' = "idle" /\ phase = "file"
    BY <1>2 DEF EndCompile
  <2>2. local_stack = <<>>
    BY <1>t, <2>1 DEF PhaseOK
  <2>3. ChainsInOrder'
    BY <1>t, <2>1, <2>2, PopGlobalChains
  <2> QED BY <2>1, <2>2, <2>3 DEF PhaseOK, LookupIsInnermost
<1>3. CASE Fail
  BY <1>3 DEF Fail, PhaseOK, LookupIsInnermost
<1>4. ASSUME NEW n \in Ident, DeclareFunction(n)
      PROVE  PhaseOK' /\ LookupIsInnermost'
  <2>1. phase' = "proto" /\ phase = "file"
    BY <1>4 DEF DeclareFunction
  <2>2. CASE UNCHANGED <<heap, decls>>
    BY <2>1, <2>2, HeapKeptScopes
  <2>3. CASE global_identifier_push(n, TRUE)
    <3>1. ChainsInOrder'
      BY <1>t, <1>4, <2>1, <2>3, GlobalPushChains
    <3>2. local_stack' = <<>>
      BY <1>t, <2>1, <2>3 DEF PhaseOK, global_identifier_push
    <3> QED BY <2>1, <3>1, <3>2 DEF PhaseOK, LookupIsInnermost
  <2> QED BY <1>4, <2>2, <2>3 DEF DeclareFunction
<1>5. CASE OpenFunction
  <2>1. /\ TakeSym /\ cell' = Filled(Anon, FALSE, NULL)
        /\ local_stack' = Append(local_stack, sym_malloc)
        /\ global_stack' = global_stack /\ sym_identifier' = sym_identifier
        /\ phase = "proto" /\ phase' = "params"
    BY <1>5 DEF OpenFunction
  <2>2. TypeOK /\ PoolOK /\ SymsDisjoint /\ ChainsInOrder
    BY <1>t, <2>1 DEF HeapInv
  <2>3. Bind(Anon)
    BY <2>1 DEF Bind
  <2>4. PICK p \in 1 .. Depth + 1 : p = Depth + 1
    <3>1. Depth + 1 \in 1 .. Depth + 1
      BY <2>2, OrderType
    <3> QED BY <3>1
  <2>5. InsertedAt(p, sym_malloc)
    BY <2>1, <2>2, <2>4, LocalPushInserts
  <2>6. ChainsInOrder'
    BY <1>t, <2>1, <2>2, <2>3, <2>5, ChainsInserted
  <2> QED BY <2>1, <2>6 DEF PhaseOK, LookupIsInnermost
<1>6. ASSUME NEW n \in Ident, PushParam(n)
      PROVE  PhaseOK' /\ LookupIsInnermost'
  <2>1. sym_push(n, FALSE) /\ phase = "params" /\ phase' = phase
    BY <1>6 DEF PushParam
  <2> QED BY <1>t, <1>6, <2>1, PushScopes
<1>7. CASE OpenBody
  BY <1>7, HeapKeptScopes DEF OpenBody
<1>8. CASE EndFunction
  <2>1. /\ sym_pop(local_stack, 0) /\ local_stack' = <<>> /\ global_stack' = global_stack
        /\ phase = "body" /\ phase' = "file"
    BY <1>8 DEF EndFunction
  <2>2. SubSeq(local_stack, 1, 0) = <<>> /\ 0 \in 0 .. Len(local_stack)
    BY <1>t, SubSeqEmpty
  <2>3. ChainsInOrder'
    BY <1>t, <2>1, <2>2, PopLocalChains
  <2> QED BY <2>1, <2>3 DEF PhaseOK, LookupIsInnermost
<1>9. CASE EnterBlock
  BY <1>9, HeapKeptScopes DEF EnterBlock
<1>10. CASE EnterStatementExpr
  BY <1>10, HeapKeptScopes DEF EnterStatementExpr
<1>11. CASE LeaveBlock
  <2>1. /\ InBlock /\ phase = "body" /\ phase' = "body"
        /\ sym_pop(local_stack, Here.pos)
        /\ local_stack' = SubSeq(local_stack, 1, Here.pos)
        /\ global_stack' = global_stack
    BY <1>11 DEF LeaveBlock, BetweenStatements, InBlock
  <2>2. Here.pos \in 0 .. Len(local_stack)
    BY <1>t, <2>1, HereType
  <2>3. ChainsInOrder'
    BY <1>t, <2>1, <2>2, PopLocalChains
  <2> QED BY <2>1, <2>3 DEF PhaseOK, LookupIsInnermost
<1>12. ASSUME NEW n \in Ident, NEW b \in BOOLEAN, PushName(n, b)
       PROVE  PhaseOK' /\ LookupIsInnermost'
  <2>1. sym_push(n, b) /\ phase' = phase /\ phase \in {"file", "body"}
    BY <1>12 DEF PushName, BetweenStatements, InBlock
  <2> QED BY <1>t, <1>12, <2>1, PushScopes
<1>13. ASSUME NEW n \in Name, DeclareUnlessBound(n)
       PROVE  PhaseOK' /\ LookupIsInnermost'
  <2>1. sym_push(n, n \in Ident) /\ phase' = phase /\ phase \in {"file", "body"}
    BY <1>13 DEF DeclareUnlessBound, BetweenStatements, InBlock
  <2> QED BY <1>t, <1>13, <2>1, PushScopes
<1>14. CASE PushType
  <2>1. sym_push(Anon, FALSE) /\ phase' = phase /\ phase \in {"file", "body"}
    BY <1>14 DEF PushType, InBlock
  <2> QED BY <1>t, <2>1, PushScopes
<1>15. ASSUME NEW n \in Ident, UseName(n)
       PROVE  PhaseOK' /\ LookupIsInnermost'
  BY <1>15, HeapKeptScopes DEF UseName
<1>16. ASSUME NEW n \in Ident, CallUndeclared(n)
       PROVE  PhaseOK' /\ LookupIsInnermost'
  <2>1. global_identifier_push(n, TRUE) /\ phase' = phase /\ phase = "body"
    BY <1>16 DEF CallUndeclared, InBlock
  <2> QED BY <1>t, <1>16, <2>1, PushScopes
<1>17. CASE UseLiteral
  <2>1. global_identifier_push(Anon, TRUE) /\ phase' = phase /\ phase = "body"
    BY <1>17 DEF UseLiteral, InBlock
  <2> QED BY <1>t, <2>1, PushScopes
<1>18. CASE DropValue
  BY <1>18, HeapKeptScopes DEF DropValue
<1>19. CASE UNCHANGED vars
  <2>1. UNCHANGED heap /\ phase' = phase
    BY <1>19 DEF vars, heap
  <2> QED BY <2>1, HeapKeptScopes
<1> QED BY <1>1, <1>2, <1>3, <1>4, <1>5, <1>6, <1>7, <1>8, <1>9, <1>10, <1>11,
           <1>12, <1>13, <1>14, <1>15, <1>16, <1>17, <1>18, <1>19 DEF Next

\* sym_find and struct_find give the innermost declaration, and prev_tok the
\* ones it hides in turn, for every program and every pool size, as long as
\* the caller does not compile again after an error.
THEOREM LookupGivesInnermost ==
  ASSUME "failed" \notin RestartFrom
  PROVE  Spec => []LookupIsInnermost
<1>1. ScopeInv /\ [Next]_vars => ScopeInv'
  BY NextHeapInv, NextScopes DEF ScopeInv
<1>2. ScopeInv => LookupIsInnermost
  BY DEF ScopeInv
<1> QED BY <1>1, <1>2, InitScopeInv, PTL DEF Spec

(***************************************************************************)
(* Values: what the expression stack refers to is still in use             *)
(***************************************************************************)
Denotes(v) == /\ \E k \in 1 .. Depth : Order[k] = v.sym
              /\ cell[v.sym].decl = v.decl

\* Every value denotes its symbol, also between an error and the next unit.
AllDenote == \A i \in DOMAIN vstack : Denotes(vstack[i])

\* A value made outside a block refers to nothing that the block declares.
OuterValues ==
  \A i \in DOMAIN marks :
    \A j \in 1 .. marks[i].base, k \in marks[i].pos + 1 .. Len(local_stack) :
       vstack[j].sym # local_stack[k]

\* No value is left outside function bodies, and the body's outermost block
\* is no statement expression: it ends without a value.
NoneOutside ==
  /\ marks = <<>> /\ phase # "failed" => vstack = <<>>
  /\ marks # <<>> => marks[1].base = 0 /\ ~marks[1].is_expr

ValuesInv == (phase # "failed" => AllDenote) /\ OuterValues /\ NoneOutside

\* A push leaves the Syms in use in use, and what they hold.
LEMMA PushDenotes ==
  ASSUME HeapInv, TakeSym, NEW n, NEW b, NEW prev, cell' = Filled(n, b, prev),
         NEW p \in 1 .. Depth + 1, InsertedAt(p, sym_malloc),
         NEW v, Denotes(v)
  PROVE  Denotes(v)' /\ v.sym # sym_malloc
<1>1. TypeOK /\ PoolOK /\ SymsDisjoint
  BY DEF HeapInv
<1>2. PICK k \in 1 .. Depth : Order[k] = v.sym
  BY DEF Denotes
<1>3. v.sym \in Sym /\ v.sym # sym_malloc
  BY <1>1, <1>2, Malloc, OrderType
<1>4. cell'[v.sym] = cell[v.sym]
  BY <1>1, <1>3 DEF Filled, TypeOK
<1>5. \E i \in 1 .. Depth' : Order'[i] = v.sym
  <2>1. /\ Depth \in Nat /\ Depth' = Depth + 1
        /\ \A i \in 1 .. Depth + 1 :
             Order'[i] = IF i < p THEN Order[i] ELSE IF i = p THEN sym_malloc ELSE Order[i - 1]
    BY <1>1, OrderType DEF InsertedAt
  <2>2. CASE k < p
    <3>1. k \in 1 .. Depth' /\ Order'[k] = v.sym
      BY <1>2, <2>1, <2>2
    <3> QED BY <3>1
  <2>3. CASE ~(k < p)
    <3>1. /\ k + 1 \in 1 .. Depth' /\ ~(k + 1 < p) /\ k + 1 # p /\ k + 1 - 1 = k
      BY <2>1, <2>3
    <3>2. Order'[k + 1] = v.sym
      BY <1>2, <2>1, <3>1
    <3> QED BY <3>1, <3>2
  <2> QED BY <2>2, <2>3
<1> QED BY <1>3, <1>4, <1>5 DEF Denotes

\* So a push in a function keeps all that is said of values, when it puts the
\* new Sym on local_stack or leaves local_stack alone, and makes at most one
\* value, of that Sym.
LEMMA PushValues ==
  ASSUME HeapInv, ValuesInv, phase # "failed", phase' # "failed",
         NEW n, NEW b, NEW prev, TakeSym, cell' = Filled(n, b, prev),
         NEW p \in 1 .. Depth + 1, InsertedAt(p, sym_malloc),
         local_stack' = local_stack \/ local_stack' = Append(local_stack, sym_malloc),
         marks' = marks,
         \/ vstack' = vstack
         \/ /\ vstack' = Append(vstack, [sym |-> sym_malloc, decl |-> NewDecl(n)])
            /\ marks # <<>>
  PROVE  ValuesInv'
<1>0. /\ marks \in Seq(Mark) /\ vstack \in Seq(Value) /\ local_stack \in Seq(Sym)
      /\ TypeOK /\ PoolOK /\ SymsDisjoint /\ Len(vstack) \in Nat
      /\ \A i \in DOMAIN marks : /\ marks[i].base \in 0 .. Len(vstack)
                                 /\ marks[i].pos \in 0 .. Len(local_stack)
  BY DEF HeapInv, TypeOK, MarksOK, BasesOK
<1>1. AllDenote'
  <2>1. ASSUME NEW i \in DOMAIN vstack, vstack'[i] = vstack[i] PROVE Denotes(vstack[i])'
    <3>1. PICK v : v = vstack[i]
      OBVIOUS
    <3>2. Denotes(v)
      BY <3>1 DEF ValuesInv, AllDenote
    <3>3. Denotes(v)'
      BY <3>2, PushDenotes
    <3> QED BY <2>1, <3>1, <3>3 DEF Denotes
  <2>2. CASE vstack' = vstack
    BY <2>1, <2>2 DEF AllDenote, Denotes
  <2>3. CASE vstack' = Append(vstack, [sym |-> sym_malloc, decl |-> NewDecl(n)])
    <3>1. PICK l \in Nat : l = Len(vstack) + 1
      BY <1>0
    <3>2. /\ DOMAIN vstack' = 1 .. l /\ DOMAIN vstack = 1 .. l - 1
          /\ \A i \in 1 .. l - 1 : vstack'[i] = vstack[i]
          /\ vstack'[l] = [sym |-> sym_malloc, decl |-> NewDecl(n)]
      BY <1>0, <2>3, <3>1
    <3>3. sym_malloc \in Sym
      BY <1>0, Malloc, ScopesAssumption DEF Sym
    <3>4. cell'[sym_malloc].decl = NewDecl(n)
      BY <1>0, <3>3 DEF Filled, TypeOK
    <3>5. p \in 1 .. Depth' /\ Order'[p] = sym_malloc
      BY <1>0, OrderType DEF InsertedAt
    <3>6. Denotes(vstack[l])'
      BY <3>2, <3>4, <3>5 DEF Denotes
    <3>7. \A i \in DOMAIN vstack' : i = l \/ i \in DOMAIN vstack
      BY <3>1, <3>2
    <3>8. \A i \in DOMAIN vstack : Denotes(vstack[i])'
      BY <2>1, <3>2
    <3> QED BY <3>6, <3>7, <3>8 DEF AllDenote
  <2> QED BY <2>2, <2>3
<1>2. OuterValues'
  <2> SUFFICES ASSUME NEW i \in DOMAIN marks, NEW j \in 1 .. marks[i].base,
                      NEW k \in marks[i].pos + 1 .. Len(local_stack')
               PROVE  vstack'[j].sym # local_stack'[k]
    BY DEF OuterValues
  <2>1. j \in DOMAIN vstack
    BY <1>0
  <2>2. Denotes(vstack[j])
    BY <2>1 DEF ValuesInv, AllDenote
  <2>3. vstack[j].sym # sym_malloc
    BY <2>2, PushDenotes
  <2>4. vstack'[j] = vstack[j]
    BY <1>0, <2>1
  <2>5. CASE k \in marks[i].pos + 1 .. Len(local_stack)
    <3>1. vstack[j].sym # local_stack[k]
      BY <2>5 DEF ValuesInv, OuterValues
    <3>2. k \in 1 .. Len(local_stack)
      BY <1>0, <2>5
    <3>3. CASE local_stack' = Append(local_stack, sym_malloc)
      <4>1. local_stack'[k] = local_stack[k]
        BY <1>0, <3>2, <3>3
      <4> QED BY <2>4, <3>1, <4>1
    <3>4. CASE local_stack' = local_stack
      BY <2>4, <3>1, <3>4
    <3> QED BY <3>3, <3>4
  <2>6. CASE k \notin marks[i].pos + 1 .. Len(local_stack)
    <3>1. local_stack' = Append(local_stack, sym_malloc) /\ k = Len(local_stack) + 1
      BY <1>0, <2>6
    <3>2. local_stack'[k] = sym_malloc
      BY <1>0, <3>1
    <3> QED BY <2>3, <2>4, <3>2
  <2> QED BY <2>5, <2>6
<1>3. NoneOutside'
  BY DEF ValuesInv, NoneOutside
<1> QED BY <1>1, <1>2, <1>3 DEF ValuesInv

LEMMA SymPushValues ==
  ASSUME HeapInv, ValuesInv, phase # "failed", phase' # "failed",
         NEW n, NEW b, sym_push(n, b), marks' = marks, vstack' = vstack
  PROVE  ValuesInv'
<1>1. TypeOK /\ TakeSym
  BY DEF HeapInv, sym_push
<1>2. PICK p \in 1 .. Depth + 1 : p = Depth + 1
  <2>1. Depth + 1 \in 1 .. Depth + 1
    BY <1>1, OrderType
  <2> QED BY <2>1
<1>3. InsertedAt(p, sym_malloc)
  BY <1>1, <1>2, PushAppends
<1>4. PICK prev : cell' = Filled(n, b, prev)
  BY DEF sym_push
<1>5. local_stack' = local_stack \/ local_stack' = Append(local_stack, sym_malloc)
  BY DEF sym_push
<1> QED BY <1>1, <1>3, <1>4, <1>5, PushValues

\* A block closes (or a function, with k = 0): no value refers to what goes.
LEMMA PopValues ==
  ASSUME HeapInv, NEW k \in 0 .. Len(local_stack), sym_pop(local_stack, k),
         local_stack' = SubSeq(local_stack, 1, k), global_stack' = global_stack,
         NEW v, Denotes(v), \A j \in k + 1 .. Len(local_stack) : v.sym # local_stack[j]
  PROVE  Denotes(v)'
<1>1. TypeOK /\ CutTo(Len(global_stack) + k) /\ cell' = cell
  BY LocalCut DEF HeapInv, sym_pop
<1>2. PICK i \in 1 .. Depth : Order[i] = v.sym
  BY DEF Denotes
<1>3. /\ Len(global_stack) \in Nat /\ Len(local_stack) \in Nat /\ k \in Nat
      /\ Depth = Len(global_stack) + Len(local_stack)
  BY <1>1, OrderType
<1>4. i <= Len(global_stack) + k
  <2> SUFFICES ASSUME i > Len(global_stack) + k PROVE FALSE
    BY <1>3
  <2>1. PICK j \in k + 1 .. Len(local_stack) : j = i - Len(global_stack)
    <3>1. i - Len(global_stack) \in k + 1 .. Len(local_stack)
      BY <1>3
    <3> QED BY <3>1
  <2>2. Len(global_stack) + j = i /\ j \in 1 .. Len(local_stack)
    BY <1>3, <2>1
  <2>3. Order[i] = local_stack[j]
    BY <1>1, <2>2, StacksInOrder
  <2> QED BY <1>2, <2>1, <2>3
<1>5. i \in 1 .. Depth' /\ Order'[i] = v.sym
  BY <1>1, <1>2, <1>3, <1>4 DEF CutTo
<1> QED BY <1>1, <1>5 DEF Denotes

LEMMA DenotesKept ==
  ASSUME UNCHANGED heap, NEW v, Denotes(v)
  PROVE  Denotes(v)'
BY DEF Denotes, heap, Depth, Order

\* Steps that leave the tables and the blocks alone and take values off, or
\* put one on, above all that the blocks recorded.
LEMMA ValuesChange ==
  ASSUME HeapInv, ValuesInv, phase # "failed", phase' # "failed",
         UNCHANGED <<heap, marks>>, vstack' \in Seq(Value),
         marks = <<>> => vstack' = <<>>,
         \A i \in DOMAIN vstack' : \/ i \in DOMAIN vstack /\ vstack'[i] = vstack[i]
                                   \/ Denotes(vstack'[i]) /\ i \notin DOMAIN vstack,
         \A i \in DOMAIN marks : marks[i].base <= Len(vstack')
  PROVE  ValuesInv'
<1>1. AllDenote'
  <2> SUFFICES ASSUME NEW i \in DOMAIN vstack' PROVE Denotes(vstack[i])'
    BY DEF AllDenote
  <2>1. PICK v : v = vstack'[i]
    OBVIOUS
  <2>2. Denotes(v)
    BY <2>1 DEF ValuesInv, AllDenote
  <2>3. Denotes(v)'
    BY <2>2, DenotesKept DEF heap
  <2> QED BY <2>1, <2>3 DEF Denotes
<1>2. OuterValues'
  <2> SUFFICES ASSUME NEW i \in DOMAIN marks, NEW j \in 1 .. marks[i].base,
                      NEW k \in marks[i].pos + 1 .. Len(local_stack)
               PROVE  vstack'[j].sym # local_stack[k]
    BY DEF OuterValues, heap
  <2>1. /\ vstack \in Seq(Value) /\ marks[i].base \in 0 .. Len(vstack)
        /\ marks[i].base <= Len(vstack')
    BY DEF HeapInv, TypeOK, BasesOK
  <2>2. j \in DOMAIN vstack /\ j \in DOMAIN vstack'
    BY <2>1
  <2>3. vstack'[j] = vstack[j]
    BY <2>2
  <2> QED BY <2>3 DEF ValuesInv, OuterValues
<1>3. NoneOutside'
  BY DEF ValuesInv, NoneOutside
<1> QED BY <1>1, <1>2, <1>3 DEF ValuesInv

LEMMA GlobalPushValues ==
  ASSUME HeapInv, ValuesInv, phase # "failed", phase' # "failed",
         NEW n, NEW b, global_identifier_push(n, b), marks' = marks, marks # <<>>,
         vstack' = Append(vstack, [sym |-> sym_malloc, decl |-> NewDecl(n)])
  PROVE  ValuesInv'
<1>1. TypeOK /\ TakeSym /\ cell' = Filled(n, b, NULL) /\ local_stack' = local_stack
  BY DEF HeapInv, global_identifier_push
<1>2. PICK p \in 1 .. Depth + 1 : p = Len(global_stack) + 1
  <2>1. Len(global_stack) + 1 \in 1 .. Depth + 1
    BY <1>1, OrderType
  <2> QED BY <2>1
<1>3. InsertedAt(p, sym_malloc)
  BY <1>1, <1>2, GlobalPushInserts DEF global_identifier_push
<1> QED BY <1>1, <1>3, PushValues

\* A block opens: what is on the expression stack is outside it.
LEMMA BlockOpensValues ==
  ASSUME HeapInv, ValuesInv, InBlock, phase' = phase, UNCHANGED heap,
         NEW e, NEW b \in 0 .. Len(vstack), vstack' = SubSeq(vstack, 1, b),
         \A i \in DOMAIN marks : marks[i].base <= b,
         marks' = Append(marks, [pos |-> Len(local_stack), is_expr |-> e, base |-> b])
  PROVE  ValuesInv'
<1>0. /\ marks \in Seq(Mark) /\ vstack \in Seq(Value) /\ local_stack \in Seq(Sym)
      /\ marks # <<>> /\ phase # "failed" /\ local_stack' = local_stack
      /\ \A i \in DOMAIN marks : /\ marks[i].base \in 0 .. Len(vstack)
                                 /\ marks[i].pos \in 0 .. Len(local_stack)
  BY DEF HeapInv, TypeOK, MarksOK, BasesOK, InBlock, heap
<1>1. Len(vstack') = b /\ \A i \in 1 .. b : vstack'[i] = vstack[i] /\ i \in DOMAIN vstack
  BY <1>0
<1>2. AllDenote'
  <2> SUFFICES ASSUME NEW i \in DOMAIN vstack' PROVE Denotes(vstack[i])'
    BY DEF AllDenote
  <2>1. PICK v : v = vstack'[i] /\ Denotes(v)
    BY <1>0, <1>1 DEF ValuesInv, AllDenote
  <2>2. Denotes(v)'
    BY <2>1, DenotesKept
  <2> QED BY <2>1, <2>2 DEF Denotes
<1>3. /\ Len(marks') = Len(marks) + 1
      /\ \A i \in 1 .. Len(marks) : marks'[i] = marks[i]
      /\ marks'[Len(marks) + 1] = [pos |-> Len(local_stack), is_expr |-> e, base |-> b]
      /\ marks' # <<>> /\ 1 \in 1 .. Len(marks)
  BY <1>0
<1>4. OuterValues'
  <2> SUFFICES ASSUME NEW i \in DOMAIN marks', NEW j \in 1 .. marks'[i].base,
                      NEW k \in marks'[i].pos + 1 .. Len(local_stack)
               PROVE  vstack'[j].sym # local_stack[k]
    BY <1>0 DEF OuterValues
  <2>1. i # Len(marks) + 1
    BY <1>0, <1>3
  <2>2. i \in DOMAIN marks /\ marks'[i] = marks[i]
    BY <1>0, <1>3, <2>1
  <2>3. j \in 1 .. b
    BY <1>0, <2>2
  <2> QED BY <1>1, <2>2, <2>3 DEF ValuesInv, OuterValues
<1>5. NoneOutside'
  BY <1>0, <1>3 DEF ValuesInv, NoneOutside
<1> QED BY <1>2, <1>4, <1>5 DEF ValuesInv

LEMMA InitValues == Init => ValuesInv
BY DEF Init, ValuesInv, AllDenote, OuterValues, NoneOutside

LEMMA NextValues ==
  ASSUME ~SymbolResults, ScopeInv, ValuesInv, [Next]_vars
  PROVE  ValuesInv'
<1>t. /\ HeapInv /\ TypeOK /\ MarksOK /\ BasesOK /\ marks \in Seq(Mark) /\ vstack \in Seq(Value)
      /\ Len(vstack) \in Nat /\ Len(local_stack) \in Nat /\ local_stack \in Seq(Sym)
      /\ Len(marks) \in Nat
      /\ (phase # "failed" => AllDenote) /\ OuterValues /\ NoneOutside
  BY DEF ScopeInv, HeapInv, TypeOK, ValuesInv
<1>1. CASE StartCompile
  <2>1. marks' = <<>> /\ vstack' = <<>>
    BY <1>t, <1>1, ScopesAssumption DEF StartCompile, MarksOK
  <2> QED BY <2>1 DEF ValuesInv, AllDenote, OuterValues, NoneOutside
<1>2. CASE EndCompile
  <2>1. marks = <<>> /\ vstack = <<>> /\ marks' = marks /\ vstack' = vstack
    BY <1>t, <1>2 DEF EndCompile, MarksOK, NoneOutside
  <2> QED BY <2>1 DEF ValuesInv, AllDenote, OuterValues, NoneOutside
<1>3. CASE Fail
  BY <1>3 DEF Fail, ValuesInv, OuterValues, NoneOutside
<1>4. ASSUME NEW n \in Ident, DeclareFunction(n) PROVE ValuesInv'
  <2>1. marks = <<>> /\ vstack = <<>> /\ marks' = marks /\ vstack' = vstack
    BY <1>t, <1>4 DEF DeclareFunction, MarksOK, NoneOutside
  <2> QED BY <2>1 DEF ValuesInv, AllDenote, OuterValues, NoneOutside
<1>5. CASE OpenFunction
  <2>1. marks = <<>> /\ vstack = <<>> /\ marks' = marks /\ vstack' = vstack
    BY <1>t, <1>5 DEF OpenFunction, MarksOK, NoneOutside
  <2> QED BY <2>1 DEF ValuesInv, AllDenote, OuterValues, NoneOutside
<1>6. ASSUME NEW n \in Ident, PushParam(n) PROVE ValuesInv'
  <2>1. /\ sym_push(n, FALSE) /\ phase # "failed" /\ phase' # "failed"
        /\ marks' = marks /\ vstack' = vstack
    BY <1>6 DEF PushParam
  <2> QED BY <1>t, <2>1, SymPushValues
<1>7. CASE OpenBody
  <2>1. /\ vstack = <<>> /\ vstack' = vstack
        /\ marks' = <<[pos |-> Len(local_stack), is_expr |-> FALSE, base |-> 0]>>
    BY <1>t, <1>7 DEF OpenBody, MarksOK, NoneOutside
  <2> QED BY <2>1 DEF ValuesInv, AllDenote, OuterValues, NoneOutside
<1>8. CASE EndFunction
  <2>1. marks = <<>> /\ vstack = <<>> /\ marks' = marks /\ vstack' = vstack
    BY <1>t, <1>8 DEF EndFunction, NoneOutside
  <2> QED BY <2>1 DEF ValuesInv, AllDenote, OuterValues, NoneOutside
<1>9. CASE EnterBlock
  <2>1. InBlock /\ phase' = phase /\ vstack' = SubSeq(vstack, 1, Here.base) /\ UNCHANGED heap
    BY <1>9 DEF EnterBlock, BetweenStatements
  <2>2. PICK e : marks' = Append(marks, [pos |-> Len(local_stack), is_expr |-> e,
                                         base |-> Here.base])
    BY <1>9 DEF EnterBlock
  <2> QED BY <1>t, <2>1, <2>2, HereType, BlockOpensValues
<1>10. CASE EnterStatementExpr
  <2>1. /\ InBlock /\ phase' = phase /\ UNCHANGED heap /\ vstack' = SubSeq(vstack, 1, Len(vstack))
        /\ Len(vstack) \in 0 .. Len(vstack)
        /\ marks' = Append(marks, [pos |-> Len(local_stack), is_expr |-> TRUE,
                                   base |-> Len(vstack)])
    BY <1>t, <1>10 DEF EnterStatementExpr
  <2>2. \A i \in DOMAIN marks : marks[i].base <= Len(vstack)
    BY <1>t DEF BasesOK
  <2> QED BY <1>t, <2>1, <2>2, BlockOpensValues
<1>11. CASE LeaveBlock
  <2>1. /\ InBlock /\ phase # "failed" /\ phase' = phase /\ vstack' = vstack
        /\ OwnValues <= (IF Here.is_expr THEN 1 ELSE 0)
        /\ sym_pop(local_stack, Here.pos) /\ global_stack' = global_stack
        /\ local_stack' = SubSeq(local_stack, 1, Here.pos)
        /\ marks' = SubSeq(marks, 1, Len(marks) - 1)
        /\ ~LeavesOwnSymbol
    BY <1>11 DEF LeaveBlock, BetweenStatements, InBlock
  <2>2. /\ Here.pos \in 0 .. Len(local_stack) /\ Here.base \in 0 .. Len(vstack)
        /\ Len(marks) \in 1 .. Len(marks)
    BY <1>t, <2>1, HereType
  <2>3. AllDenote'
    <3> SUFFICES ASSUME NEW i \in DOMAIN vstack PROVE Denotes(vstack[i])'
      BY <2>1 DEF AllDenote, Denotes
    <3>1. \A j \in Here.pos + 1 .. Len(local_stack) : vstack[i].sym # local_stack[j]
      <4>1. CASE i \in 1 .. Here.base
        BY <1>t, <2>2, <4>1 DEF OuterValues, Here
      <4>2. CASE i \notin 1 .. Here.base
        <5>1. i \in Here.base + 1 .. Len(vstack)
          BY <1>t, <2>2, <4>2
        <5> QED BY <2>1, <5>1 DEF LeavesOwnSymbol
      <4> QED BY <4>1, <4>2
    <3>2. PICK v : v = vstack[i] /\ Denotes(v)
      BY <1>t, <2>1 DEF AllDenote
    <3>3. PICK k \in 0 .. Len(local_stack) : k = Here.pos
      BY <2>2
    <3>4. Denotes(v)'
      BY <1>t, <2>1, <3>1, <3>2, <3>3, PopValues
    <3> QED BY <2>1, <3>2, <3>4 DEF Denotes
  <2>4. /\ Len(marks') = Len(marks) - 1
        /\ \A i \in 1 .. Len(marks) - 1 : marks'[i] = marks[i]
    <3>1. PICK k \in 0 .. Len(marks) : k = Len(marks) - 1
      <4>1. Len(marks) - 1 \in 0 .. Len(marks)
        BY <1>t, <2>2
      <4> QED BY <4>1
    <3>2. Len(SubSeq(marks, 1, k)) = k /\ \A i \in 1 .. k : SubSeq(marks, 1, k)[i] = marks[i]
      BY <1>t
    <3> QED BY <2>1, <3>1, <3>2
  <2>5. \A j \in 1 .. Len(local_stack') : local_stack'[j] = local_stack[j] /\ j \in 1 .. Len(local_stack)
    BY <1>t, <2>1, <2>2
  <2>6. OuterValues'
    <3> SUFFICES ASSUME NEW i \in DOMAIN marks', NEW j \in 1 .. marks'[i].base,
                        NEW k \in marks'[i].pos + 1 .. Len(local_stack')
                 PROVE  vstack[j].sym # local_stack'[k]
      BY <2>1 DEF OuterValues
    <3>1. i \in DOMAIN marks /\ marks'[i] = marks[i]
      BY <1>t, <2>1, <2>4
    <3>2. k \in 1 .. Len(local_stack')
      BY <1>t, <3>1 DEF MarksOK
    <3>3. k \in marks[i].pos + 1 .. Len(local_stack) /\ local_stack'[k] = local_stack[k]
      BY <1>t, <2>5, <3>1, <3>2 DEF MarksOK
    <3> QED BY <1>t, <3>1, <3>3 DEF OuterValues
  <2>7. NoneOutside'
    <3>1. CASE Len(marks) = 1
      <4>1. Here.base = 0 /\ ~Here.is_expr
        BY <1>t, <2>1, <3>1 DEF NoneOutside, Here, InBlock
      <4>2. Len(vstack) = 0
        BY <1>t, <2>1, <4>1 DEF OwnValues
      <4>3. vstack' = <<>> /\ marks' = <<>>
        BY <1>t, <2>1, <3>1, <4>2
      <4> QED BY <4>3 DEF NoneOutside
    <3>2. CASE Len(marks) # 1
      <4>1. marks'[1] = marks[1] /\ marks # <<>> /\ Len(marks') # 0
        BY <1>t, <2>2, <2>4, <3>2
      <4> QED BY <1>t, <4>1 DEF NoneOutside
    <3> QED BY <3>1, <3>2
  <2> QED BY <2>3, <2>6, <2>7 DEF ValuesInv
<1>12. ASSUME NEW n \in Ident, NEW b \in BOOLEAN, PushName(n, b) PROVE ValuesInv'
  <2>1. /\ sym_push(n, b) /\ phase # "failed" /\ phase' # "failed"
        /\ marks' = marks /\ vstack' = vstack
    BY <1>12 DEF PushName, BetweenStatements, InBlock
  <2> QED BY <1>t, <2>1, SymPushValues
<1>13. ASSUME NEW n \in Name, DeclareUnlessBound(n) PROVE ValuesInv'
  <2>1. /\ sym_push(n, n \in Ident) /\ phase # "failed" /\ phase' # "failed"
        /\ marks' = marks /\ vstack' = vstack
    BY <1>13 DEF DeclareUnlessBound, BetweenStatements, InBlock
  <2> QED BY <1>t, <2>1, SymPushValues
<1>14. CASE PushType
  <2>1. /\ sym_push(Anon, FALSE) /\ phase # "failed" /\ phase' # "failed"
        /\ marks' = marks /\ vstack' = vstack
    BY <1>14 DEF PushType, InBlock
  <2> QED BY <1>t, <2>1, SymPushValues
<1>15. ASSUME NEW n \in Ident, UseName(n) PROVE ValuesInv'
  <2>1. /\ marks # <<>> /\ phase # "failed" /\ phase' = phase /\ UNCHANGED <<heap, marks>>
        /\ sym_identifier[n] # NULL
        /\ vstack' = Append(vstack, [sym |-> sym_identifier[n],
                                     decl |-> cell[sym_identifier[n]].decl])
    BY <1>15 DEF UseName, InBlock, PushValue
  <2>2. IsNewest(sym_identifier[n], n, Depth)
    BY <2>1 DEF ScopeInv, LookupIsInnermost, ChainsInOrder, Name
  <2>3. PICK v : v = [sym |-> sym_identifier[n], decl |-> cell[sym_identifier[n]].decl]
    OBVIOUS
  <2>4. Denotes(v)
    BY <2>1, <2>2, <2>3 DEF IsNewest, Denotes
  <2>5. /\ vstack' \in Seq(Value) /\ Len(vstack') = Len(vstack) + 1
        /\ \A i \in 1 .. Len(vstack) : vstack'[i] = vstack[i]
        /\ vstack'[Len(vstack) + 1] = v
    <3>1. sym_identifier[n] \in Sym
      BY <1>t, <2>1 DEF TypeOK, Name
    <3>2. v \in Value
      BY <1>t, <2>3, <3>1 DEF TypeOK, Value, Contents
    <3> QED BY <1>t, <2>1, <2>3, <3>2
  <2>6. \A i \in DOMAIN marks : marks[i].base <= Len(vstack')
    BY <1>t, <2>5 DEF BasesOK
  <2>7. \A i \in DOMAIN vstack' : \/ i \in DOMAIN vstack /\ vstack'[i] = vstack[i]
                                  \/ Denotes(vstack'[i]) /\ i \notin DOMAIN vstack
    BY <1>t, <2>4, <2>5
  <2> QED BY <1>t, <2>1, <2>5, <2>6, <2>7, ValuesChange
<1>16. ASSUME NEW n \in Ident, CallUndeclared(n) PROVE ValuesInv'
  <2>1. /\ global_identifier_push(n, TRUE) /\ marks' = marks /\ phase' = phase
        /\ marks # <<>> /\ phase # "failed"
        /\ vstack' = Append(vstack, [sym |-> sym_malloc, decl |-> NewDecl(n)])
    BY <1>16 DEF CallUndeclared, InBlock, PushValue
  <2> QED BY <1>t, <2>1, GlobalPushValues
<1>17. CASE UseLiteral
  <2>1. /\ global_identifier_push(Anon, TRUE) /\ marks' = marks /\ phase' = phase
        /\ marks # <<>> /\ phase # "failed"
        /\ vstack' = Append(vstack, [sym |-> sym_malloc, decl |-> NewDecl(Anon)])
    BY <1>17 DEF UseLiteral, InBlock, PushValue, NewDecl
  <2> QED BY <1>t, <2>1, GlobalPushValues
<1>18. CASE DropValue
  <2>1. /\ InBlock /\ Len(vstack) - Here.base > 0 /\ phase # "failed" /\ phase' = phase
        /\ marks # <<>> /\ UNCHANGED <<heap, marks>>
        /\ vstack' = SubSeq(vstack, 1, Len(vstack) - 1)
    BY <1>18 DEF DropValue, OwnValues, InBlock
  <2>2. /\ Here.base \in 0 .. Len(vstack)
        /\ \A i \in DOMAIN marks : marks[i].base <= Here.base
    BY <1>t, <2>1, HereType
  <2>3. PICK k \in 0 .. Len(vstack) : k = Len(vstack) - 1
    <3>1. Len(vstack) - 1 \in 0 .. Len(vstack)
      BY <1>t, <2>1, <2>2
    <3> QED BY <3>1
  <2>4. /\ vstack' \in Seq(Value) /\ Len(vstack') = k
        /\ \A i \in 1 .. k : vstack'[i] = vstack[i]
    BY <1>t, <2>1, <2>3
  <2>5. \A i \in DOMAIN marks : marks[i].base <= Len(vstack')
    BY <1>t, <2>1, <2>2, <2>3, <2>4 DEF BasesOK
  <2>6. \A i \in DOMAIN vstack' : i \in DOMAIN vstack /\ vstack'[i] = vstack[i]
    BY <1>t, <2>3, <2>4
  <2> QED BY <1>t, <2>1, <2>4, <2>5, <2>6, ValuesChange
<1>19. CASE UNCHANGED vars
  <2>1. /\ UNCHANGED heap /\ marks' = marks /\ vstack' = vstack /\ phase' = phase
        /\ local_stack' = local_stack
    BY <1>19 DEF vars, heap
  <2> QED BY <1>t, <2>1, DenotesKept
          DEF ValuesInv, AllDenote, OuterValues, NoneOutside, Denotes, Depth, Order, heap
<1> QED BY <1>1, <1>2, <1>3, <1>4, <1>5, <1>6, <1>7, <1>8, <1>9, <1>10, <1>11,
           <1>12, <1>13, <1>14, <1>15, <1>16, <1>17, <1>18, <1>19 DEF Next

\* A value on the expression stack points at a Sym in use that holds the
\* declaration the value was made from: no block that closes, and no reuse of
\* a freed Sym, pulls it from under the value.  This needs that a statement
\* expression does not leave a symbol of its own block (see README).
THEOREM ValuesKeepTheirSymbol ==
  ASSUME "failed" \notin RestartFrom, ~SymbolResults
  PROVE  Spec => []ValuesDenoteTheirSymbol
<1>1. ScopeInv /\ ValuesInv /\ [Next]_vars => (ScopeInv /\ ValuesInv)'
  BY NextHeapInv, NextScopes, NextValues DEF ScopeInv
<1>2. ScopeInv /\ ValuesInv => ValuesDenoteTheirSymbol
  BY DEF ValuesInv, AllDenote, Denotes, ValuesDenoteTheirSymbol
<1> QED BY <1>1, <1>2, InitScopeInv, InitValues, PTL DEF Spec

(***************************************************************************)
(* SymScopes implements LexicalScopes: the environment of the language is  *)
(* what the chains lead to, and what an enclosing scope saved is what the  *)
(* chains led to over the Syms below the place its block recorded.  Each   *)
(* action of SymScopes is one of LexicalScopes under that mapping, or      *)
(* leaves environments alone.                                              *)
(***************************************************************************)
\* A function being compiled has its dummy Sym below all blocks.
FunctionOpen ==
  phase \in {"params", "body"} =>
    local_stack # <<>> /\ \A i \in DOMAIN marks : marks[i].pos > 0

DeclOf(c) == IF c = NULL THEN NULL ELSE cell[c].decl

(***************************************************************************)
(* Environments                                                            *)
(***************************************************************************)
LEMMA NewestExists ==
  ASSUME TypeOK, NEW n, NEW m \in 0 .. Depth
  PROVE  \E c : IsNewest(c, n, m)
<1> DEFINE I == {i \in 1 .. m : cell[Order[i]].token = n}
<1>1. CASE I = {}
  <2>1. \A i \in 1 .. m : cell[Order[i]].token # n
    BY <1>1
  <2>2. IsNewest(NULL, n, m)
    BY <2>1 DEF IsNewest
  <2> QED BY <2>2
<1>2. CASE I # {}
  <2>1. m \in Nat /\ I \in SUBSET Nat /\ \A i \in I : i <= m
    BY OrderType
  <2>2. PICK i \in I : \A j \in I : j <= i
    BY <1>2, <2>1, Greatest
  <2>3. \A j \in i + 1 .. m : cell[Order[j]].token # n
    <3> SUFFICES ASSUME NEW j \in i + 1 .. m, cell[Order[j]].token = n PROVE FALSE
      OBVIOUS
    <3>1. j \in I /\ ~(j <= i)
      BY <2>1
    <3> QED BY <2>2, <3>1
  <2>4. IsNewest(Order[i], n, m)
    BY <2>3 DEF IsNewest
  <2> QED BY <2>4
<1> QED BY <1>1, <1>2

\* With the oldest k Syms of local_stack in place a name denotes what its
\* newest Sym up to there declares.
EnvironmentsAreNewest ==
  \A k \in 0 .. Len(local_stack) :
    /\ Environment(k) = [n \in Name |-> Environment(k)[n]]
    /\ \A n \in Name : \A c :
         IsNewest(c, n, Len(global_stack) + k) => Environment(k)[n] = DeclOf(c)

LEMMA EnvironmentIs ==
  TypeOK => EnvironmentsAreNewest
<1> SUFFICES ASSUME TypeOK, NEW k \in 0 .. Len(local_stack)
             PROVE  /\ Environment(k) = [n \in Name |-> Environment(k)[n]]
                    /\ \A n \in Name : \A c :
                         IsNewest(c, n, Len(global_stack) + k) => Environment(k)[n] = DeclOf(c)
  BY DEF EnvironmentsAreNewest
<1> DEFINE V == SubSeq(global_stack \o local_stack, 1, Len(global_stack) + k)
<1>1. PICK m \in Nat : m = Len(global_stack) + k
  BY OrderType
<1>2. /\ Len(V) = m
      /\ \A i \in 1 .. m : i \in 1 .. Depth /\ V[i] = Order[i] /\ Order[i] \in Sym
  <2>1. /\ global_stack \in Seq(Sym) /\ local_stack \in Seq(Sym)
        /\ Len(global_stack) \in Nat /\ Len(local_stack) \in Nat
        /\ Depth = Len(global_stack) + Len(local_stack) /\ m \in 0 .. Depth
    BY <1>1, OrderType DEF TypeOK
  <2>2. /\ global_stack \o local_stack \in Seq(Sym)
        /\ Len(global_stack \o local_stack) = Depth
        /\ \A i \in 1 .. Depth : (global_stack \o local_stack)[i] = Order[i]
    BY <2>1 DEF Order
  <2>3. Len(V) = m /\ \A i \in 1 .. m : V[i] = (global_stack \o local_stack)[i]
    BY <1>1, <2>1, <2>2
  <2> QED BY <2>1, <2>2, <2>3, OrderType
<1>3. Environment(k) =
        [n \in Name |->
           LET I == {i \in DOMAIN V : cell[V[i]].token = n}
           IN  IF I = {} THEN NULL
               ELSE cell[V[CHOOSE i \in I : \A j \in I : j <= i]].decl]
  BY DEF Environment
<1>4. ASSUME NEW n \in Name, NEW c, IsNewest(c, n, m)
      PROVE  Environment(k)[n] = DeclOf(c)
  <2> DEFINE I == {i \in 1 .. m : cell[V[i]].token = n}
  <2>1. V \in Seq(Sym) /\ DOMAIN V = 1 .. m
    BY <1>1, <1>2 DEF TypeOK
  <2>2. Environment(k)[n] = IF I = {} THEN NULL
                            ELSE cell[V[CHOOSE i \in I : \A j \in I : j <= i]].decl
    <3>1. {i \in DOMAIN V : cell[V[i]].token = n} = I
      BY <2>1
    <3> HIDE DEF V
    <3>2. Environment(k)[n] =
            LET J == {i \in DOMAIN V : cell[V[i]].token = n}
            IN  IF J = {} THEN NULL ELSE cell[V[CHOOSE i \in J : \A j \in J : j <= i]].decl
      BY <1>3
    <3> QED BY <3>1, <3>2
  <2>3. CASE c = NULL /\ \A i \in 1 .. m : cell[Order[i]].token # n
    <3>1. I = {}
      BY <1>2, <2>3
    <3> QED BY <2>2, <2>3, <3>1 DEF DeclOf
  <2>4. ASSUME NEW i \in 1 .. m, c = Order[i], cell[c].token = n,
               \A j \in (i + 1) .. m : cell[Order[j]].token # n
        PROVE  Environment(k)[n] = DeclOf(c)
    <3>1. i \in I
      BY <1>2, <2>4
    <3>2. \A j \in I : j <= i
      BY <1>2, <2>4
    <3>3. \A x \in I : (\A j \in I : j <= x) => x = i
      BY <1>1, <3>1, <3>2
    <3>4. (CHOOSE x \in I : \A j \in I : j <= x) = i
      <4> HIDE DEF I
      <4> QED BY <3>1, <3>2, <3>3
    <3>5. c # NULL
      BY <1>2, <2>4, ScopesAssumption
    <3> QED BY <1>2, <2>2, <2>4, <3>1, <3>4, <3>5 DEF DeclOf
  <2> QED BY <1>4, <2>3, <2>4 DEF IsNewest
<1> QED BY <1>1, <1>3, <1>4

\* An environment depends only on the Syms up to its place.
LEMMA EnvironmentKept ==
  ASSUME TypeOK, TypeOK', Len(global_stack') = Len(global_stack),
         NEW k \in 0 .. Len(local_stack), k \in 0 .. Len(local_stack'),
         \A i \in 1 .. Len(global_stack) + k :
           Order'[i] = Order[i] /\ cell'[Order[i]] = cell[Order[i]]
  PROVE  Environment(k)' = Environment(k)
<1>1. EnvironmentsAreNewest /\ EnvironmentsAreNewest'
  BY EnvironmentIs, PTL
<1>2. PICK m \in 0 .. Depth : m = Len(global_stack) + k
  <2>1. Len(global_stack) + k \in 0 .. Depth
    BY OrderType
  <2> QED BY <2>1
<1>3. ASSUME NEW n \in Name PROVE Environment(k)'[n] = Environment(k)[n]
  <2>1. PICK c : IsNewest(c, n, m)
    BY NewestExists
  <2>2. \A i \in 1 .. m : Order[i] # NULL
    BY <1>2, OrderType, ScopesAssumption
  <2>3. IsNewest(c, n, m)' /\ DeclOf(c)' = DeclOf(c)
    BY <1>2, <2>1, <2>2 DEF IsNewest, DeclOf
  <2> QED BY <1>1, <1>2, <2>1, <2>3 DEF EnvironmentsAreNewest
<1> QED BY <1>1, <1>3 DEF EnvironmentsAreNewest

\* A Sym that a call to an undeclared function pushes at file scope, or that
\* has no name, is seen through all the blocks above it.
LEMMA EnvironmentPushedBelow ==
  ASSUME TypeOK, PoolOK, SymsDisjoint, TypeOK', TakeSym,
         NEW n \in Name \cup {Anon}, NEW b, NEW prev, cell' = Filled(n, b, prev),
         global_stack' = Append(global_stack, sym_malloc), local_stack' = local_stack,
         n # Anon => \A i \in 1 .. Depth : cell[Order[i]].token # n,
         NEW k \in 0 .. Len(local_stack)
  PROVE  Environment(k)' = IF n = Anon THEN Environment(k)
                           ELSE [Environment(k) EXCEPT ![n] = decls + 1]
<1>1. EnvironmentsAreNewest /\ EnvironmentsAreNewest'
  BY EnvironmentIs, PTL
<1>2. PICK m \in 0 .. Depth, p \in 1 .. Depth + 1 :
         m = Len(global_stack) + k /\ p = Len(global_stack) + 1 /\ m + 1 >= p
  <2>1. Len(global_stack) + k \in 0 .. Depth /\ Len(global_stack) + 1 \in 1 .. Depth + 1
    BY OrderType
  <2> QED BY <2>1, OrderType
<1>3. /\ InsertedAt(p, sym_malloc) /\ Len(global_stack') + k = m + 1
      /\ k \in 0 .. Len(local_stack')
  <2>1. InsertedAt(p, sym_malloc)
    BY <1>2, GlobalPushInserts
  <2>2. Len(global_stack') = Len(global_stack) + 1 /\ Len(global_stack) \in Nat
    BY DEF TypeOK
  <2> QED BY <1>2, <2>1, <2>2
<1>4. /\ sym_malloc \in Sym
      /\ \A i \in 1 .. Depth : Order[i] # sym_malloc /\ Order[i] \in Sym /\ Order[i] # NULL
  BY Malloc, OrderType, ScopesAssumption DEF Sym
<1>s. PICK s \in Sym : s = sym_malloc /\ s # NULL
  BY <1>4, ScopesAssumption
<1>5. /\ \A i \in 1 .. Depth : cell'[Order[i]] = cell[Order[i]]
      /\ cell'[s].token = n /\ cell'[s].decl = NewDecl(n)
  BY <1>4, <1>s DEF Filled, TypeOK
<1>6. ASSUME NEW t \in Name, t # n PROVE Environment(k)'[t] = Environment(k)[t]
  <2>1. PICK c : IsNewest(c, t, m)
    BY NewestExists
  <2>2. IsNewest(c, t, m + 1)'
    BY <1>2, <1>3, <1>5, <1>6, <1>s, <2>1, NewestKept
  <2>3. c = NULL \/ \E i \in 1 .. Depth : c = Order[i]
    <3>1. \A i \in 1 .. m : i \in 1 .. Depth
      BY OrderType
    <3> QED BY <2>1, <3>1 DEF IsNewest
  <2>4. DeclOf(c)' = DeclOf(c)
    BY <1>5, <2>3 DEF DeclOf
  <2> QED BY <1>1, <1>2, <1>3, <2>1, <2>2, <2>4 DEF EnvironmentsAreNewest
<1>7. ASSUME n # Anon PROVE Environment(k)'[n] = decls + 1
  <2>1. /\ m \in Nat /\ p \in 1 .. m + 1 /\ Order'[p] = s
        /\ \A i \in p + 1 .. m + 1 : i - 1 \in 1 .. Depth /\ Order'[i] = Order[i - 1]
    <3>1. /\ Depth \in Nat /\ m \in Nat /\ p \in 1 .. m + 1 /\ p \in Nat
          /\ \A i \in 1 .. Depth + 1 :
               Order'[i] = IF i < p THEN Order[i] ELSE IF i = p THEN s ELSE Order[i - 1]
      BY <1>2, <1>3, <1>s, OrderType DEF InsertedAt
    <3>2. ASSUME NEW i \in p + 1 .. m + 1
          PROVE  i - 1 \in 1 .. Depth /\ Order'[i] = Order[i - 1]
      <4>1. i \in 1 .. Depth + 1 /\ ~(i < p) /\ i # p /\ i - 1 \in 1 .. Depth
        BY <3>1
      <4> QED BY <3>1, <4>1
    <3> QED BY <3>1, <3>2
  <2>2. \A i \in p + 1 .. m + 1 : cell'[Order'[i]].token # n
    BY <1>5, <1>7, <2>1
  <2>3. IsNewest(s, n, m + 1)'
    BY <1>5, <2>1, <2>2 DEF IsNewest
  <2>4. DeclOf(s)' = decls + 1
    BY <1>5, <1>7, <1>s DEF DeclOf, NewDecl
  <2>5. n \in Name
    BY <1>7
  <2> QED BY <1>1, <1>3, <2>3, <2>4, <2>5 DEF EnvironmentsAreNewest
<1>8. Anon \notin Name
  BY ScopesAssumption
<1> QED BY <1>1, <1>3, <1>6, <1>7, <1>8 DEF EnvironmentsAreNewest

(***************************************************************************)
(* The mapping                                                             *)
(***************************************************************************)
\* Positions are recorded only in a function, that of its parameters first.
OpenedOK ==
  /\ Opened \in Seq(0 .. Len(local_stack))
  /\ IF phase \in {"params", "body"}
     THEN /\ Len(Opened) = Len(marks) + 1
          /\ Opened[1] = 0
          /\ \A i \in 1 .. Len(marks) : Opened[i + 1] = marks[i].pos
     ELSE Opened = <<>>

LEMMA OpenedType == HeapInv => OpenedOK
<1> SUFFICES ASSUME HeapInv PROVE OpenedOK
  OBVIOUS
<1>1. marks \in Seq(Mark) /\ local_stack \in Seq(Sym) /\ MarksOK
  BY DEF HeapInv, TypeOK
<1> DEFINE M == [i \in DOMAIN marks |-> marks[i].pos]
<1>2. M \in Seq(0 .. Len(local_stack)) /\ Len(M) = Len(marks)
  BY <1>1 DEF MarksOK
<1>3. <<0>> \in Seq(0 .. Len(local_stack))
  BY <1>1
<1>4. \A i \in 1 .. Len(marks) : M[i] = marks[i].pos
  BY <1>1
<1> HIDE DEF M
<1>5. /\ Len(<<0>> \o M) = Len(marks) + 1 /\ (<<0>> \o M)[1] = 0
      /\ \A i \in 1 .. Len(marks) : (<<0>> \o M)[i + 1] = M[i]
      /\ <<0>> \o M \in Seq(0 .. Len(local_stack))
  BY <1>1, <1>2, <1>3
<1>6. Opened = IF phase \in {"params", "body"} THEN <<0>> \o M ELSE <<>>
  BY DEF Opened, M
<1>7. CASE phase \in {"params", "body"}
  <2>1. Opened = <<0>> \o M
    BY <1>6, <1>7
  <2> QED BY <1>4, <1>5, <1>7, <2>1 DEF OpenedOK
<1>8. CASE phase \notin {"params", "body"}
  <2>1. Opened = <<>>
    BY <1>6, <1>8
  <2> QED BY <1>8, <2>1 DEF OpenedOK
<1> QED BY <1>7, <1>8

\* The binding of a name is what it denotes with all of local_stack in place.
BindingOK ==
  /\ Binding = Environment(Len(local_stack))
  /\ \A n \in Name : Binding[n] = DeclOf(sym_identifier[n])

BindingUnlessFailed == phase # "failed" => BindingOK

LEMMA BindingIs == HeapInv /\ LookupIsInnermost => BindingUnlessFailed
<1> SUFFICES ASSUME HeapInv, ChainsInOrder, phase # "failed" PROVE BindingOK
  BY DEF LookupIsInnermost, BindingUnlessFailed
<1>1. /\ EnvironmentsAreNewest /\ Depth = Len(global_stack) + Len(local_stack)
      /\ Len(local_stack) \in 0 .. Len(local_stack)
  BY EnvironmentIs, OrderType DEF HeapInv
<1>2. \A n \in Name : Binding[n] = DeclOf(sym_identifier[n])
  BY DEF Binding, DeclOf
<1>3. \A n \in Name : Environment(Len(local_stack))[n] = DeclOf(sym_identifier[n])
  BY <1>1 DEF EnvironmentsAreNewest, ChainsInOrder
<1> QED BY <1>1, <1>2, <1>3 DEF BindingOK, Binding, EnvironmentsAreNewest

LEMMA PushBinding ==
  ASSUME HeapInv, ChainsInOrder, phase # "failed", phase' # "failed", TakeSym,
         NEW n \in Name \cup {Anon}, NEW b, NEW prev, cell' = Filled(n, b, prev), Bind(n)
  PROVE  Binding' = IF n = Anon THEN Binding ELSE [Binding EXCEPT ![n] = decls + 1]
<1>1. TypeOK /\ PoolOK /\ SymsDisjoint /\ Anon \notin Name
  BY ScopesAssumption DEF HeapInv
<1>2. /\ sym_malloc \in Sym /\ sym_malloc # NULL
      /\ \A i \in 1 .. Depth : Order[i] # sym_malloc
  BY <1>1, Malloc, ScopesAssumption DEF Sym
<1>3. ASSUME NEW t \in Name, t # n PROVE Binding'[t] = Binding[t]
  <2>1. sym_identifier'[t] = sym_identifier[t]
    BY <1>1, <1>3 DEF Bind, TypeOK
  <2>2. sym_identifier[t] # NULL => \E i \in 1 .. Depth : sym_identifier[t] = Order[i]
    BY DEF ChainsInOrder, IsNewest
  <2>3. sym_identifier[t] # NULL => cell'[sym_identifier[t]] = cell[sym_identifier[t]]
    BY <1>1, <1>2, <2>2, OrderType DEF Filled, TypeOK
  <2> QED BY <2>1, <2>3 DEF Binding
<1>4. ASSUME n # Anon PROVE Binding'[n] = decls + 1
  <2>1. sym_identifier'[n] = sym_malloc /\ cell'[sym_malloc].decl = decls + 1
    BY <1>1, <1>2, <1>4 DEF Bind, Filled, NewDecl, TypeOK
  <2> QED BY <1>2, <1>4, <2>1 DEF Binding
<1> QED BY <1>1, <1>3, <1>4 DEF Binding

LEMMA SavedKept ==
  ASSUME Opened' = Opened,
         \A i \in DOMAIN Opened : \A k : k = Opened[i] => Environment(k)' = Environment(k)
  PROVE  Saved' = Saved
BY DEF Saved

\* A scope opens: it saves the environment it found.
LEMMA EnterStep ==
  ASSUME HeapInv, BindingOK, phase # "failed", phase' # "failed",
         UNCHANGED heap, Opened' = Append(Opened, Len(local_stack))
  PROVE  Lexical!Enter
<1>1. /\ Opened \in Seq(0 .. Len(local_stack)) /\ Binding = Environment(Len(local_stack))
      /\ Len(local_stack) \in Nat
  BY OpenedType DEF HeapInv, TypeOK, OpenedOK, BindingOK
<1>2. \A k : Environment(k)' = Environment(k)
  BY DEF Environment, heap
<1>3. Binding' = Binding
  BY DEF Binding, heap
<1>4. PICK d \in Nat : d = Len(Opened)
  BY <1>1
<1>5. /\ DOMAIN Opened' = 1 .. d + 1 /\ Opened'[d + 1] = Len(local_stack)
      /\ \A i \in 1 .. d : Opened'[i] = Opened[i]
  BY <1>1, <1>4
<1>6. Saved' = [i \in 1 .. d + 1 |-> IF i = d + 1 THEN Binding ELSE Environment(Opened[i])]
  BY <1>1, <1>2, <1>4, <1>5 DEF Saved
<1>7. Saved = [i \in 1 .. d |-> Environment(Opened[i])]
  BY <1>1, <1>4 DEF Saved
<1>8. Saved' = Append(Saved, Binding)
  BY <1>4, <1>6, <1>7
<1> QED BY <1>3, <1>8 DEF Lexical!Enter

\* A scope closes: local_stack is as deep again as when it opened.
LEMMA LeaveStep ==
  ASSUME HeapInv, HeapInv', BindingOK', phase' # "failed",
         NEW k \in 0 .. Len(local_stack), global_stack' = global_stack, cell' = cell,
         local_stack' = SubSeq(local_stack, 1, k),
         NEW d \in Nat, Len(Opened) = d + 1, Opened[d + 1] = k,
         Len(Opened') = d, \A i \in 1 .. d : Opened'[i] = Opened[i]
  PROVE  Lexical!Leave
<1>1. TypeOK /\ TypeOK' /\ OpenedOK /\ OpenedOK'
  <2>1. OpenedOK /\ OpenedOK'
    BY OpenedType, PTL
  <2> QED BY <2>1 DEF HeapInv
<1>2. /\ CutTo(Len(global_stack) + k) /\ Len(local_stack') = k
      /\ Len(global_stack') = Len(global_stack)
  BY <1>1, LocalCut
<1>3. ASSUME NEW j \in 0 .. k PROVE Environment(j)' = Environment(j)
  <2>1. \A i \in 1 .. Len(global_stack) + j :
          Order'[i] = Order[i] /\ cell'[Order[i]] = cell[Order[i]]
    BY <1>1, <1>2, OrderType DEF CutTo
  <2>2. j \in 0 .. Len(local_stack) /\ j \in 0 .. Len(local_stack')
    BY <1>1, <1>2, OrderType
  <2> QED BY <1>1, <1>2, <2>1, <2>2, EnvironmentKept
<1>4. /\ DOMAIN Opened = 1 .. d + 1 /\ DOMAIN Opened' = 1 .. d
      /\ \A i \in 1 .. d : Opened'[i] \in 0 .. k
  BY <1>1, <1>2 DEF OpenedOK
<1>5. Saved = [i \in 1 .. d + 1 |-> Environment(Opened[i])]
  BY <1>4 DEF Saved
<1>6. Saved' = [i \in 1 .. d |-> Environment(Opened[i])]
  <2>1. ASSUME NEW i \in 1 .. d PROVE Saved'[i] = Environment(Opened[i])
    <3>1. PICK j \in 0 .. k : j = Opened'[i] /\ j = Opened[i]
      BY <1>4
    <3> QED BY <1>3, <1>4, <3>1 DEF Saved
  <2> QED BY <1>4, <2>1 DEF Saved
<1>7. /\ Len(Saved) = d + 1 /\ Saved # <<>> /\ Saved[Len(Saved)] = Environment(k)
      /\ Saved' = SubSeq(Saved, 1, Len(Saved) - 1)
  <2>1. Len(Saved) = d + 1 /\ Saved[d + 1] = Environment(k) /\ d + 1 - 1 = d
    BY <1>5
  <2>2. SubSeq(Saved, 1, d) = [i \in 1 .. d |-> Environment(Opened[i])]
    BY <1>5
  <2> QED BY <1>6, <2>1, <2>2
<1>8. Binding' = Environment(k)
  <2>1. k \in 0 .. k
    OBVIOUS
  <2> QED BY <1>2, <1>3, <2>1 DEF BindingOK
<1> QED BY <1>7, <1>8 DEF Lexical!Leave

LEMMA NothingChanges ==
  ASSUME UNCHANGED heap, Opened' = Opened, phase # "failed", phase' # "failed"
  PROVE  UNCHANGED Lexical!scopeVars
<1>1. Saved' = Saved
  BY DEF Saved, Environment, heap
<1>2. Binding' = Binding
  BY DEF Binding, heap
<1> QED BY <1>1, <1>2 DEF Lexical!scopeVars

\* sym_push declares the name in the innermost scope.
LEMMA PushDeclares ==
  ASSUME HeapInv, HeapInv', ChainsInOrder, phase # "failed", phase' # "failed",
         NEW n \in Name \cup {Anon}, NEW b, sym_push(n, b),
         Opened' = Opened, Opened = <<>> \/ local_stack # <<>>
  PROVE  /\ n = Anon => UNCHANGED Lexical!scopeVars
         /\ n # Anon => \E m \in Name, d \in 1 .. MaxDecls : Lexical!Declare(m, d)
<1>1. /\ TypeOK /\ TypeOK' /\ PoolOK /\ SymsDisjoint /\ TakeSym /\ Bind(n) /\ CountDecl(n)
      /\ \E prev : cell' = Filled(n, b, prev)
  BY DEF HeapInv, sym_push
<1>2. Binding' = IF n = Anon THEN Binding ELSE [Binding EXCEPT ![n] = decls + 1]
  BY <1>1, PushBinding
<1>3. Saved' = Saved
  <2>1. CASE Opened = <<>>
    BY <2>1 DEF Saved
  <2>2. CASE local_stack # <<>>
    <3>1. /\ local_stack' = Append(local_stack, sym_malloc) /\ global_stack' = global_stack
          /\ InsertedAt(Depth + 1, sym_malloc)
      BY <1>1, <2>2, PushAppends DEF sym_push
    <3>2. \A i \in 1 .. Depth : Order'[i] = Order[i] /\ cell'[Order[i]] = cell[Order[i]]
      <4>1. PICK prev : cell' = Filled(n, b, prev)
        BY <1>1
      <4>2. \A i \in 1 .. Depth : Order[i] \in Sym /\ Order[i] # sym_malloc
        BY <1>1, OrderType, Malloc
      <4>3. \A i \in 1 .. Depth : cell'[Order[i]] = cell[Order[i]]
        BY <1>1, <4>1, <4>2 DEF Filled, TypeOK
      <4>4. \A i \in 1 .. Depth : Order'[i] = Order[i]
        BY <1>1, <3>1, OrderType DEF InsertedAt
      <4> QED BY <4>3, <4>4
    <3>3. ASSUME NEW k \in 0 .. Len(local_stack) PROVE Environment(k)' = Environment(k)
      <4>1. /\ k \in 0 .. Len(local_stack') /\ Len(global_stack') = Len(global_stack)
            /\ \A i \in 1 .. Len(global_stack) + k : i \in 1 .. Depth
        BY <1>1, <3>1, OrderType DEF TypeOK
      <4> QED BY <1>1, <3>2, <4>1, EnvironmentKept
    <3>4. \A i \in DOMAIN Opened : Opened[i] \in 0 .. Len(local_stack)
      BY OpenedType DEF OpenedOK
    <3> QED BY <3>3, <3>4, SavedKept
  <2> QED BY <2>1, <2>2
<1>4. CASE n = Anon
  BY <1>2, <1>3, <1>4 DEF Lexical!scopeVars
<1>5. CASE n # Anon
  <2>1. n \in Name /\ decls + 1 \in 1 .. MaxDecls
    BY <1>1, <1>5, ScopesAssumption DEF CountDecl, TypeOK
  <2>2. Lexical!Declare(n, decls + 1)
    BY <1>2, <1>3, <1>5 DEF Lexical!Declare
  <2> QED BY <1>5, <2>1, <2>2
<1> QED BY <1>4, <1>5

\* global_identifier_push declares it outside all scopes, for all of them.
LEMMA GlobalPushDeclares ==
  ASSUME HeapInv, HeapInv', ChainsInOrder, phase # "failed", phase' # "failed",
         NEW n \in Name \cup {Anon}, NEW b, global_identifier_push(n, b),
         Opened' = Opened
  PROVE  /\ n = Anon => UNCHANGED Lexical!scopeVars
         /\ n # Anon => \E m \in Name, d \in 1 .. MaxDecls : Lexical!DeclareAtFileScope(m, d)
<1>1. /\ TypeOK /\ TypeOK' /\ PoolOK /\ SymsDisjoint /\ TakeSym /\ Bind(n) /\ CountDecl(n)
      /\ cell' = Filled(n, b, NULL) /\ local_stack' = local_stack
      /\ global_stack' = Append(global_stack, sym_malloc)
      /\ n # Anon => sym_identifier[n] = NULL
  BY DEF HeapInv, global_identifier_push
<1>2. Binding' = IF n = Anon THEN Binding ELSE [Binding EXCEPT ![n] = decls + 1]
  BY <1>1, PushBinding
<1>3. n # Anon => \A i \in 1 .. Depth : cell[Order[i]].token # n
  <2>1. n # Anon => IsNewest(NULL, n, Depth)
    BY <1>1 DEF ChainsInOrder
  <2>2. \A i \in 1 .. Depth : Order[i] # NULL
    BY <1>1, OrderType, ScopesAssumption
  <2> QED BY <2>1, <2>2 DEF IsNewest
<1>4. \A k \in 0 .. Len(local_stack) :
        Environment(k)' = IF n = Anon THEN Environment(k)
                          ELSE [Environment(k) EXCEPT ![n] = decls + 1]
  BY <1>1, <1>3, EnvironmentPushedBelow
<1>5. \A i \in DOMAIN Opened : Opened[i] \in 0 .. Len(local_stack)
  BY OpenedType DEF OpenedOK
<1>6. CASE n = Anon
  <2>1. Saved' = Saved
    BY <1>4, <1>5, <1>6, SavedKept
  <2> QED BY <1>2, <1>6, <2>1 DEF Lexical!scopeVars
<1>7. CASE n # Anon
  <2>1. n \in Name /\ decls + 1 \in 1 .. MaxDecls
    BY <1>1, <1>7, ScopesAssumption DEF CountDecl, TypeOK
  <2>2. Saved' = [i \in DOMAIN Saved |-> [Saved[i] EXCEPT ![n] = decls + 1]]
    <3>1. DOMAIN Saved = DOMAIN Opened /\ DOMAIN Saved' = DOMAIN Opened
      BY DEF Saved
    <3>2. ASSUME NEW i \in DOMAIN Opened
          PROVE  Saved'[i] = [Saved[i] EXCEPT ![n] = decls + 1]
      <4>1. PICK k \in 0 .. Len(local_stack) : k = Opened[i]
        BY <1>5
      <4>2. Environment(k)' = [Environment(k) EXCEPT ![n] = decls + 1]
        BY <1>4, <1>7
      <4> QED BY <4>1, <4>2 DEF Saved
    <3> QED BY <3>1, <3>2 DEF Saved
  <2>3. Binding[n] = NULL
    BY <1>1, <1>7, <2>1 DEF Binding
  <2>4. Lexical!DeclareAtFileScope(n, decls + 1)
    BY <1>2, <1>7, <2>2, <2>3 DEF Lexical!DeclareAtFileScope
  <2> QED BY <1>7, <2>1, <2>4
<1> QED BY <1>6, <1>7

\* File scope is popped, in order or after an error.
LEMMA UnitEndsStep ==
  ASSUME HeapInv', Opened' = <<>>,
         phase' = "failed" \/ (ChainsInOrder' /\ Depth' = 0)
  PROVE  Lexical!EndOfUnit
<1>1. Saved' = <<>>
  BY DEF Saved
<1>2. \A n \in Name : Binding'[n] = NULL
  BY DEF Binding, ChainsInOrder, IsNewest
<1>3. Binding' = [n \in Name |-> NULL]
  BY <1>2 DEF Binding
<1> QED BY <1>1, <1>3 DEF Lexical!EndOfUnit, Lexical!Empty

(***************************************************************************)
(* The steps                                                               *)
(***************************************************************************)
LEMMA NextFunctionOpen ==
  ASSUME HeapInv, FunctionOpen, [Next]_vars
  PROVE  FunctionOpen'
<1>t. /\ marks \in Seq(Mark) /\ local_stack \in Seq(Sym) /\ Len(local_stack) \in Nat
      /\ Len(marks) \in Nat /\ (phase # "body" => marks = <<>>)
  BY DEF HeapInv, TypeOK, MarksOK
<1>1. CASE phase' \notin {"params", "body"}
  BY <1>1 DEF FunctionOpen
<1>2. CASE OpenFunction
  <2>1. local_stack' # <<>> /\ marks' = <<>>
    BY <1>t, <1>2 DEF OpenFunction
  <2> QED BY <2>1 DEF FunctionOpen
<1>3. ASSUME NEW n, NEW b, sym_push(n, b), marks' = marks, phase' = phase
      PROVE  FunctionOpen'
  <2>1. local_stack # <<>> => local_stack' # <<>>
    BY <1>t, <1>3 DEF sym_push
  <2> QED BY <1>3, <2>1 DEF FunctionOpen
<1>4. ASSUME local_stack' = local_stack, marks' = marks, phase' = phase
      PROVE  FunctionOpen'
  BY <1>4 DEF FunctionOpen
<1>5. ASSUME NEW m, local_stack' = local_stack, phase \in {"params", "body"},
             m.pos = Len(local_stack), marks' = Append(marks, m)
      PROVE  FunctionOpen'
  <2>1. local_stack # <<>> /\ \A i \in DOMAIN marks : marks[i].pos > 0
    BY <1>5 DEF FunctionOpen
  <2>2. \A i \in DOMAIN marks' : marks'[i] = m \/ (i \in DOMAIN marks /\ marks'[i] = marks[i])
    BY <1>t, <1>5
  <2>3. Len(local_stack) > 0
    BY <1>t, <2>1
  <2> QED BY <1>5, <2>1, <2>2, <2>3 DEF FunctionOpen
<1>6. CASE OpenBody
  <2>1. /\ local_stack' = local_stack /\ local_stack # <<>>
        /\ marks' = <<[pos |-> Len(local_stack), is_expr |-> FALSE, base |-> 0]>>
    BY <1>6 DEF OpenBody, FunctionOpen, heap
  <2>2. Len(local_stack) > 0
    BY <1>t, <2>1
  <2> QED BY <2>1, <2>2 DEF FunctionOpen
<1>7. CASE EnterBlock
  <2>1. local_stack' = local_stack /\ phase \in {"params", "body"}
    BY <1>7 DEF EnterBlock, BetweenStatements, InBlock, heap
  <2>2. PICK e : marks' = Append(marks, [pos |-> Len(local_stack), is_expr |-> e,
                                         base |-> Here.base])
    BY <1>7 DEF EnterBlock
  <2> QED BY <1>5, <2>1, <2>2
<1>8. CASE EnterStatementExpr
  <2>1. /\ local_stack' = local_stack /\ phase \in {"params", "body"}
        /\ marks' = Append(marks, [pos |-> Len(local_stack), is_expr |-> TRUE,
                                   base |-> Len(vstack)])
    BY <1>8 DEF EnterStatementExpr, InBlock, heap
  <2> QED BY <1>5, <2>1
<1>9. CASE LeaveBlock
  <2>1. /\ InBlock /\ phase = "body" /\ marks' = SubSeq(marks, 1, Len(marks) - 1)
        /\ local_stack' = SubSeq(local_stack, 1, Here.pos)
    BY <1>9 DEF LeaveBlock, BetweenStatements, InBlock
  <2>2. /\ Here.pos \in 0 .. Len(local_stack) /\ Len(marks) \in 1 .. Len(marks)
    BY <2>1, HereType
  <2>3. Here.pos > 0 /\ \A i \in DOMAIN marks : marks[i].pos > 0
    BY <1>t, <2>1, <2>2 DEF FunctionOpen, Here
  <2>4. local_stack' # <<>>
    <3>1. Len(local_stack') = Here.pos
      BY <1>t, <2>1, <2>2
    <3> QED BY <2>2, <2>3, <3>1
  <2>5. \A i \in DOMAIN marks' : i \in DOMAIN marks /\ marks'[i] = marks[i]
    <3>1. PICK k \in 0 .. Len(marks) : k = Len(marks) - 1
      <4>1. Len(marks) - 1 \in 0 .. Len(marks)
        BY <1>t, <2>2
      <4> QED BY <4>1
    <3>2. Len(SubSeq(marks, 1, k)) = k /\ \A i \in 1 .. k : SubSeq(marks, 1, k)[i] = marks[i]
      BY <1>t
    <3> QED BY <1>t, <2>1, <3>1, <3>2
  <2> QED BY <2>3, <2>4, <2>5 DEF FunctionOpen
<1>10. ASSUME NEW n \in Ident, PushParam(n) PROVE FunctionOpen'
  BY <1>3, <1>10 DEF PushParam
<1>11. ASSUME NEW n \in Ident, NEW b \in BOOLEAN, PushName(n, b) PROVE FunctionOpen'
  BY <1>3, <1>11 DEF PushName
<1>12. ASSUME NEW n \in Name, DeclareUnlessBound(n) PROVE FunctionOpen'
  BY <1>3, <1>12 DEF DeclareUnlessBound
<1>13. CASE PushType
  BY <1>3, <1>13 DEF PushType
<1>14. CASE \/ \E n \in Ident : UseName(n) \/ CallUndeclared(n)
            \/ UseLiteral \/ DropValue \/ UNCHANGED vars
  BY <1>4, <1>14 DEF UseName, CallUndeclared, UseLiteral, DropValue, vars, heap,
                     global_identifier_push
<1>15. CASE StartCompile \/ EndCompile \/ Fail \/ EndFunction \/ \E n \in Ident : DeclareFunction(n)
  BY <1>1, <1>15 DEF StartCompile, EndCompile, Fail, EndFunction, DeclareFunction
<1> QED BY <1>2, <1>6, <1>7, <1>8, <1>9, <1>10, <1>11, <1>12, <1>13, <1>14, <1>15 DEF Next

RefinementInv == ScopeInv /\ FunctionOpen

LEMMA NextRefinementInv ==
  ASSUME "failed" \notin RestartFrom
  PROVE  RefinementInv /\ [Next]_vars => RefinementInv'
BY NextHeapInv, NextScopes, NextFunctionOpen DEF RefinementInv, ScopeInv

\* The dummy Sym that turns on local storage has no name.
LEMMA DummyHidesNothing ==
  ASSUME HeapInv, HeapInv', TakeSym, NEW b, NEW prev, cell' = Filled(Anon, b, prev),
         global_stack' = global_stack, local_stack' = Append(local_stack, sym_malloc)
  PROVE  Environment(0)' = Environment(0)
<1>1. TypeOK /\ TypeOK' /\ PoolOK /\ SymsDisjoint
  BY DEF HeapInv
<1>2. \A i \in 1 .. Depth : Order[i] \in Sym /\ Order[i] # sym_malloc
  BY <1>1, OrderType, Malloc
<1>3. \A i \in 1 .. Depth : cell'[Order[i]] = cell[Order[i]]
  BY <1>1, <1>2 DEF Filled, TypeOK
<1>4. \A i \in 1 .. Len(global_stack) : i \in 1 .. Depth /\ Order'[i] = Order[i]
  BY <1>1, <1>2 DEF Order, Depth, TypeOK
<1>5. /\ Len(global_stack) + 0 = Len(global_stack)
      /\ 0 \in 0 .. Len(local_stack) /\ 0 \in 0 .. Len(local_stack')
  BY <1>1 DEF TypeOK
<1> QED BY <1>1, <1>3, <1>4, <1>5, EnvironmentKept

\* Every step is one of the language's environment, or leaves it alone.
LEMMA NextImplements ==
  ASSUME "failed" \notin RestartFrom, RefinementInv, RefinementInv', [Next]_vars
  PROVE  [Lexical!Next]_(Lexical!scopeVars)
<1>t. /\ HeapInv /\ HeapInv' /\ PhaseOK /\ PhaseOK' /\ FunctionOpen
      /\ (phase # "failed" => ChainsInOrder) /\ (phase' # "failed" => ChainsInOrder')
      /\ MarksOK /\ OpenedOK /\ OpenedOK' /\ marks \in Seq(Mark)
      /\ local_stack \in Seq(Sym) /\ local_stack' \in Seq(Sym)
      /\ Ident \subseteq Name \cup {Anon} /\ Name \subseteq Name \cup {Anon}
      /\ Anon \in Name \cup {Anon} /\ Anon \notin Name
  <2>1. OpenedOK /\ OpenedOK'
    BY OpenedType, PTL DEF RefinementInv, ScopeInv
  <2> QED BY <2>1, ScopesAssumption
          DEF RefinementInv, ScopeInv, LookupIsInnermost, HeapInv, TypeOK, Name
<1>b. (phase # "failed" => BindingOK) /\ (phase' # "failed" => BindingOK')
  <2>1. HeapInv /\ LookupIsInnermost /\ HeapInv' /\ LookupIsInnermost'
    BY DEF RefinementInv, ScopeInv
  <2>2. BindingUnlessFailed /\ BindingUnlessFailed'
    BY <2>1, BindingIs, PTL
  <2> QED BY <2>2 DEF BindingUnlessFailed
<1>o. /\ phase' \notin {"params", "body"} => Opened' = <<>>
      /\ phase \notin {"params", "body"} => Opened = <<>>
      /\ phase \in {"params", "body"} => local_stack # <<>>
  BY <1>t DEF OpenedOK, FunctionOpen
<1>c. ASSUME marks' = marks, phase' = phase PROVE Opened' = Opened
  BY <1>c DEF Opened
<1> DEFINE Step == [Lexical!Next]_(Lexical!scopeVars)
<1>p. ASSUME NEW n \in Name \cup {Anon}, NEW b, sym_push(n, b), phase # "failed",
             phase' # "failed", Opened' = Opened, Opened = <<>> \/ local_stack # <<>>
      PROVE  Step
  BY <1>t, <1>p, PushDeclares DEF Lexical!Next
<1>q. ASSUME NEW n \in Name \cup {Anon}, NEW b, global_identifier_push(n, b),
             phase # "failed", phase' # "failed", Opened' = Opened
      PROVE  Step
  BY <1>t, <1>q, GlobalPushDeclares DEF Lexical!Next
<1>r. ASSUME UNCHANGED heap, phase # "failed", phase' # "failed", Opened' = Opened
      PROVE  Step
  BY <1>r, NothingChanges
<1>e. ASSUME UNCHANGED heap, phase # "failed", phase' # "failed",
             Opened' = Append(Opened, Len(local_stack))
      PROVE  Step
  BY <1>t, <1>b, <1>e, EnterStep DEF Lexical!Next
<1> SUFFICES Step
  OBVIOUS
<1> HIDE DEF Step
<1>1. CASE StartCompile
  <2>1. sym_push(Anon, FALSE) /\ phase = "idle" /\ phase' = "file"
    BY <1>1, ScopesAssumption DEF StartCompile
  <2>2. /\ phase # "failed" /\ phase' # "failed" /\ Opened' = Opened /\ Opened = <<>>
        /\ Anon \in Name \cup {Anon}
    BY <1>o, <2>1
  <2> QED BY <1>p, <2>1, <2>2
<1>2. CASE EndCompile
  <2>1. /\ global_stack' = <<>> /\ local_stack' = local_stack /\ phase = "file"
        /\ phase' = "idle"
    BY <1>2 DEF EndCompile
  <2>2. Depth' = 0 /\ Opened' = <<>>
    BY <1>t, <1>o, <2>1 DEF PhaseOK, Depth
  <2> QED BY <1>t, <2>1, <2>2, UnitEndsStep DEF Step, Lexical!Next
<1>3. CASE Fail
  <2>1. phase' = "failed"
    BY <1>3 DEF Fail
  <2> QED BY <1>t, <1>o, <2>1, UnitEndsStep DEF Step, Lexical!Next
<1>4. ASSUME NEW n \in Ident, DeclareFunction(n) PROVE Step
  <2>1. phase = "file" /\ phase' = "proto" /\ Opened' = Opened
    BY <1>o, <1>4 DEF DeclareFunction
  <2>2. CASE UNCHANGED <<heap, decls>>
    BY <1>r, <2>1, <2>2
  <2>3. CASE global_identifier_push(n, TRUE)
    BY <1>t, <1>q, <2>1, <2>3
  <2> QED BY <1>4, <2>2, <2>3 DEF DeclareFunction
<1>5. CASE OpenFunction
  <2>1. /\ phase = "proto" /\ phase' = "params" /\ TakeSym /\ cell' = Filled(Anon, FALSE, NULL)
        /\ local_stack' = Append(local_stack, sym_malloc) /\ global_stack' = global_stack
        /\ sym_identifier' = sym_identifier /\ Bind(Anon) /\ marks = <<>> /\ marks' = <<>>
        /\ local_stack = <<>>
    BY <1>t, <1>5 DEF OpenFunction, Bind, MarksOK, PhaseOK
  <2>2. phase # "failed" /\ phase' # "failed" /\ Opened = <<>> /\ Opened' = <<0>>
    BY <1>t, <2>1 DEF OpenedOK
  <2>3. Binding' = Binding
    BY <1>t, <2>1, <2>2, PushBinding
  <2>4. Environment(0)' = Environment(0)
    BY <1>t, <2>1, DummyHidesNothing
  <2>5. Binding = Environment(0)
    BY <1>b, <2>1, <2>2 DEF BindingOK
  <2>6. Saved = <<>> /\ Saved' = <<Binding>>
    BY <2>2, <2>4, <2>5 DEF Saved
  <2>7. Lexical!Enter
    BY <2>3, <2>6 DEF Lexical!Enter
  <2> QED BY <2>7 DEF Step, Lexical!Next
<1>6. ASSUME NEW n \in Ident, PushParam(n) PROVE Step
  <2>1. /\ sym_push(n, FALSE) /\ phase = "params" /\ phase' = phase /\ marks' = marks
    BY <1>6 DEF PushParam
  <2> QED BY <1>t, <1>o, <1>c, <1>p, <2>1
<1>7. CASE OpenBody
  <2>1. /\ UNCHANGED heap /\ phase = "params" /\ phase' = "body" /\ marks = <<>>
        /\ marks' = <<[pos |-> Len(local_stack), is_expr |-> FALSE, base |-> 0]>>
    BY <1>t, <1>7 DEF OpenBody, MarksOK
  <2>2. Opened' = Append(Opened, Len(local_stack))
    BY <1>t, <2>1 DEF Opened
  <2>3. phase # "failed" /\ phase' # "failed"
    BY <2>1
  <2> QED BY <1>e, <2>1, <2>2, <2>3
<1>8. CASE EndFunction
  <2>1. /\ phase = "body" /\ phase' = "file" /\ marks = <<>> /\ local_stack' = <<>>
        /\ global_stack' = global_stack /\ cell' = cell
    BY <1>8 DEF EndFunction, sym_pop
  <2>2. /\ Len(Opened) = 0 + 1 /\ Opened[0 + 1] = 0 /\ Len(Opened') = 0
        /\ \A i \in 1 .. 0 : Opened'[i] = Opened[i]
    BY <1>t, <1>o, <2>1 DEF OpenedOK
  <2>3. 0 \in 0 .. Len(local_stack) /\ local_stack' = SubSeq(local_stack, 1, 0)
    BY <1>t, <2>1
  <2>4. phase' # "failed" /\ BindingOK'
    BY <1>b, <2>1
  <2>5. Lexical!Leave
    BY <1>t, <2>1, <2>2, <2>3, <2>4, LeaveStep
  <2> QED BY <2>5 DEF Step, Lexical!Next
<1>9. CASE EnterBlock \/ EnterStatementExpr
  <2>1. UNCHANGED heap /\ phase = "body" /\ phase' = "body"
    BY <1>9 DEF EnterBlock, EnterStatementExpr, BetweenStatements, InBlock
  <2>2. PICK e, b : marks' = Append(marks, [pos |-> Len(local_stack), is_expr |-> e,
                                            base |-> b])
    BY <1>9 DEF EnterBlock, EnterStatementExpr
  <2>3. Opened' = Append(Opened, Len(local_stack))
    BY <1>t, <2>1, <2>2 DEF Opened
  <2>4. phase # "failed" /\ phase' # "failed"
    BY <2>1
  <2> QED BY <1>e, <2>1, <2>3, <2>4
<1>11. CASE LeaveBlock
  <2>1. /\ InBlock /\ phase = "body" /\ phase' = "body" /\ cell' = cell
        /\ marks' = SubSeq(marks, 1, Len(marks) - 1) /\ global_stack' = global_stack
        /\ local_stack' = SubSeq(local_stack, 1, Here.pos)
    BY <1>11 DEF LeaveBlock, BetweenStatements, InBlock, sym_pop
  <2>2. PICK d \in Nat : d + 1 = Len(marks) + 1 /\ d \in 1 .. Len(marks)
    BY <1>t, <2>1 DEF InBlock
  <2>3. PICK k \in 0 .. Len(local_stack) : k = Here.pos
    BY <1>t, <2>1, HereType
  <2>4. Len(Opened) = d + 1 /\ Opened[d + 1] = k
    BY <1>t, <2>1, <2>2, <2>3 DEF OpenedOK, Here
  <2>5. PICK e \in 0 .. Len(marks) : e = Len(marks) - 1 /\ e + 1 = d
    BY <2>2
  <2>6. Len(marks') = e /\ \A i \in 1 .. e : marks'[i] = marks[i]
    BY <1>t, <2>1, <2>5
  <2>7. Len(Opened') = d /\ \A i \in 1 .. d : Opened'[i] = Opened[i]
    <3>0. /\ Opened[1] = 0 /\ \A i \in 1 .. Len(marks) : Opened[i + 1] = marks[i].pos
          /\ Opened'[1] = 0 /\ \A i \in 1 .. Len(marks') : Opened'[i + 1] = marks'[i].pos
          /\ Len(Opened') = Len(marks') + 1
      BY <1>t, <2>1 DEF OpenedOK
    <3>1. Len(Opened') = d /\ Opened'[1] = Opened[1]
      BY <2>5, <2>6, <3>0
    <3>2. ASSUME NEW i \in 1 .. e PROVE Opened'[i + 1] = Opened[i + 1]
      <4>1. i \in 1 .. Len(marks) /\ i \in 1 .. Len(marks') /\ marks'[i] = marks[i]
        BY <2>5, <2>6
      <4> QED BY <3>0, <4>1
    <3>3. \A i \in 1 .. d : i = 1 \/ (i - 1 \in 1 .. e /\ i = i - 1 + 1)
      BY <2>5
    <3> QED BY <3>1, <3>2, <3>3
  <2>8. phase' # "failed" /\ BindingOK' /\ local_stack' = SubSeq(local_stack, 1, k)
    BY <1>b, <2>1, <2>3
  <2>9. Lexical!Leave
    BY <1>t, <2>1, <2>4, <2>7, <2>8, LeaveStep
  <2> QED BY <2>9 DEF Step, Lexical!Next
<1>12. ASSUME NEW n \in Ident, NEW b \in BOOLEAN, PushName(n, b) PROVE Step
  <2>1. /\ sym_push(n, b) /\ phase \in {"file", "body"} /\ phase' = phase /\ marks' = marks
    BY <1>12 DEF PushName, BetweenStatements, InBlock
  <2> QED BY <1>t, <1>o, <1>c, <1>p, <2>1
<1>13. ASSUME NEW n \in Name, DeclareUnlessBound(n) PROVE Step
  <2>1. /\ sym_push(n, n \in Ident) /\ phase \in {"file", "body"} /\ phase' = phase
        /\ marks' = marks
    BY <1>13 DEF DeclareUnlessBound, BetweenStatements, InBlock
  <2>2. PICK b : b = (n \in Ident)
    OBVIOUS
  <2>3. sym_push(n, b) /\ phase # "failed" /\ phase' # "failed" /\ Opened' = Opened
    BY <1>c, <2>1, <2>2
  <2>4. Opened = <<>> \/ local_stack # <<>>
    BY <1>o, <2>1
  <2> QED BY <1>t, <1>p, <2>3, <2>4
<1>14. CASE PushType
  <2>1. /\ sym_push(Anon, FALSE) /\ phase \in {"file", "body"} /\ phase' = phase
        /\ marks' = marks
    BY <1>14 DEF PushType, InBlock
  <2> QED BY <1>t, <1>o, <1>c, <1>p, <2>1
<1>15. ASSUME NEW n \in Ident, UseName(n) PROVE Step
  <2>1. UNCHANGED heap /\ phase = "body" /\ phase' = phase /\ marks' = marks
    BY <1>15 DEF UseName, InBlock
  <2> QED BY <1>c, <1>r, <2>1
<1>16. ASSUME NEW n \in Ident, CallUndeclared(n) PROVE Step
  <2>1. global_identifier_push(n, TRUE) /\ phase = "body" /\ phase' = phase /\ marks' = marks
    BY <1>16 DEF CallUndeclared, InBlock
  <2> QED BY <1>t, <1>c, <1>q, <2>1
<1>17. CASE UseLiteral
  <2>1. global_identifier_push(Anon, TRUE) /\ phase = "body" /\ phase' = phase /\ marks' = marks
    BY <1>17 DEF UseLiteral, InBlock
  <2>2. phase # "failed" /\ phase' # "failed" /\ Opened' = Opened /\ Anon \in Name \cup {Anon}
    BY <1>c, <2>1
  <2> QED BY <1>q, <2>1, <2>2
<1>18. CASE DropValue
  <2>1. UNCHANGED heap /\ phase = "body" /\ phase' = phase /\ marks' = marks
    BY <1>18 DEF DropValue, InBlock
  <2>2. phase # "failed" /\ phase' # "failed" /\ Opened' = Opened
    BY <1>c, <2>1
  <2> QED BY <1>r, <2>1, <2>2
<1>19. CASE UNCHANGED vars
  <2>1. UNCHANGED Lexical!scopeVars
    BY <1>19 DEF vars, Lexical!scopeVars, Binding, Saved, Opened, Environment
  <2> QED BY <2>1 DEF Step
<1> QED BY <1>1, <1>2, <1>3, <1>4, <1>5, <1>6, <1>7, <1>8, <1>9, <1>11,
           <1>12, <1>13, <1>14, <1>15, <1>16, <1>17, <1>18, <1>19 DEF Next

(***************************************************************************)
(* The theorem                                                             *)
(***************************************************************************)
LEMMA InitImplements == Init => RefinementInv /\ Lexical!Init
<1> SUFFICES ASSUME Init PROVE RefinementInv /\ Lexical!Init
  OBVIOUS
<1>1. RefinementInv
  BY InitScopeInv DEF RefinementInv, FunctionOpen, Init
<1>2. Binding = [n \in Name |-> NULL]
  BY DEF Init, Binding
<1>3. Opened = <<>>
  BY DEF Init, Opened
<1>4. Saved = <<>>
  BY <1>3 DEF Saved
<1> QED BY <1>1, <1>2, <1>4 DEF Lexical!Init, Lexical!Empty

\* The symbol tables implement lexical scoping, for any number of names, Syms,
\* blocks and declarations: whatever sym_push, global_identifier_push and
\* sym_pop do to stacks and chains, a program sees scopes that open, declare
\* and close.  The hypothesis leaves out a unit compiled with the same state
\* after a failed one, when local_stack still holds the failed one's Syms.
THEOREM ScopesAreLexical ==
  ASSUME "failed" \notin RestartFrom
  PROVE  Spec => ImplementsLexicalScopes
<1>1. Init => RefinementInv /\ Lexical!Init
  BY InitImplements
<1>2. RefinementInv /\ [Next]_vars => RefinementInv'
  BY NextRefinementInv
<1>3. RefinementInv /\ RefinementInv' /\ [Next]_vars => [Lexical!Next]_(Lexical!scopeVars)
  BY NextImplements
<1> QED BY <1>1, <1>2, <1>3, PTL DEF Spec, ImplementsLexicalScopes, Lexical!Spec
=============================================================================

--------------------------- MODULE LinkInputsProofs ---------------------------
(***************************************************************************)
(* Theorems about module LinkInputs, for every library path, set of files  *)
(* and bound on the requests.  No property of them is inductive.  Whether  *)
(* a DLL is marked as asked for by the user also depends on the level that *)
(* waits in a running call of tcc_add_dll.  That an entry stays on its     *)
(* site depends on the section it relocates being the one of that name,    *)
(* on no two sections having one name, and on what is in a link-once       *)
(* section being in the symbol table.  What is loaded of an archive        *)
(* depends on the symbol table being the one its call began with and what  *)
(* the members loaded since have made of it, and on a link-once section    *)
(* being dropped only when its symbols are defined already.                *)
(***************************************************************************)
EXTENDS LinkInputs, NaturalExtrema

(***************************************************************************)
(* Sequences whose elements have no type: they are sequences of what they  *)
(* hold.                                                                   *)
(***************************************************************************)
\* A sequence of anything is a sequence of what it holds.
LEMMA OwnElements ==
  ASSUME NEW S, NEW s \in Seq(S)
  PROVE  Sequence(s)
PROOF
  <1>1. s \in [1 .. Len(s) -> ToSet(s)]
    BY DEF ToSet
  <1> QED
    BY <1>1 DEF Sequence

\* Append adds one element behind the others.
LEMMA Appending ==
  ASSUME NEW s, Sequence(s), NEW e
  PROVE  /\ Sequence(Append(s, e))
         /\ Len(s) \in Nat
         /\ DOMAIN s = 1 .. Len(s)
         /\ Len(Append(s, e)) = Len(s) + 1
         /\ DOMAIN Append(s, e) = 1 .. Len(s) + 1
         /\ \A k \in 1 .. Len(s) : Append(s, e)[k] = s[k]
         /\ Append(s, e)[Len(s) + 1] = e
PROOF
  <1> DEFINE S == ToSet(s) \cup {e}
  <1>1. s \in Seq(ToSet(s))
    BY DEF Sequence
  <1>2. s \in Seq(S)
    BY <1>1
  <1> HIDE DEF S
  <1>3. e \in S
    BY DEF S
  <1>4. Append(s, e) \in Seq(S)
    BY <1>2, <1>3
  <1>5. Sequence(Append(s, e))
    BY <1>4, OwnElements
  <1> QED
    BY <1>2, <1>3, <1>4, <1>5

\* Front takes the last element away.
LEMMA Fronts ==
  ASSUME NEW s, Sequence(s), s # <<>>
  PROVE  /\ Sequence(Front(s))
         /\ Len(s) \in Nat \ {0}
         /\ Len(Front(s)) = Len(s) - 1
         /\ \A k \in 1 .. Len(s) - 1 : Front(s)[k] = s[k]
PROOF
  <1>1. s \in Seq(ToSet(s)) /\ Len(s) \in Nat /\ DOMAIN s = 1 .. Len(s)
    BY DEF Sequence
  <1>2. Len(s) # 0
    BY <1>1
  <1>3. Front(s) \in Seq(ToSet(s))
    BY <1>1, <1>2 DEF Front
  <1>4. Len(Front(s)) = Len(s) - 1 /\ \A k \in 1 .. Len(s) - 1 : Front(s)[k] = s[k]
    BY <1>1, <1>2 DEF Front
  <1>5. Sequence(Front(s))
    BY <1>3, OwnElements
  <1> QED
    BY <1>1, <1>2, <1>4, <1>5

(***************************************************************************)
(* DLLs: the inductive invariant                                           *)
(***************************************************************************)
\* A search for a DLL waits with the level the DLL is to have, and what goes
\* through an archive with a place in one.
ThroughArchive(c) == c.fn \in {"tcc_load_alacarte", "tcc_load_archive"}
IsCall(c) ==
  /\ "fn" \in DOMAIN c
  /\ c.fn = "tcc_add_dll" => "level" \in DOMAIN c /\ c.level \in {0, 1}
  /\ ThroughArchive(c) => {"ar", "i"} \subseteq DOMAIN c /\ c.ar \in Archives /\ c.i \in Nat
CallsOK(stk) == Sequence(stk) /\ \A k \in 1 .. Len(stk) : IsCall(stk[k])

IsDll(d) == d = [name |-> d.name, level |-> d.level] /\ d.level \in {0, 1}
DllsOK == Sequence(loaded_dlls) /\ \A j \in 1 .. Len(loaded_dlls) : IsDll(loaded_dlls[j])

\* Only what is loaded has been named.
NamedOK == \A n \in named : IsLoaded(n)

DllInv == CallsOK(stack) /\ DllsOK /\ NamedOK /\ NeededAsNamed

\* A call pushed leaves the others alone.
LEMMA Pushed ==
  ASSUME NEW stk, CallsOK(stk), NEW c, IsCall(c)
  PROVE  CallsOK(Append(stk, c))
PROOF
  <1>1. Sequence(stk) /\ \A k \in 1 .. Len(stk) : IsCall(stk[k])
    BY DEF CallsOK
  <1>2. ASSUME NEW k \in 1 .. Len(Append(stk, c)) PROVE IsCall(Append(stk, c)[k])
    <2>1. CASE k \in 1 .. Len(stk)
      BY <1>1, <2>1, Appending
    <2>2. CASE k \notin 1 .. Len(stk)
      <3>1. k = Len(stk) + 1
        BY <1>1, <1>2, <2>2, Appending
      <3> QED
        BY <1>1, <3>1, Appending
    <2> QED
      BY <2>1, <2>2
  <1> QED
    BY <1>1, <1>2, Appending DEF CallsOK

\* A call that returns leaves the others alone, and is a call.
LEMMA Popped ==
  ASSUME CallsOK(stack), stack # <<>>
  PROVE  CallsOK(Rest) /\ IsCall(Top)
PROOF
  <1>1. Sequence(stack) /\ \A k \in 1 .. Len(stack) : IsCall(stack[k])
    BY DEF CallsOK
  <1> QED
    BY <1>1, Fronts DEF CallsOK, Rest, Top

\* Whatever else a call notes, it stays the call it is.
LEMMA CallGoesOn ==
  ASSUME NEW c, IsCall(c), NEW x, ThroughArchive(c) => x \in Nat, NEW y, NEW z
  PROVE  /\ IsCall([c EXCEPT !.i = x])
         /\ \A t : IsCall([c EXCEPT !.tried = t])
         /\ IsCall([c EXCEPT !.i = x, !.bound = y])
         /\ IsCall([c EXCEPT !.i = x, !.bound = y, !.taken = z])
PROOF
  BY DEF IsCall, ThroughArchive

\* New calls are calls.
LEMMA NewCalls ==
  /\ \A n : \A l \in {0, 1} : IsCall(AddDll(n, l))
  /\ \A a \in Archives : IsCall(Alacarte(a)) /\ IsCall(Members(a))
  /\ \A a : IsCall(AddLibrary(a)) /\ IsCall(Needed(a)) /\ IsCall(Script(a))
PROOF
  BY DEF IsCall, ThroughArchive, AddDll, AddLibrary, Alacarte, Members, Needed, Script

\* Nothing but tcc_load_dll touches the DLLs.
LEMMA DllsUntouched ==
  ASSUME DllsOK, NamedOK, NeededAsNamed, UNCHANGED <<loaded_dlls, named>>
  PROVE  (DllsOK /\ NamedOK /\ NeededAsNamed)'
PROOF
  BY DEF DllsOK, NamedOK, NeededAsNamed, IsLoaded

\* A DLL of a new name is loaded with the level it is asked for at.
LEMMA DllIsNew ==
  ASSUME DllInv, NEW n, NEW level \in {0, 1}, ~IsLoaded(n),
         loaded_dlls' = Append(loaded_dlls, [name |-> n, level |-> level]),
         named' = IF level = 0 THEN named \cup {n} ELSE named
  PROVE  (DllsOK /\ NamedOK /\ NeededAsNamed)'
PROOF
  <1> DEFINE d == [name |-> n, level |-> level]
             old == loaded_dlls
             new == loaded_dlls'
  <1>1. Sequence(old) /\ (\A j \in 1 .. Len(old) : IsDll(old[j])) /\ DOMAIN old = 1 .. Len(old)
        /\ Len(old) \in Nat
    BY Appending DEF DllInv, DllsOK
  <1>2. /\ Sequence(new) /\ Len(new) = Len(old) + 1 /\ DOMAIN new = 1 .. Len(old) + 1
        /\ (\A j \in 1 .. Len(old) : new[j] = old[j]) /\ new[Len(old) + 1] = d
    BY <1>1, Appending
  <1>3. IsDll(d) /\ d.name = n /\ d.level = level
    BY DEF IsDll
  <1>4. n \notin named
    BY DEF DllInv, NamedOK
  <1>5. \A j \in 1 .. Len(old) : old[j].name # n
    BY <1>1 DEF IsLoaded
  <1>6. /\ \A i, j \in 1 .. Len(old) : old[i].name = old[j].name => i = j
        /\ \A j \in 1 .. Len(old) : old[j].level = 0 <=> old[j].name \in named
    BY <1>1 DEF DllInv, NeededAsNamed
  <1> HIDE DEF d
  <1>7. \A j \in 1 .. Len(new) : j \in 1 .. Len(old) \/ j = Len(old) + 1
    BY <1>1, <1>2
  <1>8. DllsOK'
    BY <1>1, <1>2, <1>3, <1>7 DEF DllsOK
  <1>9. NamedOK'
    <2>1. \A m \in named : \E j \in 1 .. Len(old) : old[j].name = m
      BY <1>1 DEF DllInv, NamedOK, IsLoaded
    <2>2. \A m \in named : \E j \in 1 .. Len(old) + 1 : new[j].name = m
      BY <1>1, <1>2, <2>1
    <2>3. \E j \in 1 .. Len(old) + 1 : new[j].name = n
      BY <1>1, <1>2, <1>3
    <2> QED
      BY <1>2, <2>2, <2>3 DEF NamedOK, IsLoaded
  <1>10. NeededAsNamed'
    <2>1. ASSUME NEW i \in 1 .. Len(old) + 1, NEW j \in 1 .. Len(old) + 1, new[i].name = new[j].name
          PROVE  i = j
      BY <1>1, <1>2, <1>3, <1>5, <1>6, <2>1
    <2>2. ASSUME NEW j \in 1 .. Len(old) + 1 PROVE new[j].level = 0 <=> new[j].name \in named'
      <3>1. CASE j \in 1 .. Len(old)
        BY <1>1, <1>2, <1>5, <1>6, <3>1
      <3>2. CASE j = Len(old) + 1
        BY <1>2, <1>3, <1>4, <3>2
      <3> QED
        BY <1>1, <3>1, <3>2
    <2> QED
      BY <1>2, <2>1, <2>2 DEF NeededAsNamed
  <1> QED
    BY <1>8, <1>9, <1>10

\* A DLL that is loaded already is asked for by the user from now on.
LEMMA DllIsKnown ==
  ASSUME DllInv, NEW n, NEW level \in {0, 1}, IsLoaded(n),
         loaded_dlls' = [j \in DOMAIN loaded_dlls |-> LevelUpdated(loaded_dlls[j], n, level)],
         named' = IF level = 0 THEN named \cup {n} ELSE named
  PROVE  (DllsOK /\ NamedOK /\ NeededAsNamed)'
PROOF
  <1> DEFINE old == loaded_dlls
             new == loaded_dlls'
  <1>1. Sequence(old) /\ (\A j \in 1 .. Len(old) : IsDll(old[j])) /\ DOMAIN old = 1 .. Len(old)
        /\ Len(old) \in Nat
    BY Appending DEF DllInv, DllsOK
  <1>2. DOMAIN new = 1 .. Len(old)
    BY <1>1
  <1>3. /\ \A i, j \in 1 .. Len(old) : old[i].name = old[j].name => i = j
        /\ \A j \in 1 .. Len(old) : old[j].level = 0 <=> old[j].name \in named
    BY <1>1 DEF DllInv, NeededAsNamed
  <1>4. ASSUME NEW j \in 1 .. Len(old)
        PROVE  /\ IsDll(new[j])
               /\ new[j].name = old[j].name
               /\ new[j].level = IF old[j].name = n /\ level < old[j].level THEN level
                                 ELSE old[j].level
    <2>1. new[j] = LevelUpdated(old[j], n, level)
      BY <1>1
    <2>2. PICK d : d = old[j]
      OBVIOUS
    <2>3. d = [name |-> d.name, level |-> d.level] /\ d.level \in {0, 1}
      BY <1>1, <2>2 DEF IsDll
    <2>4. [d EXCEPT !.level = level] = [name |-> d.name, level |-> level]
      BY <2>3
    <2>5. IsDll([name |-> d.name, level |-> level])
      BY DEF IsDll
    <2> QED
      BY <1>1, <2>1, <2>2, <2>3, <2>4, <2>5 DEF LevelUpdated
  <1>5. new \in Seq({new[j] : j \in 1 .. Len(old)}) /\ Len(new) = Len(old)
    BY <1>1, <1>2
  <1>6. DllsOK'
    BY <1>4, <1>5, OwnElements DEF DllsOK
  <1>7. NamedOK'
    <2>1. \A m \in named : \E j \in 1 .. Len(old) : old[j].name = m
      BY <1>1 DEF DllInv, NamedOK, IsLoaded
    <2>2. \E j \in 1 .. Len(old) : old[j].name = n
      BY <1>1 DEF IsLoaded
    <2>3. \A m \in named' : \E j \in 1 .. Len(old) : new[j].name = m
      BY <1>4, <2>1, <2>2, ZenonT(60)
    <2> QED
      BY <1>2, <2>3 DEF NamedOK, IsLoaded
  <1>8. NeededAsNamed'
    <2>1. ASSUME NEW i \in 1 .. Len(old), NEW j \in 1 .. Len(old), new[i].name = new[j].name
          PROVE  i = j
      BY <1>3, <1>4, <2>1
    <2>2. ASSUME NEW j \in 1 .. Len(old) PROVE new[j].level = 0 <=> new[j].name \in named'
      <3>1. old[j].level \in {0, 1}
        BY <1>1 DEF IsDll
      <3>4. PICK l, m, l2, m2 : /\ l = old[j].level /\ m = old[j].name
                               /\ l2 = new[j].level /\ m2 = new[j].name
        OBVIOUS
      <3>5. l = 0 <=> m \in named
        BY <1>3, <3>4
      <3>6. l \in {0, 1} /\ m2 = m /\ l2 = IF m = n /\ level < l THEN level ELSE l
        BY <1>4, <3>1, <3>4
      <3>7. m2 \in named' <=> m \in named \/ (level = 0 /\ m = n)
        BY <3>6
      <3>8. l2 = 0 <=> l = 0 \/ (level = 0 /\ m = n)
        BY <3>6
      <3> HIDE DEF old, new
      <3>9. l2 = 0 <=> m2 \in named'
        BY <3>5, <3>7, <3>8
      <3> QED
        BY <3>4, <3>9
    <2> QED
      BY <1>2, <2>1, <2>2 DEF NeededAsNamed
  <1> QED
    BY <1>6, <1>7, <1>8

\* tcc_load_dll, called by what stk holds.
LEMMA LoadDllKeeps ==
  ASSUME DllInv, NEW dll, NEW level \in {0, 1}, NEW stk, CallsOK(stk),
         tcc_load_dll(dll, level, stk)
  PROVE  DllInv'
PROOF
  <1>1. named' = IF level = 0 THEN named \cup {dll.soname} ELSE named
    BY DEF tcc_load_dll
  <1>2. PICK n : n = dll.soname
    OBVIOUS
  <1>3. CASE IsLoaded(n)
    <2>1. loaded_dlls' = [j \in DOMAIN loaded_dlls |-> LevelUpdated(loaded_dlls[j], n, level)]
          /\ stack' = stk
      BY <1>2, <1>3 DEF tcc_load_dll
    <2> QED
      BY <1>1, <1>2, <1>3, <2>1, DllIsKnown DEF DllInv, CallsOK
  <1>4. CASE ~IsLoaded(n)
    <2>1. loaded_dlls' = Append(loaded_dlls, [name |-> n, level |-> level])
          /\ stack' = Append(stk, Needed(dll))
      BY <1>2, <1>4 DEF tcc_load_dll, Below
    <2>2. CallsOK(stack')
      BY <2>1, Pushed, NewCalls
    <2>3. (DllsOK /\ NamedOK /\ NeededAsNamed)'
      BY <1>1, <1>2, <1>4, <2>1, DllIsNew
    <2> QED
      BY <2>2, <2>3 DEF DllInv, CallsOK
  <1> QED
    BY <1>3, <1>4

\* Steps that leave the DLLs alone keep the invariant if they keep the calls.
LEMMA OnlyCalls ==
  ASSUME DllInv, UNCHANGED <<loaded_dlls, named>>, CallsOK(stack')
  PROVE  DllInv'
PROOF
  <1>1. (DllsOK /\ NamedOK /\ NeededAsNamed)'
    BY DllsUntouched DEF DllInv
  <1> QED
    BY <1>1 DEF DllInv, CallsOK

\* tcc_add_file_internal, called by what stk holds.
LEMMA AddFileKeeps ==
  ASSUME DllInv, NEW path, NEW level \in {0, 1}, NEW stk, CallsOK(stk),
         tcc_add_file_internal(path, level, stk)
  PROVE  DllInv'
PROOF
  <1> DEFINE f == Files[path]
  <1>1. CASE path \notin DOMAIN Files
    BY <1>1, OnlyCalls DEF tcc_add_file_internal, data
  <1>2. CASE path \in DOMAIN Files
    <2> USE <1>2
    <2> SUFFICES ASSUME
          \/ tcc_compile(f) /\ stack' = stk
          \/ tcc_load_object_file(f) /\ stack' = stk
          \/ tcc_load_dll(f, level, stk)
          \/ f.kind = "archive"
             /\ stack' = Append(stk, IF f.index # <<>> THEN Alacarte(f) ELSE Members(f))
             /\ UNCHANGED <<loaded_dlls, named>>
          \/ stack' = Append(stk, Script(f.list)) /\ UNCHANGED <<loaded_dlls, named>>
          \/ stack' = stk /\ UNCHANGED <<loaded_dlls, named>>
        PROVE DllInv'
      BY DEF tcc_add_file_internal, Below, data
    <2>1. CASE tcc_compile(f) /\ stack' = stk
      BY <2>1, OnlyCalls DEF tcc_compile
    <2>2. CASE tcc_load_object_file(f) /\ stack' = stk
      BY <2>2, OnlyCalls DEF tcc_load_object_file
    <2>3. CASE tcc_load_dll(f, level, stk)
      BY <2>3, LoadDllKeeps
    <2>4. CASE /\ f.kind = "archive"
               /\ stack' = Append(stk, IF f.index # <<>> THEN Alacarte(f) ELSE Members(f))
               /\ UNCHANGED <<loaded_dlls, named>>
      <3>1. f \in Archives
        BY <2>4 DEF Archives
      <3>2. IsCall(IF f.index # <<>> THEN Alacarte(f) ELSE Members(f))
        BY <3>1, NewCalls
      <3> QED
        BY <2>4, <3>2, Pushed, OnlyCalls
    <2>5. CASE stack' = Append(stk, Script(f.list)) /\ UNCHANGED <<loaded_dlls, named>>
      <3>1. IsCall(Script(f.list))
        BY NewCalls
      <3> QED
        BY <2>5, <3>1, Pushed, OnlyCalls
    <2>6. CASE stack' = stk /\ UNCHANGED <<loaded_dlls, named>>
      BY <2>6, OnlyCalls
    <2> QED
      BY <2>1, <2>2, <2>3, <2>4, <2>5, <2>6
  <1> QED
    BY <1>1, <1>2

\* Nothing is loaded at first.
LEMMA DllInit ==
  ASSUME Init
  PROVE  DllInv
PROOF
  <1>1. stack = <<>> /\ loaded_dlls = <<>> /\ named = {}
    BY DEF Init
  <1>2. Sequence(<<>>)
    BY DEF Sequence
  <1> QED
    BY <1>1, <1>2 DEF DllInv, CallsOK, DllsOK, NamedOK, NeededAsNamed

\* Every step of the calls.
LEMMA DllStep ==
  ASSUME DllInv, Step
  PROVE  DllInv'
PROOF
  <1>1. CallsOK(stack)
    BY DEF DllInv
  <1>2. ASSUME stack # <<>>
        PROVE  /\ CallsOK(Rest) /\ IsCall(Top)
               /\ \A x : CallsOK(Append(Rest, [Top EXCEPT !.tried = x]))
               /\ \A x : (ThroughArchive(Top) => x \in Nat) =>
                         /\ CallsOK(Append(Rest, [Top EXCEPT !.i = x]))
                         /\ \A y : /\ CallsOK(Append(Rest, [Top EXCEPT !.i = x, !.bound = y]))
                                   /\ \A z : CallsOK(Append(Rest, [Top EXCEPT !.i = x, !.bound = y,
                                                                              !.taken = z]))
    <2>1. CallsOK(Rest) /\ IsCall(Top)
      BY <1>1, <1>2, Popped
    <2>2. PICK rest, top : rest = Rest /\ top = Top
      OBVIOUS
    <2>3. CallsOK(rest) /\ IsCall(top)
      BY <2>1, <2>2
    <2>4. ASSUME NEW x, ThroughArchive(top) => x \in Nat
          PROVE  /\ CallsOK(Append(rest, [top EXCEPT !.i = x]))
                 /\ \A y : /\ CallsOK(Append(rest, [top EXCEPT !.i = x, !.bound = y]))
                           /\ \A z : CallsOK(Append(rest, [top EXCEPT !.i = x, !.bound = y,
                                                                      !.taken = z]))
      <3>1. ASSUME NEW y, NEW z
            PROVE  /\ CallsOK(Append(rest, [top EXCEPT !.i = x]))
                   /\ CallsOK(Append(rest, [top EXCEPT !.i = x, !.bound = y]))
                   /\ CallsOK(Append(rest, [top EXCEPT !.i = x, !.bound = y, !.taken = z]))
        <4>1. /\ IsCall([top EXCEPT !.i = x])
              /\ IsCall([top EXCEPT !.i = x, !.bound = y])
              /\ IsCall([top EXCEPT !.i = x, !.bound = y, !.taken = z])
          BY <2>3, <2>4, CallGoesOn
        <4> QED
          BY <2>3, <4>1, Pushed
      <3> QED
        BY <3>1
    <2>5. ASSUME NEW x PROVE CallsOK(Append(rest, [top EXCEPT !.tried = x]))
      <3>1. IsCall([top EXCEPT !.tried = x])
        <4>1. ThroughArchive(top) => 0 \in Nat
          OBVIOUS
        <4> QED
          BY <2>3, <4>1, CallGoesOn
      <3> QED
        BY <2>3, <3>1, Pushed
    <2> QED
      BY <2>1, <2>2, <2>4, <2>5
  <1>3. ASSUME NEW fn, Runs(fn) PROVE stack # <<>> /\ Top.fn = fn
    BY <1>3 DEF Runs
  <1>4. ASSUME NEW r, stack # <<>>, Returns(r) PROVE DllInv'
    BY <1>2, <1>4, OnlyCalls DEF Returns, data
  <1>0. ASSUME stack # <<>>, ThroughArchive(Top) PROVE Top.i \in Nat /\ Top.i + 1 \in Nat
    <2>1. PICK top, i : top = Top /\ i = top.i
      OBVIOUS
    <2>2. IsCall(top)
      BY <1>0, <1>2, <2>1
    <2>3. i \in Nat
      BY <1>0, <2>1, <2>2 DEF IsCall
    <2> QED
      BY <2>1, <2>3
  <1>5. CASE SearchNext
    <2>1. stack # <<>> /\ Top.fn = "tcc_add_dll"
      BY <1>3, <1>5 DEF SearchNext
    <2>2. Top.level \in {0, 1}
      BY <1>2, <2>1 DEF IsCall
    <2>3. PICK level, path, stk : /\ level = Top.level
                                  /\ path = <<LibraryPaths[Top.i + 1], Top.name>>
                                  /\ stk = Append(Rest, [Top EXCEPT !.i = @ + 1])
      OBVIOUS
    <2>4. CallsOK(stk)
      BY <1>2, <2>1, <2>3 DEF ThroughArchive
    <2>5. tcc_add_file_internal(path, level, stk)
      BY <1>5, <2>3 DEF SearchNext
    <2> QED
      BY <2>2, <2>3, <2>4, <2>5, AddFileKeeps
  <1>6. CASE Searched
    BY <1>3, <1>4, <1>6 DEF Searched
  <1>7. CASE LibraryNext
    <2>1. stack # <<>>
      BY <1>3, <1>7 DEF LibraryNext
    <2>2. PICK t, n : stack' = Append(Append(Rest, [Top EXCEPT !.tried = t]), AddDll(n, 0))
      BY <1>7 DEF LibraryNext, Below
    <2>3. CallsOK(Append(Rest, [Top EXCEPT !.tried = t])) /\ IsCall(AddDll(n, 0))
      BY <1>2, <2>1, NewCalls
    <2>4. CallsOK(stack')
      BY <2>2, <2>3, Pushed
    <2> QED
      BY <1>7, <2>4, OnlyCalls DEF LibraryNext, data
  <1>8. CASE LibraryFound
    BY <1>3, <1>4, <1>8 DEF LibraryFound
  <1>9. CASE IndexEntry
    <2>1. stack # <<>>
      BY <1>3, <1>9 DEF IndexEntry
    <2>2. UNCHANGED <<loaded_dlls, named>>
      BY <1>9 DEF IndexEntry, tcc_load_object_file, data
    <2>3. PICK y, z : stack' = Append(Rest, [Top EXCEPT !.i = @ + 1, !.bound = y, !.taken = z])
      BY <1>9 DEF IndexEntry
    <2> QED
      BY <1>0, <1>2, <2>1, <2>2, <2>3, OnlyCalls
  <1>10. CASE IndexEnds
    <2>1. stack # <<>>
      BY <1>3, <1>10 DEF IndexEnds
    <2>2. CASE Again(Top)
      BY <1>2, <1>10, <2>1, <2>2, OnlyCalls DEF IndexEnds, NextPass, data
    <2>3. CASE ~Again(Top)
      BY <1>4, <1>10, <2>1, <2>3 DEF IndexEnds
    <2> QED
      BY <2>2, <2>3
  <1>11. CASE AlacarteFails
    BY <1>3, <1>4, <1>11 DEF AlacarteFails
  <1>12. CASE MemberNext
    <2>1. stack # <<>>
      BY <1>3, <1>12 DEF MemberNext
    <2> QED
      BY <1>0, <1>2, <1>12, <2>1, OnlyCalls DEF MemberNext, tcc_load_object_file
  <1>13. CASE MembersEnd
    BY <1>3, <1>4, <1>13 DEF MembersEnd
  <1>14. CASE NeededNext
    <2>1. stack # <<>> /\ ~ThroughArchive(Top)
      BY <1>3, <1>14 DEF NeededNext, ThroughArchive
    <2>2. PICK next, n : /\ next = Append(Rest, [Top EXCEPT !.i = @ + 1])
                         /\ stack' = next \/ stack' = Append(next, AddDll(n, 1))
      BY <1>14 DEF NeededNext, Below
    <2>3. CallsOK(next) /\ IsCall(AddDll(n, 1))
      BY <1>2, <2>1, <2>2, NewCalls
    <2>4. CallsOK(stack')
      BY <2>2, <2>3, Pushed
    <2> QED
      BY <1>14, <2>4, OnlyCalls DEF NeededNext, data
  <1>15. CASE NeededEnd
    BY <1>3, <1>4, <1>15 DEF NeededEnd
  <1>16. CASE ScriptNext
    <2>1. stack # <<>> /\ ~ThroughArchive(Top)
      BY <1>3, <1>16 DEF ScriptNext, ThroughArchive
    <2>2. PICK next, path, n : /\ next = Append(Rest, [Top EXCEPT !.i = @ + 1])
                               /\ \/ stack' = next /\ UNCHANGED data
                                  \/ tcc_add_file_internal(path, 0, next)
                                  \/ stack' = Append(next, AddDll(n, 0)) /\ UNCHANGED data
      BY <1>16 DEF ScriptNext, Below
    <2>3. CallsOK(next) /\ IsCall(AddDll(n, 0))
      BY <1>2, <2>1, <2>2, NewCalls
    <2>4. CASE stack' = next /\ UNCHANGED data
      BY <2>3, <2>4, OnlyCalls DEF data
    <2>5. CASE tcc_add_file_internal(path, 0, next)
      BY <2>3, <2>5, AddFileKeeps
    <2>6. CASE stack' = Append(next, AddDll(n, 0)) /\ UNCHANGED data
      <3>1. CallsOK(stack')
        BY <2>3, <2>6, Pushed
      <3> QED
        BY <2>6, <3>1, OnlyCalls DEF data
    <2> QED
      BY <2>2, <2>4, <2>5, <2>6
  <1>17. CASE ScriptEnds
    BY <1>3, <1>4, <1>17 DEF ScriptEnds
  <1> QED
    BY <1>5, <1>6, <1>7, <1>8, <1>9, <1>10, <1>11, <1>12, <1>13, <1>14, <1>15, <1>16, <1>17 DEF Step

\* What the user asks for, and steps of others.
LEMMA DllNext ==
  ASSUME DllInv, [Next]_vars
  PROVE  DllInv'
PROOF
  <1>1. CASE Step
    BY <1>1, DllStep
  <1>2. ASSUME NEW p, tcc_add_file(p) PROVE DllInv'
    <2>1. stack = <<>> /\ tcc_add_file_internal(p, 0, <<>>)
      BY <1>2 DEF tcc_add_file
    <2>2. CallsOK(<<>>)
      BY <2>1 DEF DllInv
    <2> QED
      BY <2>1, <2>2, AddFileKeeps
  <1>3. ASSUME NEW l, tcc_add_library(l) PROVE DllInv'
    <2>1. stack = <<>> /\ stack' = Append(<<>>, AddLibrary(l)) /\ UNCHANGED <<loaded_dlls, named>>
      BY <1>3 DEF tcc_add_library, Below, data
    <2>2. CallsOK(<<>>) /\ IsCall(AddLibrary(l))
      BY <2>1, NewCalls DEF DllInv
    <2>3. CallsOK(stack')
      BY <2>1, <2>2, Pushed
    <2> QED
      BY <2>1, <2>3, OnlyCalls
  <1>4. CASE UNCHANGED vars
    BY <1>4, OnlyCalls DEF vars, DllInv
  <1> QED
    BY <1>1, <1>2, <1>3, <1>4 DEF Next

\* tcc_load_dll (tccelf.c): whatever the scripts, the DLLs and the order of
\* what is named, no DLL is loaded twice, and a DLL is to be named in the
\* output (level 0) just when the user or a script has named it.
THEOREM DllsAreAsNamed == Spec => []NeededAsNamed
PROOF
  <1>1. Init => DllInv
    BY DllInit
  <1>2. DllInv /\ [Next]_vars => DllInv'
    BY DllNext
  <1>3. DllInv => NeededAsNamed
    BY DEF DllInv
  <1> QED
    BY <1>1, <1>2, <1>3, PTL DEF Spec

(***************************************************************************)
(* Entering symbols                                                        *)
(***************************************************************************)
\* find_elf_sym finds an entry of that name that is not local, if there is one.
LEMMA Finds ==
  ASSUME NEW tab, Sequence(tab), NEW n
  PROVE  /\ find_elf_sym(tab, n) # 0 =>
              /\ find_elf_sym(tab, n) \in 1 .. Len(tab)
              /\ tab[find_elf_sym(tab, n)].name = n
              /\ tab[find_elf_sym(tab, n)].bind # "local"
         /\ \A i \in 1 .. Len(tab) :
              tab[i].name = n /\ tab[i].bind # "local" => find_elf_sym(tab, n) # 0
         /\ find_elf_sym(tab, n) \in Nat
PROOF
  <1>1. DOMAIN tab = 1 .. Len(tab) /\ Len(tab) \in Nat
    BY DEF Sequence
  <1> DEFINE hits == {i \in DOMAIN tab : tab[i].name = n /\ tab[i].bind # "local"}
  <1>2. find_elf_sym(tab, n) = IF hits = {} THEN 0 ELSE CHOOSE i \in hits : TRUE
    BY DEF find_elf_sym
  <1>3. hits # {} => (CHOOSE i \in hits : TRUE) \in hits
    OBVIOUS
  <1> QED
    BY <1>1, <1>2, <1>3

\* A function on an interval is a sequence.
LEMMA Listed ==
  ASSUME NEW m \in Nat, NEW s, s = [i \in 1 .. m |-> s[i]]
  PROVE  Sequence(s) /\ Len(s) = m /\ DOMAIN s = 1 .. m
PROOF
  <1>1. s \in [1 .. m -> {s[i] : i \in 1 .. m}]
    OBVIOUS
  <1>2. s \in Seq({s[i] : i \in 1 .. m}) /\ Len(s) = m /\ DOMAIN s = 1 .. m
    BY <1>1
  <1> QED
    BY <1>2, OwnElements

\* What add_elf_sym makes of a table: entries stay, or one that others see is
\* patched by a symbol of its name; each symbol gets an entry of its name, its
\* own if it is local.
Entered(tab, syms, these, T, map) ==
  /\ Sequence(T) /\ Len(tab) <= Len(T)
  /\ \A i \in 1 .. Len(tab) :
       \/ T[i] = tab[i]
       \/ /\ tab[i].bind # "local"
          /\ \E k \in these : /\ syms[k].name = tab[i].name
                              /\ syms[k].bind # "local"
                              /\ T[i] = syms[k]
  /\ \A i \in 1 .. Len(T) : i > Len(tab) => \E k \in these : T[i] = syms[k]
  /\ DOMAIN map = these
  /\ \A k \in these : /\ map[k] \in 1 .. Len(T)
                      /\ T[map[k]].name = syms[k].name
                      /\ T[map[k]].bind = "local" => T[map[k]] = syms[k]
                      /\ syms[k].bind # "local" => T[map[k]].bind # "local"

LEMMA Entering ==
  ASSUME NEW tab, Sequence(tab), NEW m \in Nat, NEW syms, NEW these \in SUBSET (1 .. m),
         NEW res, res = add_elf_syms(tab, syms, these)
  PROVE  Entered(tab, syms, these, res.tab, res.map)
PROOF
  <1> DEFINE At(k) == IF syms[k].bind = "local" THEN 0 ELSE find_elf_sym(tab, syms[k].name)
             New == {k \in these : At(k) = 0}
             Number(k) == IF At(k) # 0 THEN At(k) ELSE Len(tab) + RankIn(New, k)
             Patches(i) == {k \in these : At(k) = i /\ GivesWay(tab[i], syms[k])}
             n == Len(tab) + Cardinality(New)
             NewSym(i) == syms[CHOOSE k \in New : Number(k) = i]
             Patch(i) == syms[CHOOSE k \in Patches(i) : TRUE]
             T == [i \in 1 .. n |-> IF i > Len(tab) THEN NewSym(i)
                                    ELSE IF Patches(i) # {} THEN Patch(i) ELSE tab[i]]
             map == [k \in these |-> Number(k)]
  <1>1. res = [tab |-> T, map |-> map]
    BY DEF add_elf_syms, RankIn
  <1>2. Len(tab) \in Nat /\ DOMAIN tab = 1 .. Len(tab)
    BY DEF Sequence
  <1>3. New \in SUBSET (1 .. m)
    OBVIOUS
  <1>4. \A k \in these : At(k) # 0 =>
          /\ At(k) \in 1 .. Len(tab)
          /\ tab[At(k)].name = syms[k].name
          /\ tab[At(k)].bind # "local"
          /\ syms[k].bind # "local"
    BY Finds
  <1>5. \A k \in these : k \in New <=> At(k) = 0
    OBVIOUS
  <1>6. \A i : \A k \in Patches(i) : k \in these /\ At(k) = i
    OBVIOUS
  <1>7. \A i : Patches(i) # {} => \E k \in Patches(i) : Patch(i) = syms[k]
    OBVIOUS
  <1>8. \A k \in these : Number(k) = IF At(k) # 0 THEN At(k) ELSE Len(tab) + RankIn(New, k)
    OBVIOUS
  <1>9. \A i : (\E k \in New : Number(k) = i) =>
                 \E k \in New : Number(k) = i /\ NewSym(i) = syms[k]
    OBVIOUS
  <1>10. New \in SUBSET these
    OBVIOUS
  <1> HIDE DEF At, New, Patches, Number, Patch, NewSym
  <1>11. /\ Cardinality(New) \in Nat
         /\ \A k \in New : RankIn(New, k) \in 1 .. Cardinality(New)
         /\ \A k, l \in New : RankIn(New, k) = RankIn(New, l) => k = l
         /\ \A r \in 1 .. Cardinality(New) : \E k \in New : RankIn(New, k) = r
    BY <1>3, Ranks
  <1>12. n \in Nat /\ Len(tab) <= n
    BY <1>2, <1>11
  <1>13. /\ \A i \in 1 .. n : T[i] = IF i > Len(tab) THEN NewSym(i)
                                     ELSE IF Patches(i) # {} THEN Patch(i) ELSE tab[i]
         /\ T = [i \in 1 .. n |-> T[i]]
         /\ DOMAIN map = these /\ \A k \in these : map[k] = Number(k)
    OBVIOUS
  <1> HIDE DEF T, map
  <1>14. Sequence(T) /\ Len(T) = n
    BY <1>12, <1>13, Listed
  <1>15. ASSUME NEW i \in 1 .. Len(tab)
         PROVE  \/ T[i] = tab[i]
                \/ /\ tab[i].bind # "local"
                   /\ \E k \in these : /\ syms[k].name = tab[i].name
                                       /\ syms[k].bind # "local"
                                       /\ T[i] = syms[k]
    <2>1. i \in 1 .. n /\ ~ (i > Len(tab)) /\ i # 0
      BY <1>2, <1>12
    <2>2. CASE Patches(i) # {}
      <3>1. PICK k \in Patches(i) : Patch(i) = syms[k]
        BY <1>7, <2>2
      <3>2. k \in these /\ At(k) = i
        BY <1>6, <3>1
      <3> QED
        BY <1>4, <1>13, <2>1, <2>2, <3>1, <3>2
    <2>3. CASE Patches(i) = {}
      BY <1>13, <2>1, <2>3
    <2> QED
      BY <2>2, <2>3
  <1>16. \A k \in New : Number(k) \in 1 .. n /\ Number(k) > Len(tab) /\ Number(k) = Len(tab) + RankIn(New, k)
    BY <1>2, <1>5, <1>8, <1>10, <1>11
  <1>17. \A k, l \in New : Number(k) = Number(l) => k = l
    <2> TAKE k, l \in New
    <2>1. PICK a, b : a = RankIn(New, k) /\ b = RankIn(New, l)
      OBVIOUS
    <2>2. a \in Nat /\ b \in Nat /\ (Number(k) = Number(l) => Len(tab) + a = Len(tab) + b)
      BY <1>11, <1>16, <2>1
    <2>3. Number(k) = Number(l) => a = b
      BY <1>2, <2>2
    <2> QED
      BY <1>11, <2>1, <2>3
  <1>18. \A k \in New : T[Number(k)] = syms[k]
    <2> TAKE k \in New
    <2>1. T[Number(k)] = NewSym(Number(k))
      BY <1>13, <1>16
    <2>2. PICK l \in New : Number(l) = Number(k) /\ NewSym(Number(k)) = syms[l]
      BY <1>9
    <2> QED
      BY <1>17, <2>1, <2>2
  <1>19. ASSUME NEW i \in 1 .. n, i > Len(tab) PROVE \E k \in these : T[i] = syms[k]
    <2>1. i - Len(tab) \in 1 .. Cardinality(New)
      BY <1>2, <1>11, <1>19
    <2>2. PICK k \in New : RankIn(New, k) = i - Len(tab)
      BY <1>11, <2>1
    <2>3. Number(k) = i
      BY <1>2, <1>16, <2>2
    <2> QED
      BY <1>10, <1>18, <2>3
  <1>20. ASSUME NEW k \in these
         PROVE  /\ map[k] \in 1 .. Len(T)
                /\ T[map[k]].name = syms[k].name
                /\ T[map[k]].bind = "local" => T[map[k]] = syms[k]
                /\ syms[k].bind # "local" => T[map[k]].bind # "local"
    <2>1. CASE At(k) = 0
      <3>1. k \in New
        BY <1>5, <2>1
      <3> QED
        BY <1>13, <1>14, <1>16, <1>18, <3>1, ZenonT(60)
    <2>2. CASE At(k) # 0
      <3>1. /\ map[k] = At(k)
            /\ map[k] \in 1 .. Len(tab)
            /\ tab[map[k]].name = syms[k].name
            /\ tab[map[k]].bind # "local"
        BY <1>4, <1>8, <1>13, <2>2
      <3>2. T[map[k]].name = syms[k].name /\ T[map[k]].bind # "local"
        BY <1>15, <3>1
      <3> QED
        BY <1>2, <1>12, <1>14, <3>1, <3>2
    <2> QED
      BY <2>1, <2>2
  <1>21. res.tab = T /\ res.map = map
    BY <1>1
  <1>22. Sequence(T) /\ Len(tab) <= Len(T) /\ DOMAIN map = these
    BY <1>12, <1>13, <1>14
  <1>23. \A i \in 1 .. Len(T) : i > Len(tab) => \E k \in these : T[i] = syms[k]
    BY <1>14, <1>19
  <1>24. Entered(tab, syms, these, T, map)
    BY <1>15, <1>20, <1>22, <1>23 DEF Entered
  <1> QED
    BY <1>21, <1>24

(***************************************************************************)
(* What is in memory: sections S, symbols T, n objects                     *)
(***************************************************************************)
IsSection(s) ==
  /\ s = [name |-> s.name, type |-> s.type, align |-> s.align, data |-> s.data,
          info |-> s.info, reloc |-> s.reloc]
  /\ Sequence(s.data)

SecsOK(S) ==
  /\ Sequence(S) /\ Len(S) >= 1 /\ S[1].name = ".text"
  /\ \A j \in 1 .. Len(S) : IsSection(S[j])
  /\ \A i, j \in 1 .. Len(S) : S[i].name = S[j].name => i = j
  /\ \A j \in 1 .. Len(S) : S[j].type = "rel" <=> IsRelName(S[j].name)

\* A relocation section and the one it relocates lead to each other.
TiesOK(S) ==
  \A j \in 1 .. Len(S) :
    /\ S[j].type = "rel" => /\ S[j].info \in 1 .. Len(S)
                            /\ S[S[j].info].type # "rel"
                            /\ S[S[j].info].reloc = j
                            /\ <<S[j].name, S[S[j].info].name>> \in NamePairs
    /\ S[j].reloc # 0 => /\ S[j].reloc \in 1 .. Len(S)
                         /\ S[S[j].reloc].type = "rel"
                         /\ S[S[j].reloc].info = j

EntryOK(target, T, n, e) ==
  /\ e.offset \in Nat /\ e.offset < Len(target.data)
  /\ target.data[e.offset + 1] = e.site
  /\ e.from \in 1 .. n
  /\ e.sym \in 1 .. Len(T)
  /\ T[e.sym].name = e.name
  /\ T[e.sym].bind = "local" => T[e.sym].from = e.from

EntriesOK(S, T, n) ==
  \A j \in 1 .. Len(S) : S[j].type = "rel" =>
    \A k \in 1 .. Len(S[j].data) : EntryOK(S[S[j].info], T, n, S[j].data[k])

SymOK(S, s) ==
  s.sec # 0 => /\ s.sec \in 1 .. Len(S)
               /\ S[s.sec].type # "rel"
               /\ s.value \in Nat
               /\ s.value < Len(S[s.sec].data)
               /\ S[s.sec].data[s.value + 1][1] = s.from
SymsOK(S, T) == Sequence(T) /\ \A i \in 1 .. Len(T) : SymOK(S, T[i])

\* What a link-once section in memory defines is in the table.
OnceOK(S, T) ==
  \A o \in ObjectFiles : \A i \in DOMAIN o.sections :
    o.sections[i].once /\ FindSection(S, o.sections[i].name) # 0 =>
      \A a \in Globals(o, i) : find_elf_sym(T, a) # 0

Image(S, T, n) ==
  SecsOK(S) /\ TiesOK(S) /\ EntriesOK(S, T, n) /\ SymsOK(S, T) /\ OnceOK(S, T)

(***************************************************************************)
(* Contents                                                                *)
(***************************************************************************)
LEMMA AlignsUp ==
  ASSUME NEW x \in Nat, NEW a \in Nat \ {0}
  PROVE  AlignUp(x, a) \in Nat /\ x <= AlignUp(x, a)
PROOF
  <1>1. PICK q, r : q = (x + a - 1) \div a /\ r = (x + a - 1) % a
    OBVIOUS
  <1>2. x + a - 1 \in Nat
    OBVIOUS
  <1>3. PICK y : y = x + a - 1
    OBVIOUS
  <1>4. y \in Nat
    BY <1>2, <1>3, Zenon
  <1>5. q = y \div a /\ r = y % a
    BY <1>1, <1>3, Zenon
  <1>6. q \in Nat /\ r \in 0 .. a - 1 /\ y = q * a + r
    BY <1>4, <1>5
  <1>7. q * a \in Nat
    BY <1>6
  <1>8. PICK z : z = q * a
    OBVIOUS
  <1>9. z \in Nat /\ y = z + r
    BY <1>6, <1>7, <1>8, Zenon
  <1>10. x <= z
    BY <1>3, <1>6, <1>9
  <1>11. AlignUp(x, a) = z
    BY <1>1, <1>8, Zenon DEF AlignUp
  <1> QED
    BY <1>9, <1>10, <1>11

\* One sequence behind another.
LEMMA Behind ==
  ASSUME NEW s, Sequence(s), NEW t, Sequence(t)
  PROVE  /\ Sequence(s \o t)
         /\ Len(s) \in Nat /\ Len(t) \in Nat
         /\ Len(s \o t) = Len(s) + Len(t)
         /\ \A k \in 1 .. Len(s) : (s \o t)[k] = s[k]
         /\ \A k \in 1 .. Len(t) : (s \o t)[Len(s) + k] = t[k]
PROOF
  <1> DEFINE S == ToSet(s) \cup ToSet(t)
  <1>1. s \in Seq(ToSet(s)) /\ t \in Seq(ToSet(t))
    BY DEF Sequence
  <1>2. s \in Seq(S) /\ t \in Seq(S)
    BY <1>1
  <1> HIDE DEF S
  <1>3. s \o t \in Seq(S)
    BY <1>2
  <1>4. Sequence(s \o t)
    BY <1>3, OwnElements
  <1> QED
    BY <1>2, <1>4

\* What an object appends to a section, behind what aligns it.
IsPadded(r, d, g, new) ==
  /\ Sequence(r)
  /\ Len(r) = Len(d) + g + Len(new)
  /\ \A k \in 1 .. Len(d) : r[k] = d[k]
  /\ \A k \in 1 .. Len(new) : r[Len(d) + g + k] = new[k]

LEMMA Padded ==
  ASSUME NEW d, NEW g \in Nat, NEW new, NEW r, Sequence(d), Sequence(new), r = d \o Pad(g) \o new
  PROVE  IsPadded(r, d, g, new)
PROOF
  <1>1. Sequence(Pad(g)) /\ Len(Pad(g)) = g
    <2>1. Pad(g) = [i \in 1 .. g |-> Pad(g)[i]]
      BY DEF Pad
    <2> QED
      BY <2>1, Listed
  <1>2. PICK p : p = d \o Pad(g)
    OBVIOUS
  <1>3. /\ Sequence(p) /\ Len(d) \in Nat /\ Len(p) = Len(d) + g
        /\ \A k \in 1 .. Len(d) : p[k] = d[k]
    BY <1>1, <1>2, Behind
  <1>4. /\ Sequence(p \o new) /\ Len(new) \in Nat /\ Len(p \o new) = Len(p) + Len(new)
        /\ \A k \in 1 .. Len(p) : (p \o new)[k] = p[k]
        /\ \A k \in 1 .. Len(new) : (p \o new)[Len(p) + k] = new[k]
    <2>1. Sequence(p)
      BY <1>3
    <2> QED
      BY <2>1, Behind DEF Sequence
  <1>5. \A k \in 1 .. Len(d) : (p \o new)[k] = d[k]
    BY <1>3, <1>4
  <1>6. \A k \in 1 .. Len(new) : (p \o new)[Len(d) + g + k] = new[k]
    BY <1>3, <1>4
  <1>7. Len(p \o new) = Len(d) + g + Len(new)
    BY <1>3, <1>4
  <1>8. r = p \o new
    BY <1>2
  <1> QED
    BY <1>4, <1>5, <1>6, <1>7, <1>8 DEF IsPadded

\* FindSection finds the section of that name, if there is one.
LEMMA FindsSection ==
  ASSUME NEW S, SecsOK(S), NEW a
  PROVE  /\ FindSection(S, a) # 0 => /\ FindSection(S, a) \in 1 .. Len(S)
                                     /\ S[FindSection(S, a)].name = a
         /\ \A j \in 1 .. Len(S) : S[j].name = a => FindSection(S, a) = j
PROOF
  <1>1. DOMAIN S = 1 .. Len(S) /\ Len(S) \in Nat
    BY DEF SecsOK, Sequence
  <1>2. \A i, j \in 1 .. Len(S) : S[i].name = S[j].name => i = j
    BY DEF SecsOK
  <1> DEFINE hits == {j \in DOMAIN S : S[j].name = a}
             first == CHOOSE j \in hits : \A k \in hits : j <= k
  <1>3. FindSection(S, a) = IF hits = {} THEN 0 ELSE first
    BY DEF FindSection
  <1>4. ASSUME NEW j \in 1 .. Len(S), S[j].name = a PROVE hits = {j}
    BY <1>1, <1>2, <1>4
  <1>5. ASSUME NEW j \in 1 .. Len(S), hits = {j} PROVE first = j
    <2>1. j \in hits /\ \A k \in hits : j <= k
      BY <1>5
    <2>2. first \in hits
      BY <2>1
    <2> QED
      BY <1>5, <2>2
  <1>6. hits # {} => \E j \in 1 .. Len(S) : S[j].name = a
    BY <1>1
  <1> HIDE DEF hits, first
  <1>7. \A j \in 1 .. Len(S) : S[j].name = a => FindSection(S, a) = j
    <2> TAKE j \in 1 .. Len(S)
    <2> HAVE S[j].name = a
    <2>1. hits = {j}
      BY <1>4
    <2> QED
      BY <1>3, <1>5, <2>1
  <1>8. FindSection(S, a) # 0 => \E j \in 1 .. Len(S) : S[j].name = a
    BY <1>3, <1>6
  <1> QED
    BY <1>7, <1>8

(***************************************************************************)
(* Where the sections of an object go                                      *)
(***************************************************************************)
\* Sections of a name that is in memory go there, the others behind all: each
\* to a place of its own; only link-once ones that are there already do not.
Placed(o, found, merged, fresh, sm) ==
  /\ Cardinality(fresh) \in Nat /\ Len(sections) \in Nat
  /\ DOMAIN sm = DOMAIN o.sections
  /\ merged \in SUBSET Handled(o) /\ fresh \in SUBSET merged
  /\ \A i \in DOMAIN o.sections :
       /\ found[i] = FindSection(sections, o.sections[i].name)
       /\ i \notin merged => /\ sm[i].s = 0
                             /\ i \in Handled(o) => sm[i].link_once
       /\ sm[i].link_once => IsLinkOnce(found, o, i) /\ i \notin merged
  /\ \A i \in merged :
       /\ sm[i].s \in 1 .. Len(sections) + Cardinality(fresh)
       /\ sm[i].offset = End(Len(Contents(found[i])), o.sections[i])
       /\ ~IsLinkOnce(found, o, i)
       /\ i \notin fresh => /\ sm[i].s = found[i] /\ sm[i].s <= Len(sections)
                            /\ sections[sm[i].s].name = o.sections[i].name
  /\ \A i \in fresh : found[i] = 0 /\ sm[i].s > Len(sections)
  /\ \A i, k \in merged : sm[i].s = sm[k].s => i = k
  /\ \A j \in 1 .. Len(sections) + Cardinality(fresh) :
       j > Len(sections) => \E i \in fresh : sm[i].s = j

LEMMA Places ==
  ASSUME SecsOK(sections), NEW o, ObjectOK(o),
         NEW found, found = Found(o), NEW merged, merged = Merged(found, {}, o),
         NEW fresh, fresh = Fresh(found, merged), NEW sm, sm = SectionMerge(found, merged, o)
  PROVE  Placed(o, found, merged, fresh, sm)
PROOF
  <1>1. DOMAIN sections = 1 .. Len(sections) /\ Len(sections) \in Nat
    BY DEF SecsOK, Sequence
  <1>2. DOMAIN o.sections = 1 .. Len(o.sections) /\ Len(o.sections) \in Nat
    BY DEF ObjectOK, Sequence
  <1>3. merged = {i \in Handled(o) : ~IsLinkOnce(found, o, i)}
    BY DEF Merged
  <1>4. /\ merged \in SUBSET DOMAIN o.sections
        /\ fresh \in SUBSET merged
        /\ \A i \in merged : i \in fresh <=> found[i] = 0
    BY <1>3 DEF Handled, Fresh
  <1>5. \A i \in DOMAIN o.sections : found[i] = FindSection(sections, o.sections[i].name)
    BY DEF Found
  <1>6. fresh \in SUBSET (1 .. Len(o.sections))
    BY <1>2, <1>4
  <1>7. /\ Cardinality(fresh) \in Nat
        /\ \A k \in fresh : RankIn(fresh, k) \in 1 .. Cardinality(fresh)
        /\ \A k, l \in fresh : RankIn(fresh, k) = RankIn(fresh, l) => k = l
        /\ \A r \in 1 .. Cardinality(fresh) : \E k \in fresh : RankIn(fresh, k) = r
    <2>1. PICK m \in Nat : m = Len(o.sections)
      BY <1>2
    <2>2. PICK N : N = fresh
      OBVIOUS
    <2>3. N \in SUBSET (1 .. m)
      BY <1>6, <2>1, <2>2
    <2>4. /\ Cardinality(N) \in Nat
          /\ \A k \in N : RankIn(N, k) \in 1 .. Cardinality(N)
          /\ \A k, l \in N : RankIn(N, k) = RankIn(N, l) => k = l
          /\ \A r \in 1 .. Cardinality(N) : \E k \in N : RankIn(N, k) = r
      BY ONLY m \in Nat, <2>3, Ranks
    <2> QED
      BY <2>2, <2>4
  <1>8. /\ DOMAIN sm = DOMAIN o.sections
        /\ \A i \in DOMAIN o.sections :
             /\ i \in merged =>
                  sm[i] = [s |-> IF found[i] # 0 THEN found[i]
                                 ELSE Len(sections) + RankIn(fresh, i),
                           offset |-> End(Len(Contents(found[i])), o.sections[i]),
                           link_once |-> FALSE]
             /\ i \notin merged =>
                  sm[i] = [s |-> 0, offset |-> 0,
                           link_once |-> i \in Handled(o) /\ IsLinkOnce(found, o, i)]
    BY DEF SectionMerge, RankIn
  <1>9. ASSUME NEW i \in DOMAIN o.sections
        PROVE  /\ i \notin merged => /\ sm[i].s = 0
                                     /\ i \in Handled(o) => sm[i].link_once
               /\ sm[i].link_once => IsLinkOnce(found, o, i) /\ i \notin merged
    <2>1. PICK once : once = (i \in Handled(o) /\ IsLinkOnce(found, o, i))
      OBVIOUS
    <2>2. ASSUME i \notin merged PROVE sm[i].s = 0 /\ sm[i].link_once = once
      <3>1. sm[i] = [s |-> 0, offset |-> 0, link_once |-> once]
        BY <1>8, <2>1, <2>2
      <3> QED
        BY <3>1
    <2>3. ASSUME i \in merged PROVE ~sm[i].link_once
      <3>1. PICK x, y : sm[i] = [s |-> x, offset |-> y, link_once |-> FALSE]
        BY <1>8, <2>3
      <3> QED
        BY <3>1
    <2>4. i \in Handled(o) /\ i \notin merged => once
      BY <1>3, <2>1
    <2> QED
      BY <2>1, <2>2, <2>3, <2>4
  <1>10. ASSUME NEW i \in merged
         PROVE  /\ sm[i].offset = End(Len(Contents(found[i])), o.sections[i])
                /\ ~sm[i].link_once
                /\ sm[i].s = IF found[i] # 0 THEN found[i] ELSE Len(sections) + RankIn(fresh, i)
    <2>1. i \in DOMAIN o.sections
      BY <1>4
    <2>2. PICK s, f : /\ s = IF found[i] # 0 THEN found[i] ELSE Len(sections) + RankIn(fresh, i)
                      /\ f = End(Len(Contents(found[i])), o.sections[i])
      OBVIOUS
    <2>3. sm[i] = [s |-> s, offset |-> f, link_once |-> FALSE]
      BY <1>8, <2>1, <2>2
    <2> QED
      BY <2>2, <2>3
  <1>11. ASSUME NEW i \in merged, i \notin fresh
         PROVE  sm[i].s = found[i] /\ sm[i].s \in 1 .. Len(sections)
                /\ sections[sm[i].s].name = o.sections[i].name
    <2>1. found[i] # 0 /\ i \in DOMAIN o.sections
      BY <1>4, <1>11
    <2> QED
      BY <1>5, <1>10, <2>1, FindsSection
  <1>12. ASSUME NEW i \in fresh
         PROVE  /\ sm[i].s = Len(sections) + RankIn(fresh, i)
                /\ sm[i].s \in 1 .. Len(sections) + Cardinality(fresh)
                /\ sm[i].s > Len(sections)
    <2>1. i \in merged /\ found[i] = 0
      BY <1>4
    <2> QED
      BY <1>1, <1>7, <1>10, <2>1
  <1>13. \A i \in merged : sm[i].s \in 1 .. Len(sections) + Cardinality(fresh)
    <2> TAKE i \in merged
    <2>1. CASE i \in fresh
      BY <1>12, <2>1
    <2>2. CASE i \notin fresh
      BY <1>1, <1>7, <1>11, <2>2
    <2> QED
      BY <2>1, <2>2
  <1>14. ASSUME NEW i \in merged, NEW k \in merged, sm[i].s = sm[k].s PROVE i = k
    <2>1. CASE i \in fresh /\ k \in fresh
      <3>1. PICK a, b : a = RankIn(fresh, i) /\ b = RankIn(fresh, k)
        OBVIOUS
      <3>2. a \in Nat /\ b \in Nat /\ Len(sections) + a = Len(sections) + b
        BY <1>7, <1>12, <1>14, <2>1, <3>1
      <3>3. a = b
        BY <1>1, <3>2
      <3> QED
        BY <1>7, <2>1, <3>1, <3>3
    <2>2. CASE i \in fresh <=> k \notin fresh
      BY <1>1, <1>11, <1>12, <1>14, <2>2
    <2>3. CASE i \notin fresh /\ k \notin fresh
      <3>1. o.sections[i].name = o.sections[k].name
        BY <1>11, <1>14, <2>3
      <3> QED
        BY <1>4, <3>1 DEF ObjectOK
    <2> QED
      BY <2>1, <2>2, <2>3
  <1>15. ASSUME NEW j \in 1 .. Len(sections) + Cardinality(fresh), j > Len(sections)
         PROVE  \E i \in fresh : sm[i].s = j
    <2>1. j - Len(sections) \in 1 .. Cardinality(fresh)
      BY <1>1, <1>7, <1>15
    <2>2. PICK i \in fresh : RankIn(fresh, i) = j - Len(sections)
      BY <1>7, <2>1
    <2>3. sm[i].s = j
      BY <1>1, <1>12, <2>2
    <2> QED
      BY <2>3
  <1>16. merged \in SUBSET Handled(o) /\ \A i \in merged : ~IsLinkOnce(found, o, i)
    BY <1>3
  <1>17. \A i \in merged : i \notin fresh => /\ sm[i].s = found[i] /\ sm[i].s <= Len(sections)
                                              /\ sections[sm[i].s].name = o.sections[i].name
    BY <1>1, <1>11
  <1> QED
    BY <1>1, <1>4, <1>5, <1>7, <1>8, <1>9, <1>10, <1>12, <1>13, <1>14, <1>15, <1>16, <1>17 DEF Placed

(***************************************************************************)
(* The first two passes                                                    *)
(***************************************************************************)
OneOf(S, default) == IF S = {} THEN default ELSE CHOOSE x \in S : TRUE

\* What the ith section of an object brings.
Brought(id, o, i) ==
  IF o.sections[i].type = "rel" THEN Entries(id, o, i) ELSE Cells(id, i, o.sections[i].size)

LEMMA Brings ==
  ASSUME NEW id, NEW o, ObjectOK(o), NEW i \in DOMAIN o.sections
  PROVE  /\ Sequence(Brought(id, o, i))
         /\ o.sections[i].type = "rel" =>
              /\ Len(Brought(id, o, i)) = Len(o.sections[i].rels)
              /\ DOMAIN o.sections[i].rels = 1 .. Len(o.sections[i].rels)
         /\ o.sections[i].type # "rel" => Len(Brought(id, o, i)) = o.sections[i].size
PROOF
  <1>1. PICK sh : sh = o.sections[i]
    OBVIOUS
  <1>2. sh.size \in Nat /\ Sequence(sh.rels)
    BY <1>1 DEF ObjectOK, SectionOK
  <1>3. DOMAIN sh.rels = 1 .. Len(sh.rels) /\ Len(sh.rels) \in Nat
    BY <1>2 DEF Sequence
  <1>4. CASE sh.type = "rel"
    <2>1. Brought(id, o, i) = [k \in 1 .. Len(sh.rels) |-> Brought(id, o, i)[k]]
      BY <1>1, <1>3, <1>4 DEF Brought, Entries
    <2> QED
      BY <1>1, <1>3, <1>4, <2>1, Listed
  <1>5. CASE sh.type # "rel"
    <2>1. Brought(id, o, i) = [k \in 1 .. sh.size |-> Brought(id, o, i)[k]]
      BY <1>1, <1>5 DEF Brought, Cells
    <2> QED
      BY <1>1, <1>2, <1>5, <2>1, Listed
  <1> QED
    BY <1>4, <1>5

\* Section j before anything is joined to it.
Fore(fresh, sm, o, j) ==
  IF j <= Len(sections) THEN sections[j]
  ELSE LET sh == o.sections[CHOOSE i \in fresh : sm[i].s = j]
       IN  [new_section(sh.name, sh.type) EXCEPT !.align = sh.align]

\* Section s after what is joined to it.
JoinedAs(s, sm, id, o, i) ==
  [s EXCEPT !.align = IF o.sections[i].align > @ THEN o.sections[i].align ELSE @,
            !.data = @ \o Pad(sm[i].offset - Len(@)) \o Brought(id, o, i)]

TiedAs(s, I, R) == [s EXCEPT !.info = OneOf(I, @), !.reloc = OneOf(R, @)]

\* What tied and the sections it has become are.
Sources(sm, j) == {i \in DOMAIN sm : sm[i].s = j}
InfoOf(sm, tied, o, j) == {sm[o.sections[i].info].s : i \in {k \in tied : sm[k].s = j}}
RelocOf(sm, tied, o, j) == {sm[i].s : i \in {k \in tied : sm[o.sections[k].info].s = j}}

LEMMA MergedFrom ==
  ASSUME NEW sm, NEW fresh, NEW tied, NEW id, NEW o
  PROVE  MergedSections(sm, fresh, tied, id, o) =
           [j \in 1 .. Len(sections) + Cardinality(fresh) |->
              TiedAs(IF Sources(sm, j) = {} THEN Fore(fresh, sm, o, j)
                     ELSE JoinedAs(Fore(fresh, sm, o, j), sm, id, o,
                                   CHOOSE i \in Sources(sm, j) : TRUE),
                     InfoOf(sm, tied, o, j), RelocOf(sm, tied, o, j))]
PROOF
  BY Zenon DEF MergedSections, TiedAs, JoinedAs, Joined, Brought, Fore, Sources, InfoOf, RelocOf, OneOf

LEMMA OneOfs ==
  ASSUME NEW S, NEW d
  PROVE  /\ S = {} => OneOf(S, d) = d
         /\ \A x \in S : (\A y \in S : y = x) => OneOf(S, d) = x
PROOF
  BY DEF OneOf

\* Tying leaves all but the two numbers alone.
LEMMA Ties ==
  ASSUME NEW s, IsSection(s), NEW I, NEW R, NEW t, t = TiedAs(s, I, R)
  PROVE  /\ IsSection(t)
         /\ t.name = s.name /\ t.type = s.type /\ t.data = s.data
         /\ t.info = OneOf(I, s.info) /\ t.reloc = OneOf(R, s.reloc)
PROOF
  <1>1. PICK n, y, a, d, i, r :
          /\ s = [name |-> n, type |-> y, align |-> a, data |-> d, info |-> i, reloc |-> r]
          /\ Sequence(d)
    BY DEF IsSection
  <1>2. PICK x, z : x = OneOf(I, i) /\ z = OneOf(R, r)
    OBVIOUS
  <1>3. t = [name |-> n, type |-> y, align |-> a, data |-> d, info |-> x, reloc |-> z]
    BY <1>1, <1>2 DEF TiedAs
  <1> QED
    BY <1>1, <1>2, <1>3 DEF IsSection

\* Joining leaves all but the alignment and the contents alone.
IsJoined(t, s, sm, id, o, i) ==
  /\ IsSection(t)
  /\ t.name = s.name /\ t.type = s.type /\ t.info = s.info /\ t.reloc = s.reloc
  /\ t.data = s.data \o Pad(sm[i].offset - Len(s.data)) \o Brought(id, o, i)

LEMMA Joins ==
  ASSUME NEW s, NEW sm, NEW id, NEW o, NEW i, NEW t, t = JoinedAs(s, sm, id, o, i),
         IsSection(s), ObjectOK(o), i \in DOMAIN o.sections, sm[i].offset - Len(s.data) \in Nat
  PROVE  IsJoined(t, s, sm, id, o, i)
PROOF
  <1>1. PICK n, y, a, d, f, r :
          /\ s = [name |-> n, type |-> y, align |-> a, data |-> d, info |-> f, reloc |-> r]
          /\ Sequence(d)
    BY DEF IsSection
  <1>2. PICK x, z, g : /\ x = IF o.sections[i].align > a THEN o.sections[i].align ELSE a
                       /\ g = sm[i].offset - Len(d)
                       /\ z = d \o Pad(g) \o Brought(id, o, i)
    OBVIOUS
  <1>3. t = [name |-> n, type |-> y, align |-> x, data |-> z, info |-> f, reloc |-> r]
    BY <1>1, <1>2 DEF JoinedAs
  <1>4. s.data = d
    BY <1>1
  <1>5. g \in Nat
    BY <1>2, <1>4
  <1>6. Sequence(z)
    <2>1. Sequence(Brought(id, o, i))
      BY Brings
    <2>2. IsPadded(z, d, g, Brought(id, o, i))
      BY <1>1, <1>2, <1>5, <2>1, Padded
    <2> QED
      BY <2>2 DEF IsPadded
  <1>7. z = s.data \o Pad(sm[i].offset - Len(s.data)) \o Brought(id, o, i)
    BY <1>2, <1>4, Zenon
  <1>8. t.data = z /\ IsSection(t)
    BY <1>3, <1>6 DEF IsSection
  <1>9. t.name = s.name /\ t.type = s.type /\ t.info = s.info /\ t.reloc = s.reloc
    BY <1>1, <1>3
  <1> QED
    BY <1>7, <1>8, <1>9, Zenon DEF IsJoined

\* Section j in memory after the first two passes: it is what it was or what the
\* object called for, with what was joined to it behind it, and tied if it is a
\* new relocation section or what one relocates.
Grown(M, o, found, merged, fresh, sm, rel, id) ==
  /\ Sequence(M) /\ Len(M) = Len(sections) + Cardinality(fresh)
  /\ \A j \in 1 .. Len(M) : IsSection(M[j])
  /\ \A j \in 1 .. Len(sections) : M[j].name = sections[j].name /\ M[j].type = sections[j].type
  /\ \A i \in fresh : /\ M[sm[i].s].name = o.sections[i].name
                       /\ M[sm[i].s].type = o.sections[i].type
  /\ \A j \in 1 .. Len(M) :
       /\ (\A i \in merged : sm[i].s # j) => M[j].data = sections[j].data
       /\ (\A i \in rel : sm[i].s # j) /\ j <= Len(sections) => M[j].info = sections[j].info
       /\ (\A i \in rel : sm[o.sections[i].info].s # j) =>
            M[j].reloc = IF j <= Len(sections) THEN sections[j].reloc ELSE 0
  /\ \A i \in merged :
       M[sm[i].s].data = Contents(found[i]) \o Pad(sm[i].offset - Len(Contents(found[i])))
                                            \o Brought(id, o, i)
  /\ \A i \in rel : /\ M[sm[i].s].info = sm[o.sections[i].info].s
                    /\ sm[o.sections[i].info].s \in 1 .. Len(M)
                    /\ M[sm[o.sections[i].info].s].reloc = sm[i].s

\* The ith section of the object is joined behind what was there.
LEMMA GoesBehind ==
  ASSUME SecsOK(sections), NEW o, ObjectOK(o), NEW found, NEW merged, NEW fresh, NEW sm,
         Placed(o, found, merged, fresh, sm), NEW i \in merged
  PROVE  /\ Sequence(Contents(found[i]))
         /\ sm[i].offset - Len(Contents(found[i])) \in Nat
         /\ sm[i].offset \in Nat
         /\ Len(Contents(found[i])) \in Nat
         /\ o.sections[i].type = "rel" => sm[i].offset = Len(Contents(found[i]))
         /\ i \notin fresh => Contents(found[i]) = sections[sm[i].s].data
         /\ i \in fresh => Contents(found[i]) = <<>>
PROOF
  <1>1. i \in DOMAIN o.sections /\ sm[i].offset = End(Len(Contents(found[i])), o.sections[i])
    BY DEF Placed, Handled
  <1>2. i \in fresh => Contents(found[i]) = <<>>
    BY DEF Placed, Contents
  <1>3. i \notin fresh => /\ Contents(found[i]) = sections[sm[i].s].data
                          /\ sm[i].s \in 1 .. Len(sections)
    BY DEF Placed, Contents
  <1>4. Sequence(<<>>)
    BY DEF Sequence
  <1>5. Sequence(Contents(found[i]))
    BY <1>2, <1>3, <1>4 DEF SecsOK, IsSection
  <1>6. PICK len : len = Len(Contents(found[i]))
    OBVIOUS
  <1>7. len \in Nat
    BY <1>5, <1>6 DEF Sequence
  <1>8. PICK sh : sh = o.sections[i]
    OBVIOUS
  <1>9. sh.align \in Nat \ {0}
    BY <1>1, <1>8 DEF ObjectOK, SectionOK
  <1>10. AlignUp(len, sh.align) \in Nat /\ len <= AlignUp(len, sh.align)
    BY <1>7, <1>9, AlignsUp
  <1>11. sm[i].offset = IF sh.type = "rel" THEN len ELSE AlignUp(len, sh.align)
    BY <1>1, <1>6, <1>8 DEF End
  <1>12. sm[i].offset - len \in Nat
    BY <1>7, <1>10, <1>11
  <1>13. sm[i].offset \in Nat
    BY <1>7, <1>10, <1>11
  <1> QED
    BY <1>2, <1>3, <1>5, <1>6, <1>7, <1>8, <1>11, <1>12, <1>13

\* A relocation section of an object and the one it relocates.
LEMMA Targets ==
  ASSUME NEW o \in ObjectFiles, ObjectOK(o), NamesFit,
         NEW found, NEW merged, NEW fresh, NEW sm, Placed(o, found, merged, fresh, sm),
         NEW i \in merged, o.sections[i].type = "rel"
  PROVE  /\ o.sections[i].info \in merged
         /\ Target(o, i).type # "rel"
         /\ <<o.sections[i].name, Target(o, i).name>> \in NamePairs
         /\ \A k \in merged : o.sections[k].type = "rel" /\ o.sections[k].info = o.sections[i].info => k = i
PROOF
  <1>1. merged \in SUBSET DOMAIN o.sections
    BY DEF Placed, Handled
  <1>2. PICK t : t = o.sections[i].info
    OBVIOUS
  <1>3. t \in DOMAIN o.sections /\ HasContents(o.sections[t]) /\ ~o.sections[t].once
    BY <1>1, <1>2 DEF ObjectOK, SectionOK
  <1>4. t \in Handled(o) /\ ~IsLinkOnce(found, o, t)
    BY <1>3 DEF Handled, HasContents, IsLinkOnce
  <1>5. t \in merged
    BY <1>3, <1>4 DEF Placed
  <1>6. Pairs(o) \in SUBSET NamePairs
    BY DEF NamePairs
  <1>7. \A k \in merged : o.sections[k].type = "rel" =>
          <<o.sections[k].name, Target(o, k).name>> \in NamePairs
    BY <1>1, <1>6 DEF Pairs
  <1>8. ASSUME NEW k \in merged, o.sections[k].type = "rel", o.sections[k].info = t PROVE k = i
    <2>1. PICK a, b, c : a = o.sections[i].name /\ b = o.sections[k].name /\ c = o.sections[t].name
      OBVIOUS
    <2>2. <<a, c>> \in NamePairs /\ <<b, c>> \in NamePairs
      BY <1>2, <1>7, <1>8, <2>1 DEF Target
    <2>3. PICK p, q : p = <<a, c>> /\ q = <<b, c>>
      OBVIOUS
    <2>4. p \in NamePairs /\ q \in NamePairs /\ p[2] = q[2] /\ p[1] = a /\ q[1] = b
      BY <2>2, <2>3
    <2>5. p[1] = q[1]
      BY <2>4 DEF NamesFit
    <2>6. a = b
      BY <2>4, <2>5
    <2> QED
      BY <1>1, <2>1, <2>6 DEF ObjectOK
  <1>9. Target(o, i).type # "rel"
    BY <1>2, <1>3 DEF Target, HasContents
  <1> QED
    BY <1>2, <1>5, <1>7, <1>8, <1>9

LEMMA Grows ==
  ASSUME SecsOK(sections), NEW o \in ObjectFiles, ObjectOK(o), NamesFit,
         NEW found, NEW merged, NEW fresh, NEW sm, Placed(o, found, merged, fresh, sm),
         NEW rel, rel = {i \in fresh : o.sections[i].type = "rel"}, NEW id,
         NEW M, M = MergedSections(sm, fresh, rel, id, o)
  PROVE  Grown(M, o, found, merged, fresh, sm, rel, id)
PROOF
  <1>1. PICK L, C : L = Len(sections) /\ C = Cardinality(fresh)
    OBVIOUS
  <1>2. /\ L \in Nat /\ C \in Nat
        /\ DOMAIN sm = DOMAIN o.sections
        /\ merged \in SUBSET DOMAIN o.sections /\ fresh \in SUBSET merged
        /\ \A i \in DOMAIN o.sections : i \notin merged => sm[i].s = 0
        /\ \A i \in merged : sm[i].s \in 1 .. L + C
        /\ \A i \in merged : i \notin fresh => sm[i].s <= L
        /\ \A i \in fresh : sm[i].s > L
        /\ \A i, k \in merged : sm[i].s = sm[k].s => i = k
        /\ \A j \in 1 .. L + C : j > L => \E i \in fresh : sm[i].s = j
    BY <1>1 DEF Placed, Handled
  <1>3. rel \in SUBSET fresh /\ \A i \in rel : o.sections[i].type = "rel"
    OBVIOUS
  <1>4. DOMAIN sections = 1 .. L /\ \A j \in 1 .. L : IsSection(sections[j])
    BY <1>1 DEF SecsOK, Sequence
  <1> DEFINE w(j) == Fore(fresh, sm, o, j)
             src(j) == Sources(sm, j)
             one(j) == CHOOSE i \in Sources(sm, j) : TRUE
             v(j) == IF src(j) = {} THEN w(j) ELSE JoinedAs(w(j), sm, id, o, one(j))
  <1>5. M = [j \in 1 .. L + C |-> TiedAs(v(j), InfoOf(sm, rel, o, j), RelocOf(sm, rel, o, j))]
    BY <1>1, MergedFrom, Zenon
  <1>6. ASSUME NEW j \in 1 .. L, NEW x, x = w(j) PROVE x = sections[j] /\ IsSection(x)
    <2>1. j <= Len(sections)
      BY <1>1, <1>2
    <2> QED
      BY <1>4, <1>6, <2>1 DEF Fore
  <1>7. ASSUME NEW i \in fresh, NEW x, x = w(sm[i].s)
        PROVE  /\ IsSection(x) /\ x.name = o.sections[i].name /\ x.type = o.sections[i].type
               /\ x.data = <<>> /\ x.reloc = 0
    <2>1. i = CHOOSE k \in fresh : sm[k].s = sm[i].s
      BY <1>2
    <2>2. ~(sm[i].s <= Len(sections))
      BY <1>1, <1>2
    <2>3. PICK n, y, a, z : /\ n = o.sections[i].name /\ y = o.sections[i].type /\ a = o.sections[i].align
                            /\ z = IF y = "rel" THEN 4 ELSE 32
      OBVIOUS
    <2>4. w(sm[i].s) = [new_section(n, y) EXCEPT !.align = a]
      BY <2>1, <2>2, <2>3 DEF Fore
    <2>5. new_section(n, y) = [name |-> n, type |-> y, align |-> z, data |-> <<>>, info |-> 0, reloc |-> 0]
      BY <2>3 DEF new_section
    <2>6. x = [name |-> n, type |-> y, align |-> a, data |-> <<>>, info |-> 0, reloc |-> 0]
      BY <1>7, <2>4, <2>5
    <2>7. Sequence(<<>>)
      BY DEF Sequence
    <2> QED
      BY <2>3, <2>6, <2>7 DEF IsSection
  <1>8. \A j \in 1 .. L + C : IsSection(w(j))
    <2> TAKE j \in 1 .. L + C
    <2>1. CASE j \in 1 .. L
      BY <1>6, <2>1
    <2>2. CASE j \notin 1 .. L
      <3>1. PICK i \in fresh : sm[i].s = j
        BY <1>2, <2>2
      <3> QED
        BY <1>7, <3>1
    <2> QED
      BY <2>1, <2>2
  <1>9. ASSUME NEW j \in 1 .. L + C, \A i \in merged : sm[i].s # j PROVE v(j) = w(j)
    <2>1. \A i \in DOMAIN sm : sm[i].s # j
      BY <1>2, <1>9
    <2>2. src(j) = {}
      BY <2>1 DEF Sources
    <2> QED
      BY <2>2
  <1>10. ASSUME NEW i \in merged, NEW x, x = w(sm[i].s), NEW y, y = v(sm[i].s)
         PROVE  /\ IsSection(y)
                /\ y.name = x.name /\ y.type = x.type /\ y.info = x.info /\ y.reloc = x.reloc
                /\ y.data = Contents(found[i]) \o Pad(sm[i].offset - Len(Contents(found[i])))
                                               \o Brought(id, o, i)
    <2>1. PICK j : j = sm[i].s
      OBVIOUS
    <2>2. j \in 1 .. L + C
      BY <1>2, <2>1
    <2>3. Sources(sm, j) = {i}
      BY <1>2, <2>1, <2>2 DEF Sources
    <2>4. y = JoinedAs(x, sm, id, o, i)
      <3>1. one(j) = i
        BY <2>3
      <3> QED
        BY <1>10, <2>1, <2>3, <3>1
    <2>5. IsSection(x)
      BY <1>8, <1>10, <2>1, <2>2
    <2>6. x.data = Contents(found[i])
      <3>1. CASE i \in fresh
        BY <1>7, <1>10, <3>1, GoesBehind
      <3>2. CASE i \notin fresh
        <4>1. j \in 1 .. L
          BY <1>2, <2>1, <2>2, <3>2
        <4>2. x = sections[j]
          BY <1>6, <1>10, <2>1, <4>1
        <4> QED
          BY <2>1, <3>2, <4>2, GoesBehind
      <3> QED
        BY <3>1, <3>2
    <2>7. sm[i].offset - Len(x.data) \in Nat
      BY <2>6, GoesBehind
    <2>8. i \in DOMAIN o.sections
      BY <1>2
    <2> HIDE DEF w, v
    <2>9. /\ IsSection(y)
          /\ y.name = x.name /\ y.type = x.type /\ y.info = x.info /\ y.reloc = x.reloc
          /\ y.data = x.data \o Pad(sm[i].offset - Len(x.data)) \o Brought(id, o, i)
      <3>1. IsJoined(y, x, sm, id, o, i)
        BY <2>4, <2>5, <2>7, <2>8, Joins
      <3> QED
        BY <3>1, Zenon DEF IsJoined
    <2> QED
      BY <2>6, <2>9, Zenon
  <1>11. ASSUME NEW j \in 1 .. L + C
         PROVE  /\ IsSection(M[j])
                /\ M[j].name = w(j).name /\ M[j].type = w(j).type
                /\ M[j].data = v(j).data
                /\ M[j].info = OneOf(InfoOf(sm, rel, o, j), w(j).info)
                /\ M[j].reloc = OneOf(RelocOf(sm, rel, o, j), w(j).reloc)
    <2>1. PICK x, y, I, R : /\ x = w(j) /\ y = v(j)
                            /\ I = InfoOf(sm, rel, o, j) /\ R = RelocOf(sm, rel, o, j)
      OBVIOUS
    <2>2. IsSection(y) /\ y.name = x.name /\ y.type = x.type /\ y.info = x.info /\ y.reloc = x.reloc
      <3>1. CASE \A i \in merged : sm[i].s # j
        BY <1>8, <1>9, <2>1, <3>1
      <3>2. CASE \E i \in merged : sm[i].s = j
        <4>1. PICK i \in merged : sm[i].s = j
          BY <3>2
        <4>2. x = w(sm[i].s) /\ y = v(sm[i].s)
          BY <2>1, <4>1
        <4> HIDE DEF w, v
        <4> QED
          BY <1>10, <4>1, <4>2
      <3> QED
        BY <3>1, <3>2
    <2>3. M[j] = TiedAs(y, I, R)
      BY <1>5, <2>1
    <2> HIDE DEF w, v
    <2>4. PICK t : t = M[j]
      OBVIOUS
    <2>5. /\ IsSection(t) /\ t.name = y.name /\ t.type = y.type /\ t.data = y.data
          /\ t.info = OneOf(I, y.info) /\ t.reloc = OneOf(R, y.reloc)
      BY <2>2, <2>3, <2>4, Ties
    <2> QED
      BY <2>1, <2>2, <2>4, <2>5, Zenon
  <1>12. Sequence(M) /\ Len(M) = L + C
    <2>1. M = [j \in 1 .. L + C |-> M[j]] /\ L + C \in Nat
      BY <1>2, <1>5
    <2> QED
      BY <2>1, Listed
  <1>13. ASSUME NEW i \in rel
         PROVE  /\ o.sections[i].info \in merged
                /\ \A k \in rel : o.sections[k].info = o.sections[i].info => k = i
    <2>1. i \in merged /\ o.sections[i].type = "rel"
      BY <1>2, <1>3
    <2>2. /\ o.sections[i].info \in merged
          /\ \A k \in merged : o.sections[k].type = "rel" /\ o.sections[k].info = o.sections[i].info => k = i
      BY <2>1, Targets
    <2> QED
      BY <1>2, <1>3, <2>2
  <1>14. ASSUME NEW j \in 1 .. L + C, NEW d
         PROVE  /\ (\A i \in rel : sm[i].s # j) => OneOf(InfoOf(sm, rel, o, j), d) = d
                /\ (\A i \in rel : sm[o.sections[i].info].s # j) => OneOf(RelocOf(sm, rel, o, j), d) = d
    <2>1. (\A i \in rel : sm[i].s # j) => InfoOf(sm, rel, o, j) = {}
      BY DEF InfoOf
    <2>2. (\A i \in rel : sm[o.sections[i].info].s # j) => RelocOf(sm, rel, o, j) = {}
      BY DEF RelocOf
    <2> QED
      BY <2>1, <2>2, OneOfs
  <1>15. ASSUME NEW i \in rel, NEW d
         PROVE  /\ OneOf(InfoOf(sm, rel, o, sm[i].s), d) = sm[o.sections[i].info].s
                /\ OneOf(RelocOf(sm, rel, o, sm[o.sections[i].info].s), d) = sm[i].s
    <2>1. \A k \in rel : sm[k].s = sm[i].s => k = i
      BY <1>2, <1>3
    <2>2. PICK j, t : j = sm[i].s /\ t = sm[o.sections[i].info].s
      OBVIOUS
    <2>3. \A k \in rel : sm[o.sections[k].info].s = t => k = i
      <3> TAKE k \in rel
      <3> HAVE sm[o.sections[k].info].s = t
      <3>1. o.sections[k].info = o.sections[i].info
        BY <1>2, <1>13, <2>2
      <3> QED
        BY <1>13, <3>1
    <2>4. InfoOf(sm, rel, o, j) = {t}
      BY <2>1, <2>2 DEF InfoOf
    <2>5. RelocOf(sm, rel, o, t) = {j}
      BY <2>2, <2>3 DEF RelocOf
    <2>6. OneOf({t}, d) = t /\ OneOf({j}, d) = j
      BY DEF OneOf
    <2> QED
      BY <2>2, <2>4, <2>5, <2>6
  <1> HIDE DEF w, v
  <1>16. \A j \in 1 .. L : M[j].name = sections[j].name /\ M[j].type = sections[j].type
    BY <1>2, <1>6, <1>11
  <1>17. \A i \in fresh : /\ M[sm[i].s].name = o.sections[i].name
                          /\ M[sm[i].s].type = o.sections[i].type
    BY <1>2, <1>7, <1>11
  <1>18. ASSUME NEW j \in 1 .. L + C
         PROVE  /\ (\A i \in merged : sm[i].s # j) => M[j].data = sections[j].data
                /\ (\A i \in rel : sm[i].s # j) /\ j <= L => M[j].info = sections[j].info
                /\ (\A i \in rel : sm[o.sections[i].info].s # j) =>
                     M[j].reloc = IF j <= L THEN sections[j].reloc ELSE 0
    <2>1. CASE j \in 1 .. L
      BY <1>2, <1>6, <1>9, <1>11, <1>14, <2>1
    <2>2. CASE j \notin 1 .. L
      <3>1. PICK i \in fresh : sm[i].s = j
        BY <1>2, <2>2
      <3>2. ~(j <= L) /\ i \in merged
        BY <1>2, <2>2
      <3>3. w(j).reloc = 0
        BY <1>7, <3>1
      <3> QED
        BY <1>11, <1>14, <3>1, <3>2, <3>3
    <2> QED
      BY <2>1, <2>2
  <1>19. ASSUME NEW i \in merged
         PROVE  M[sm[i].s].data = Contents(found[i]) \o Pad(sm[i].offset - Len(Contents(found[i])))
                                                     \o Brought(id, o, i)
    <2>1. sm[i].s \in 1 .. L + C
      BY <1>2
    <2>2. M[sm[i].s].data = v(sm[i].s).data
      BY <1>11, <2>1
    <2>3. v(sm[i].s).data = Contents(found[i]) \o Pad(sm[i].offset - Len(Contents(found[i])))
                                               \o Brought(id, o, i)
      BY <1>10
    <2> QED
      BY <2>2, <2>3, Zenon
  <1>20. ASSUME NEW i \in rel
         PROVE  /\ M[sm[i].s].info = sm[o.sections[i].info].s
                /\ sm[o.sections[i].info].s \in 1 .. L + C
                /\ M[sm[o.sections[i].info].s].reloc = sm[i].s
    <2>1. sm[i].s \in 1 .. L + C /\ sm[o.sections[i].info].s \in 1 .. L + C
      BY <1>2, <1>3, <1>13
    <2>2. PICK j, t : j = sm[i].s /\ t = sm[o.sections[i].info].s
      OBVIOUS
    <2>3. PICK x, y : x = w(j).info /\ y = w(t).reloc
      OBVIOUS
    <2>4. M[j].info = OneOf(InfoOf(sm, rel, o, j), x) /\ M[t].reloc = OneOf(RelocOf(sm, rel, o, t), y)
      BY <1>11, <2>1, <2>2, <2>3
    <2>5. OneOf(InfoOf(sm, rel, o, j), x) = t /\ OneOf(RelocOf(sm, rel, o, t), y) = j
      BY <1>15, <2>2
    <2> QED
      BY <2>1, <2>2, <2>4, <2>5
  <1>21. \A j \in 1 .. L + C : IsSection(M[j])
    BY <1>11
  <1> QED
    BY <1>1, <1>12, <1>16, <1>17, <1>18, <1>19, <1>20, <1>21 DEF Grown

(***************************************************************************)
(* The third pass                                                          *)
(***************************************************************************)
\* What becomes of an entry when no entry is refused.
Fixed(e, sm, map, id) ==
  IF e.from # id THEN e ELSE [e EXCEPT !.sym = map[@], !.offset = @ + SiteOffset(sm, e)]
FixedAs(s, sm, map, id) == [s EXCEPT !.data = [k \in DOMAIN @ |-> Fixed(@[k], sm, map, id)]]

\* The xth entry of the ith section of the object, moved and renumbered.
Moved(sm, map, o, id, i, x) ==
  LET r == o.sections[i].rels[x]
  IN  [offset |-> r.offset + sm[o.sections[i].info].offset, sym |-> map[r.sym], from |-> id,
       nth |-> <<i, x>>, site |-> <<id, o.sections[i].info, r.offset>>, name |-> o.syms[r.sym].name]

LEMMA PatchedFrom ==
  ASSUME NEW M, NEW sm, NEW map, NEW id
  PROVE  Patched(M, sm, map, {}, id) =
           [j \in DOMAIN M |-> IF M[j].type = "rel" THEN FixedAs(M[j], sm, map, id) ELSE M[j]]
PROOF
  <1>1. \A e : Fixed(e, sm, map, id) =
                 IF e.from # id \/ ~(\A b \in {} : e.nth[1] < b[1] \/ (e.nth[1] = b[1] /\ e.nth[2] < b[2]))
                 THEN e ELSE [e EXCEPT !.sym = map[@], !.offset = @ + SiteOffset(sm, e)]
    BY DEF Fixed
  <1> QED
    BY <1>1, ZenonT(60) DEF Patched, FixedAs

\* An entry of the object.
LEMMA FixesEntries ==
  ASSUME NEW o, NEW sm, NEW map, NEW id, NEW i, NEW x,
         o.sections[i].type = "rel", x \in DOMAIN o.sections[i].rels
  PROVE  Fixed(Brought(id, o, i)[x], sm, map, id) = Moved(sm, map, o, id, i, x)
PROOF
  <1>1. PICK r, t : r = o.sections[i].rels[x] /\ t = o.sections[i].info
    OBVIOUS
  <1>2. PICK f, y, h, z : f = r.offset /\ y = r.sym /\ h = <<id, t, f>> /\ z = o.syms[y].name
    OBVIOUS
  <1>3. Brought(id, o, i)[x] = [offset |-> f, sym |-> y, from |-> id, nth |-> <<i, x>>,
                                site |-> h, name |-> z]
    BY <1>1, <1>2 DEF Brought, Entries
  <1>4. PICK e : e = Brought(id, o, i)[x]
    OBVIOUS
  <1>5. e = [offset |-> f, sym |-> y, from |-> id, nth |-> <<i, x>>, site |-> h, name |-> z]
    BY <1>3, <1>4
  <1>6. SiteOffset(sm, e) = sm[t].offset
    BY <1>2, <1>5 DEF SiteOffset
  <1>7. PICK g : g = SiteOffset(sm, e)
    OBVIOUS
  <1>8. Fixed(e, sm, map, id) = [e EXCEPT !.sym = map[@], !.offset = @ + g]
    BY <1>5, <1>7 DEF Fixed
  <1>9. [e EXCEPT !.sym = map[@], !.offset = @ + g] =
          [offset |-> f + g, sym |-> map[y], from |-> id, nth |-> <<i, x>>, site |-> h, name |-> z]
    <2>1. PICK u, q, p : u = map[y] /\ q = f + g /\ p = <<i, x>>
      OBVIOUS
    <2>2. e = [offset |-> f, sym |-> y, from |-> id, nth |-> p, site |-> h, name |-> z]
      BY <1>5, <2>1
    <2>3. [e EXCEPT !.sym = map[@], !.offset = @ + g] = [e EXCEPT !.sym = u, !.offset = q]
      BY <2>1, <2>2
    <2>4. [e EXCEPT !.sym = u, !.offset = q] =
            [offset |-> q, sym |-> u, from |-> id, nth |-> p, site |-> h, name |-> z]
      <3>1. PICK e2 : e2 = [e EXCEPT !.sym = u]
        OBVIOUS
      <3>2. e2 = [offset |-> f, sym |-> u, from |-> id, nth |-> p, site |-> h, name |-> z]
        BY <2>2, <3>1
      <3>3. [e2 EXCEPT !.offset = q] =
              [offset |-> q, sym |-> u, from |-> id, nth |-> p, site |-> h, name |-> z]
        BY <3>2
      <3>4. [e EXCEPT !.sym = u, !.offset = q] = [e2 EXCEPT !.offset = q]
        BY <3>1
      <3> QED
        BY <3>3, <3>4
    <2> QED
      BY <2>1, <2>3, <2>4
  <1>10. Moved(sm, map, o, id, i, x) =
           [offset |-> f + g, sym |-> map[y], from |-> id, nth |-> <<i, x>>, site |-> h, name |-> z]
    BY <1>1, <1>2, <1>6, <1>7 DEF Moved
  <1> QED
    BY <1>4, <1>8, <1>9, <1>10

IsFixed(t, s, sm, map, id) ==
  /\ IsSection(t)
  /\ t.name = s.name /\ t.type = s.type /\ t.info = s.info /\ t.reloc = s.reloc
  /\ Len(t.data) = Len(s.data)
  /\ \A k \in 1 .. Len(s.data) : t.data[k] = Fixed(s.data[k], sm, map, id)

\* A relocation section keeps all but its entries.
LEMMA Fixes ==
  ASSUME NEW s, NEW sm, NEW map, NEW id, NEW t, IsSection(s), t = FixedAs(s, sm, map, id)
  PROVE  IsFixed(t, s, sm, map, id)
PROOF
  <1>1. PICK n, y, a, d, i, r :
          /\ s = [name |-> n, type |-> y, align |-> a, data |-> d, info |-> i, reloc |-> r]
          /\ Sequence(d)
    BY DEF IsSection
  <1>2. PICK z : z = [k \in DOMAIN d |-> Fixed(d[k], sm, map, id)]
    OBVIOUS
  <1>3. t = [name |-> n, type |-> y, align |-> a, data |-> z, info |-> i, reloc |-> r]
    BY <1>1, <1>2 DEF FixedAs
  <1>4. Len(d) \in Nat /\ DOMAIN d = 1 .. Len(d)
    BY <1>1 DEF Sequence
  <1>5. Sequence(z) /\ Len(z) = Len(d)
    <2>1. z = [k \in 1 .. Len(d) |-> z[k]]
      BY <1>2, <1>4
    <2> QED
      BY <1>4, <2>1, Listed
  <1>6. \A k \in 1 .. Len(d) : z[k] = Fixed(d[k], sm, map, id)
    BY <1>2, <1>4
  <1>7. t.data = z /\ s.data = d
    BY <1>1, <1>3
  <1>8. IsSection(t) /\ t.name = s.name /\ t.type = s.type /\ t.info = s.info /\ t.reloc = s.reloc
    BY <1>1, <1>3, <1>5 DEF IsSection
  <1> QED
    BY <1>5, <1>6, <1>7, <1>8, Zenon DEF IsFixed

\* Memory after the three passes.
Joint(P, o, merged, fresh, sm, map, rel, id) ==
  /\ Sequence(P) /\ Len(P) = Len(sections) + Cardinality(fresh)
  /\ \A j \in 1 .. Len(P) : IsSection(P[j])
  /\ \A j \in 1 .. Len(sections) : P[j].name = sections[j].name /\ P[j].type = sections[j].type
  /\ \A i \in merged : /\ P[sm[i].s].name = o.sections[i].name
                       /\ P[sm[i].s].type = o.sections[i].type
  /\ \A j \in 1 .. Len(P) :
       /\ (\A i \in rel : sm[i].s # j) /\ j <= Len(sections) => P[j].info = sections[j].info
       /\ (\A i \in rel : sm[o.sections[i].info].s # j) =>
            P[j].reloc = IF j <= Len(sections) THEN sections[j].reloc ELSE 0
  /\ \A i \in rel : /\ P[sm[i].s].info = sm[o.sections[i].info].s
                    /\ P[sm[o.sections[i].info].s].reloc = sm[i].s
  /\ \A j \in 1 .. Len(sections) : sections[j].type # "rel" =>
       /\ Len(sections[j].data) <= Len(P[j].data)
       /\ \A k \in 1 .. Len(sections[j].data) : P[j].data[k] = sections[j].data[k]
  /\ \A i \in merged : o.sections[i].type # "rel" =>
       /\ sm[i].offset \in Nat
       /\ \A x \in Nat : x < o.sections[i].size =>
            /\ sm[i].offset + x < Len(P[sm[i].s].data)
            /\ P[sm[i].s].data[sm[i].offset + x + 1] = <<id, i, x>>
  /\ \A j \in 1 .. Len(P) : P[j].type = "rel" =>
       \A k \in 1 .. Len(P[j].data) :
         \/ j <= Len(sections) /\ k <= Len(sections[j].data) /\ P[j].data[k] = sections[j].data[k]
         \/ \E i \in merged : /\ o.sections[i].type = "rel" /\ sm[i].s = j
                              /\ \E x \in DOMAIN o.sections[i].rels :
                                   P[j].data[k] = Moved(sm, map, o, id, i, x)

\* Merged sections have the type of what they join; no entry bears the number
\* of the object yet.
TypesAgree(o, merged, fresh, sm) ==
  \A i \in merged : i \notin fresh => sections[sm[i].s].type = o.sections[i].type
OthersEntries(id) ==
  \A j \in 1 .. Len(sections) : sections[j].type = "rel" =>
    \A k \in 1 .. Len(sections[j].data) : sections[j].data[k].from # id

LEMMA Patches ==
  ASSUME NEW o, NEW found, NEW merged, NEW fresh, NEW sm, NEW rel, NEW id, NEW M, NEW map, NEW P,
         SecsOK(sections), ObjectOK(o), Placed(o, found, merged, fresh, sm),
         rel \in SUBSET fresh,
         Grown(M, o, found, merged, fresh, sm, rel, id), TypesAgree(o, merged, fresh, sm),
         OthersEntries(id), P = Patched(M, sm, map, {}, id)
  PROVE  Joint(P, o, merged, fresh, sm, map, rel, id)
PROOF
  <1>1. PICK L, C : L = Len(sections) /\ C = Cardinality(fresh)
    OBVIOUS
  <1>2. /\ L \in Nat /\ C \in Nat
        /\ merged \in SUBSET DOMAIN o.sections /\ fresh \in SUBSET merged
        /\ \A i \in merged : sm[i].s \in 1 .. L + C
        /\ \A i \in merged : i \notin fresh => /\ sm[i].s <= L
                                               /\ sections[sm[i].s].name = o.sections[i].name
        /\ \A i \in fresh : sm[i].s > L
        /\ \A j \in 1 .. L + C : j > L => \E i \in fresh : sm[i].s = j
    BY <1>1 DEF Placed, Handled
  <1>3. /\ Sequence(M) /\ Len(M) = L + C /\ DOMAIN M = 1 .. L + C
        /\ \A j \in 1 .. L + C : IsSection(M[j])
        /\ \A j \in 1 .. L : M[j].name = sections[j].name /\ M[j].type = sections[j].type
    BY <1>1 DEF Grown, Sequence
  <1>4. \A i \in merged : /\ M[sm[i].s].name = o.sections[i].name
                          /\ M[sm[i].s].type = o.sections[i].type
    <2> TAKE i \in merged
    <2>1. CASE i \in fresh
      BY <2>1 DEF Grown
    <2>2. CASE i \notin fresh
      <3>1. sm[i].s \in 1 .. L
        BY <1>2, <2>2
      <3> QED
        BY <1>2, <1>3, <2>2, <3>1 DEF TypesAgree
    <2> QED
      BY <2>1, <2>2
  <1>5. P = [j \in 1 .. L + C |-> IF M[j].type = "rel" THEN FixedAs(M[j], sm, map, id) ELSE M[j]]
    BY <1>3, PatchedFrom
  <1>6. ASSUME NEW j \in 1 .. L + C
        PROVE  /\ M[j].type # "rel" => P[j] = M[j]
               /\ M[j].type = "rel" => IsFixed(P[j], M[j], sm, map, id)
    <2>1. CASE M[j].type = "rel"
      <3>1. IsSection(M[j])
        BY <1>3
      <3>2. P[j] = FixedAs(M[j], sm, map, id)
        BY <1>5, <2>1
      <3> QED
        BY <2>1, <3>1, <3>2, Fixes
    <2>2. CASE M[j].type # "rel"
      BY <1>5, <2>2
    <2> QED
      BY <2>1, <2>2
  <1>7. Sequence(P) /\ Len(P) = L + C
    <2>1. P = [j \in 1 .. L + C |-> P[j]] /\ L + C \in Nat
      BY <1>2, <1>5
    <2> QED
      BY <2>1, Listed
  <1>8. \A j \in 1 .. L + C :
          /\ IsSection(P[j]) /\ P[j].name = M[j].name /\ P[j].type = M[j].type
          /\ P[j].info = M[j].info /\ P[j].reloc = M[j].reloc
    BY <1>3, <1>6 DEF IsFixed
  <1>9. ASSUME NEW j \in 1 .. L, \A i \in merged : sm[i].s # j PROVE M[j].data = sections[j].data
    BY <1>1, <1>2, <1>3, <1>9 DEF Grown
  <1>10. ASSUME NEW i \in merged, NEW d, d = M[sm[i].s].data, NEW c, c = Contents(found[i]),
                NEW b, b = Brought(id, o, i)
         PROVE  /\ Sequence(c) /\ Sequence(b) /\ sm[i].offset \in Nat /\ Len(c) <= sm[i].offset
                /\ Len(c) \in Nat
                /\ Len(d) = sm[i].offset + Len(b)
                /\ \A k \in 1 .. Len(c) : d[k] = c[k]
                /\ \A k \in 1 .. Len(b) : d[sm[i].offset + k] = b[k]
    <2>1. PICK g : g = sm[i].offset - Len(c)
      OBVIOUS
    <2>2. Sequence(c) /\ g \in Nat /\ Len(c) \in Nat
      BY <1>10, <2>1, GoesBehind
    <2>3. Sequence(b)
      BY <1>2, <1>10, Brings
    <2>4. d = c \o Pad(g) \o b
      BY <1>10, <2>1, Zenon DEF Grown
    <2>5. PICK f : f = sm[i].offset /\ f \in Nat
      BY GoesBehind
    <2>6. /\ Len(d) = Len(c) + g + Len(b)
          /\ \A k \in 1 .. Len(c) : d[k] = c[k]
          /\ \A k \in 1 .. Len(b) : d[Len(c) + g + k] = b[k]
      <3>1. IsPadded(d, c, g, b)
        BY <2>2, <2>3, <2>4, Padded
      <3> QED
        BY <3>1 DEF IsPadded
    <2> QED
      <3>1. PICK lc : lc = Len(c)
        OBVIOUS
      <3>2. g = f - lc /\ g \in Nat /\ lc \in Nat
        BY <2>1, <2>2, <2>5, <3>1
      <3>3. lc <= f /\ lc + g = f
        BY <2>5, <3>2
      <3> QED
        BY <2>2, <2>3, <2>5, <2>6, <3>1, <3>3
  <1>11. ASSUME NEW j \in 1 .. L, sections[j].type # "rel"
         PROVE  /\ Len(sections[j].data) <= Len(P[j].data)
                /\ \A k \in 1 .. Len(sections[j].data) : P[j].data[k] = sections[j].data[k]
    <2>1. j \in 1 .. L + C /\ P[j] = M[j] /\ Len(sections[j].data) \in Nat
      BY <1>1, <1>2, <1>3, <1>6, <1>11 DEF SecsOK, IsSection, Sequence
    <2>2. CASE \A i \in merged : sm[i].s # j
      BY <1>9, <2>1, <2>2
    <2>3. ASSUME NEW i \in merged, sm[i].s = j
          PROVE  /\ Len(sections[j].data) <= Len(P[j].data)
                 /\ \A k \in 1 .. Len(sections[j].data) : P[j].data[k] = sections[j].data[k]
      <3>1. i \notin fresh
        BY <1>2, <2>3
      <3>2. PICK c, d, b : c = Contents(found[i]) /\ d = M[sm[i].s].data /\ b = Brought(id, o, i)
        OBVIOUS
      <3>3. /\ sm[i].offset \in Nat /\ Len(c) <= sm[i].offset /\ Len(c) \in Nat /\ Sequence(b)
            /\ Len(d) = sm[i].offset + Len(b)
            /\ \A k \in 1 .. Len(c) : d[k] = c[k]
        BY <1>10, <3>2
      <3>4. c = sections[j].data /\ d = P[j].data
        BY <2>1, <2>3, <3>1, <3>2, GoesBehind
      <3>5. Len(b) \in Nat
        BY <3>3 DEF Sequence
      <3> QED
        BY <3>3, <3>4, <3>5
    <2> QED
      BY <2>2, <2>3
  <1>12. ASSUME NEW i \in merged, o.sections[i].type # "rel"
         PROVE  /\ sm[i].offset \in Nat
                /\ \A x \in Nat : x < o.sections[i].size =>
                     /\ sm[i].offset + x < Len(P[sm[i].s].data)
                     /\ P[sm[i].s].data[sm[i].offset + x + 1] = <<id, i, x>>
    <2>1. P[sm[i].s] = M[sm[i].s] /\ i \in DOMAIN o.sections
      BY <1>2, <1>4, <1>6, <1>12
    <2>2. PICK c, d, b : c = Contents(found[i]) /\ d = M[sm[i].s].data /\ b = Brought(id, o, i)
      OBVIOUS
    <2>3. PICK f, n : f = sm[i].offset /\ n = o.sections[i].size
      OBVIOUS
    <2>4. /\ f \in Nat /\ Sequence(b) /\ Len(d) = f + Len(b)
          /\ \A k \in 1 .. Len(b) : d[f + k] = b[k]
      BY <1>10, <2>2, <2>3
    <2>5. n \in Nat /\ Len(b) = n /\ b = Cells(id, i, n)
      <3>1. b = Cells(id, i, n)
        BY <1>12, <2>2, <2>3 DEF Brought
      <3>2. SectionOK(o, o.sections[i])
        BY <2>1 DEF ObjectOK
      <3>3. n \in Nat
        BY <2>3, <3>2 DEF SectionOK
      <3>4. Len(b) = n
        BY <1>12, <2>1, <2>2, <2>3, Brings
      <3> QED
        BY <3>1, <3>3, <3>4
    <2>6. ASSUME NEW x \in Nat, x < n PROVE f + x < Len(d) /\ d[f + x + 1] = <<id, i, x>>
      <3>1. x + 1 \in 1 .. n /\ f + (x + 1) = f + x + 1 /\ (x + 1) - 1 = x
        BY <2>4, <2>5, <2>6
      <3>2. b[x + 1] = <<id, i, x>>
        BY <2>5, <3>1 DEF Cells
      <3>3. d[f + (x + 1)] = b[x + 1]
        BY <2>4, <2>5, <3>1
      <3> QED
        BY <2>4, <2>5, <2>6, <3>1, <3>2, <3>3
    <2> QED
      BY <2>1, <2>2, <2>3, <2>4, <2>6
  <1>13. ASSUME NEW j \in 1 .. L + C, P[j].type = "rel", NEW k \in 1 .. Len(P[j].data)
         PROVE  \/ j <= L /\ k <= Len(sections[j].data) /\ P[j].data[k] = sections[j].data[k]
                \/ \E i \in merged : /\ o.sections[i].type = "rel" /\ sm[i].s = j
                                     /\ \E x \in DOMAIN o.sections[i].rels :
                                          P[j].data[k] = Moved(sm, map, o, id, i, x)
    <2>1. IsFixed(P[j], M[j], sm, map, id)
      BY <1>6, <1>8, <1>13
    <2>2. /\ k \in 1 .. Len(M[j].data)
          /\ P[j].data[k] = Fixed(M[j].data[k], sm, map, id)
      BY <1>13, <2>1 DEF IsFixed
    <2>3. ASSUME j <= L, k <= Len(sections[j].data), M[j].data[k] = sections[j].data[k]
          PROVE  P[j].data[k] = sections[j].data[k]
      <3>1. j \in 1 .. L
        BY <1>2, <2>3
      <3>2. sections[j].type = "rel" /\ Len(sections[j].data) \in Nat
        <4>1. IsSection(sections[j])
          BY <1>1, <3>1 DEF SecsOK
        <4>2. Len(sections[j].data) \in Nat
          BY <4>1 DEF IsSection, Sequence
        <4>3. P[j].type = M[j].type /\ M[j].type = sections[j].type
          BY <1>3, <1>8, <3>1
        <4> QED
          BY <1>13, <4>2, <4>3
      <3>3. k \in 1 .. Len(sections[j].data)
        BY <2>2, <2>3, <3>2
      <3>4. sections[j].data[k].from # id
        BY <1>1, <3>1, <3>2, <3>3 DEF OthersEntries
      <3> QED
        BY <2>2, <2>3, <3>4 DEF Fixed
    <2>4. CASE \A i \in merged : sm[i].s # j
      <3>1. j \in 1 .. L
        BY <1>2, <2>4
      <3>2. M[j].data = sections[j].data
        BY <1>9, <2>4, <3>1
      <3>3. j <= L /\ k <= Len(sections[j].data)
        BY <1>2, <2>2, <3>1, <3>2
      <3> QED
        BY <2>3, <3>2, <3>3
    <2>5. ASSUME NEW i \in merged, sm[i].s = j
          PROVE  \/ j <= L /\ k <= Len(sections[j].data) /\ P[j].data[k] = sections[j].data[k]
                 \/ /\ o.sections[i].type = "rel"
                    /\ \E x \in DOMAIN o.sections[i].rels :
                         P[j].data[k] = Moved(sm, map, o, id, i, x)
      <3>1. o.sections[i].type = "rel" /\ i \in DOMAIN o.sections
        BY <1>2, <1>4, <1>8, <1>13, <2>5
      <3>2. PICK c, d, b : c = Contents(found[i]) /\ d = M[sm[i].s].data /\ b = Brought(id, o, i)
        OBVIOUS
      <3>3. PICK lc : lc = Len(c)
        OBVIOUS
      <3>4. /\ lc \in Nat /\ Sequence(b) /\ Len(d) = lc + Len(b)
            /\ \A l \in 1 .. lc : d[l] = c[l]
            /\ \A l \in 1 .. Len(b) : d[lc + l] = b[l]
        <4>1. sm[i].offset = lc
          BY <3>1, <3>2, <3>3, GoesBehind
        <4>2. /\ lc \in Nat /\ Sequence(b) /\ Len(d) = sm[i].offset + Len(b)
              /\ \A l \in 1 .. Len(c) : d[l] = c[l]
              /\ \A l \in 1 .. Len(b) : d[sm[i].offset + l] = b[l]
          <5>1. /\ Len(c) \in Nat /\ Sequence(b) /\ Len(d) = sm[i].offset + Len(b)
                /\ \A l \in 1 .. Len(c) : d[l] = c[l]
                /\ \A l \in 1 .. Len(b) : d[sm[i].offset + l] = b[l]
            <6>1. Len(c) \in Nat /\ Sequence(b) /\ Len(d) = sm[i].offset + Len(b)
              BY <1>10, <3>2
            <6>2. \A l \in 1 .. Len(c) : d[l] = c[l]
              BY <1>10, <3>2
            <6>3. \A l \in 1 .. Len(b) : d[sm[i].offset + l] = b[l]
              BY <1>10, <3>2
            <6> QED
              BY <6>1, <6>2, <6>3
          <5> QED
            BY <3>3, <5>1
        <4> QED
          BY <3>3, <4>1, <4>2
      <3>5. d = M[j].data /\ k \in 1 .. Len(d)
        BY <2>2, <2>5, <3>2
      <3>6. CASE k <= lc
        <4>1. i \notin fresh
          <5>1. Len(<<>>) = 0
            OBVIOUS
          <5> QED
            BY <3>2, <3>3, <3>5, <3>6, <5>1, GoesBehind
        <4>2. c = sections[j].data /\ j <= L
          BY <1>2, <2>5, <3>2, <4>1, GoesBehind
        <4>3. d[k] = c[k]
          BY <3>4, <3>5, <3>6
        <4>4. k <= Len(sections[j].data) /\ M[j].data[k] = sections[j].data[k]
          BY <3>3, <3>5, <3>6, <4>2, <4>3
        <4> QED
          BY <2>3, <4>2, <4>4
      <3>7. CASE ~(k <= lc)
        <4>1. Len(b) \in Nat
          BY <3>4 DEF Sequence
        <4>2. PICK x \in 1 .. Len(b) : k = lc + x
          <5>1. k - lc \in 1 .. Len(b) /\ k = lc + (k - lc)
            BY <3>4, <3>5, <3>7, <4>1
          <5> QED
            BY <5>1
        <4>3. d[k] = b[x]
          BY <3>4, <4>2
        <4>4. x \in DOMAIN o.sections[i].rels
          BY <3>1, <3>2, <4>2, Brings
        <4>5. P[j].data[k] = Fixed(Brought(id, o, i)[x], sm, map, id)
          BY <2>2, <3>2, <3>5, <4>3
        <4>6. P[j].data[k] = Moved(sm, map, o, id, i, x)
          BY <3>1, <4>4, <4>5, FixesEntries
        <4> QED
          BY <3>1, <4>4, <4>6
      <3> QED
        BY <3>6, <3>7
    <2> QED
      BY <2>4, <2>5
  <1>14. \A j \in 1 .. L : P[j].name = sections[j].name /\ P[j].type = sections[j].type
    BY <1>2, <1>3, <1>8
  <1>15. \A i \in merged : /\ P[sm[i].s].name = o.sections[i].name
                           /\ P[sm[i].s].type = o.sections[i].type
    BY <1>2, <1>4, <1>8
  <1>16. ASSUME NEW j \in 1 .. L + C
         PROVE  /\ (\A i \in rel : sm[i].s # j) /\ j <= L => P[j].info = sections[j].info
                /\ (\A i \in rel : sm[o.sections[i].info].s # j) =>
                     P[j].reloc = IF j <= L THEN sections[j].reloc ELSE 0
    BY <1>1, <1>3, <1>8 DEF Grown
  <1>17. ASSUME NEW i \in rel
         PROVE  /\ P[sm[i].s].info = sm[o.sections[i].info].s
                /\ P[sm[o.sections[i].info].s].reloc = sm[i].s
    <2>1. sm[i].s \in 1 .. L + C /\ sm[o.sections[i].info].s \in 1 .. L + C
      BY <1>2, <1>3 DEF Grown
    <2> QED
      BY <1>8, <2>1 DEF Grown
  <1>18. \A j \in 1 .. L + C : IsSection(P[j])
    BY <1>8
  <1> QED
    BY <1>1, <1>7, <1>11, <1>12, <1>13, <1>14, <1>15, <1>16, <1>17, <1>18, SMTT(60) DEF Joint

(***************************************************************************)
(* An object in memory: the sections                                       *)
(***************************************************************************)
Loading(o, found, merged, fresh, sm, rel, map, P, id) ==
  /\ o \in ObjectFiles /\ ObjectOK(o) /\ NamesFit
  /\ SecsOK(sections) /\ TiesOK(sections)
  /\ Placed(o, found, merged, fresh, sm) /\ TypesAgree(o, merged, fresh, sm)
  /\ rel = {i \in fresh : o.sections[i].type = "rel"}
  /\ Joint(P, o, merged, fresh, sm, map, rel, id)

\* A section in memory was there before or is new with the object.
LEMMA OldOrNew ==
  ASSUME NEW o, NEW found, NEW merged, NEW fresh, NEW sm, NEW rel, NEW map, NEW P, NEW id,
         Loading(o, found, merged, fresh, sm, rel, map, P, id)
  PROVE  /\ Len(sections) \in Nat /\ Len(P) \in Nat /\ Len(sections) <= Len(P)
         /\ merged \in SUBSET DOMAIN o.sections /\ fresh \in SUBSET merged
         /\ \A j \in 1 .. Len(P) : \/ j \in 1 .. Len(sections)
                                   \/ j > Len(sections) /\ \E i \in fresh : sm[i].s = j
         /\ \A i \in merged : sm[i].s \in 1 .. Len(P)
         /\ \A i \in merged : i \notin fresh => /\ sm[i].s = found[i] /\ sm[i].s \in 1 .. Len(sections)
                                                /\ sections[sm[i].s].name = o.sections[i].name
         /\ \A i \in fresh : /\ sm[i].s > Len(sections)
                             /\ \A j \in 1 .. Len(sections) : sections[j].name # o.sections[i].name
         /\ \A i, k \in merged : sm[i].s = sm[k].s => i = k
PROOF
  <1>1. PICK L, C : L = Len(sections) /\ C = Cardinality(fresh)
    OBVIOUS
  <1>2. /\ L \in Nat /\ C \in Nat /\ Len(P) = L + C
        /\ merged \in SUBSET DOMAIN o.sections /\ fresh \in SUBSET merged
        /\ \A i \in merged : sm[i].s \in 1 .. L + C
        /\ \A i \in merged : i \notin fresh => /\ sm[i].s = found[i] /\ sm[i].s <= L
                                               /\ sections[sm[i].s].name = o.sections[i].name
        /\ \A i \in fresh : sm[i].s > L /\ found[i] = 0
        /\ \A j \in 1 .. L + C : j > L => \E i \in fresh : sm[i].s = j
        /\ \A i \in DOMAIN o.sections : found[i] = FindSection(sections, o.sections[i].name)
        /\ \A i, k \in merged : sm[i].s = sm[k].s => i = k
    BY <1>1 DEF Loading, Placed, Joint, Handled
  <1>3. ASSUME NEW i \in fresh, NEW j \in 1 .. L PROVE sections[j].name # o.sections[i].name
    <2>1. SecsOK(sections) /\ FindSection(sections, o.sections[i].name) = 0 /\ j \in 1 .. Len(sections)
      BY <1>1, <1>2 DEF Loading
    <2>2. sections[j].name = o.sections[i].name => FindSection(sections, o.sections[i].name) = j
      BY <2>1, FindsSection
    <2> QED
      BY <1>2, <2>1, <2>2
  <1>4. \A j \in 1 .. Len(P) : j \in 1 .. L \/ (j > L /\ \E i \in fresh : sm[i].s = j)
    BY <1>2
  <1> QED
    BY <1>1, <1>2, <1>3, <1>4

\* Its names are still one section's each.
LEMMA SectionsStayOK ==
  ASSUME NEW o, NEW found, NEW merged, NEW fresh, NEW sm, NEW rel, NEW map, NEW P, NEW id,
         Loading(o, found, merged, fresh, sm, rel, map, P, id)
  PROVE  SecsOK(P)
PROOF
  <1>1. PICK L : L = Len(sections)
    OBVIOUS
  <1>2. /\ L \in Nat /\ Len(P) \in Nat /\ L <= Len(P)
        /\ merged \in SUBSET DOMAIN o.sections /\ fresh \in SUBSET merged
        /\ \A j \in 1 .. Len(P) : j \in 1 .. L \/ \E i \in fresh : sm[i].s = j
        /\ \A i \in fresh : \A j \in 1 .. L : sections[j].name # o.sections[i].name
    BY <1>1, OldOrNew
  <1>3. /\ L >= 1 /\ sections[1].name = ".text"
        /\ \A i, j \in 1 .. L : sections[i].name = sections[j].name => i = j
        /\ \A j \in 1 .. L : sections[j].type = "rel" <=> IsRelName(sections[j].name)
    BY <1>1 DEF Loading, SecsOK
  <1>4. /\ Sequence(P) /\ \A j \in 1 .. Len(P) : IsSection(P[j])
        /\ \A j \in 1 .. L : P[j].name = sections[j].name /\ P[j].type = sections[j].type
        /\ \A i \in fresh : /\ P[sm[i].s].name = o.sections[i].name
                            /\ P[sm[i].s].type = o.sections[i].type
    BY <1>1, <1>2 DEF Loading, Joint
  <1>5. ASSUME NEW a \in 1 .. Len(P), NEW b \in 1 .. Len(P), P[a].name = P[b].name PROVE a = b
    <2>1. CASE a \in 1 .. L /\ b \in 1 .. L
      BY <1>3, <1>4, <1>5, <2>1
    <2>2. ASSUME NEW i \in fresh, NEW k \in fresh, sm[i].s = a, sm[k].s = b PROVE a = b
      <3>1. o.sections[i].name = o.sections[k].name
        BY <1>4, <1>5, <2>2
      <3>2. i = k
        BY <1>2, <3>1 DEF Loading, ObjectOK
      <3> QED
        BY <2>2, <3>2
    <2>3. ASSUME NEW i \in fresh, NEW c \in 1 .. L, P[sm[i].s].name = P[c].name PROVE FALSE
      BY <1>2, <1>4, <2>3
    <2> QED
      BY <1>2, <1>5, <2>1, <2>2, <2>3
  <1>6. ASSUME NEW i \in fresh PROVE o.sections[i].type = "rel" <=> IsRelName(o.sections[i].name)
    <2>1. i \in DOMAIN o.sections /\ o \in ObjectFiles /\ NamesFit
      BY <1>2 DEF Loading
    <2>2. CASE o.sections[i].type = "rel"
      <3>1. <<o.sections[i].name, Target(o, i).name>> \in Pairs(o)
        BY <2>1, <2>2 DEF Pairs
      <3>2. <<o.sections[i].name, Target(o, i).name>> \in NamePairs
        BY <2>1, <3>1 DEF NamePairs
      <3> QED
        BY <2>2, <3>2 DEF IsRelName
    <2>3. CASE o.sections[i].type # "rel"
      BY <2>1, <2>3 DEF NamesFit
    <2> QED
      BY <2>2, <2>3
  <1>7. ASSUME NEW j \in 1 .. Len(P) PROVE P[j].type = "rel" <=> IsRelName(P[j].name)
    <2>1. CASE j \in 1 .. L
      BY <1>3, <1>4, <2>1
    <2>2. ASSUME NEW i \in fresh, sm[i].s = j PROVE P[j].type = "rel" <=> IsRelName(P[j].name)
      BY <1>4, <1>6, <2>2
    <2> QED
      BY <1>2, <2>1, <2>2
  <1>8. P[1].name = ".text" /\ Len(P) >= 1
    BY <1>2, <1>3, <1>4
  <1> QED
    BY <1>4, <1>5, <1>7, <1>8 DEF SecsOK

\* Pairs of one relocated name are of one name, and the other way round.
LEMMA PairsFit ==
  ASSUME NamesFit, NEW a, NEW b, NEW c, NEW d, <<a, b>> \in NamePairs, <<c, d>> \in NamePairs
  PROVE  a = c <=> b = d
PROOF
  <1>1. PICK s, t : s = <<a, b>> /\ t = <<c, d>>
    OBVIOUS
  <1>2. s[1] = t[1] <=> s[2] = t[2]
    BY <1>1 DEF NamesFit
  <1> QED
    BY <1>1, <1>2

\* A relocation section that was in memory leads where it did, and back.
LEMMA OldTies ==
  ASSUME NEW o, NEW found, NEW merged, NEW fresh, NEW sm, NEW rel, NEW map, NEW P, NEW id,
         Loading(o, found, merged, fresh, sm, rel, map, P, id),
         NEW j \in 1 .. Len(sections), sections[j].type = "rel"
  PROVE  /\ P[j].info = sections[j].info
         /\ sections[j].info \in 1 .. Len(sections)
         /\ P[sections[j].info].reloc = j
PROOF
  <1>1. PICK L : L = Len(sections)
    OBVIOUS
  <1>2. /\ L \in Nat /\ Len(P) \in Nat /\ L <= Len(P)
        /\ merged \in SUBSET DOMAIN o.sections /\ fresh \in SUBSET merged
        /\ \A i \in merged : sm[i].s \in 1 .. Len(P)
        /\ \A i \in fresh : sm[i].s > L /\ \A k \in 1 .. L : sections[k].name # o.sections[i].name
    BY <1>1, OldOrNew
  <1>3. PICK u : u = sections[j].info
    OBVIOUS
  <1>4. u \in 1 .. L /\ sections[u].reloc = j /\ <<sections[j].name, sections[u].name>> \in NamePairs
    BY <1>1, <1>3 DEF Loading, TiesOK
  <1>5. rel \in SUBSET fresh /\ \A i \in rel : o.sections[i].type = "rel"
    BY DEF Loading
  <1>6. P[j].info = u
    <2>1. \A i \in rel : sm[i].s # j
      BY <1>1, <1>2, <1>5
    <2>2. j \in 1 .. Len(P) /\ j <= L
      BY <1>1, <1>2
    <2> QED
      BY <1>1, <1>3, <2>1, <2>2 DEF Loading, Joint
  <1>7. ASSUME NEW i \in rel, sm[o.sections[i].info].s = u PROVE FALSE
    <2>1. i \in merged /\ i \in fresh /\ o.sections[i].type = "rel"
      BY <1>2, <1>5
    <2>2. /\ o.sections[i].info \in merged
          /\ <<o.sections[i].name, Target(o, i).name>> \in NamePairs
      BY <2>1, Targets DEF Loading
    <2>3. P[u].name = Target(o, i).name
      BY <1>7, <2>2 DEF Loading, Joint, Target
    <2>4. P[u].name = sections[u].name
      BY <1>1, <1>4 DEF Loading, Joint
    <2>5. <<o.sections[i].name, sections[u].name>> \in NamePairs
      BY <2>2, <2>3, <2>4
    <2>6. o.sections[i].name = sections[j].name
      BY <1>4, <2>5, PairsFit DEF Loading
    <2> QED
      BY <1>1, <1>2, <2>1, <2>6
  <1>8. P[u].reloc = j
    <2>1. u \in 1 .. Len(P) /\ u <= L
      BY <1>2, <1>4
    <2>2. P[u].reloc = sections[u].reloc
      BY <1>1, <1>7, <2>1 DEF Loading, Joint
    <2> QED
      BY <1>4, <2>2
  <1> QED
    BY <1>1, <1>3, <1>4, <1>6, <1>8

\* Wherever a relocation section of the object went, it leads to where the one
\* it relocates went.
LEMMA LeadsToTarget ==
  ASSUME NEW o, NEW found, NEW merged, NEW fresh, NEW sm, NEW rel, NEW map, NEW P, NEW id,
         Loading(o, found, merged, fresh, sm, rel, map, P, id),
         NEW i \in merged, o.sections[i].type = "rel"
  PROVE  P[sm[i].s].info = sm[o.sections[i].info].s
PROOF
  <1>1. PICK L : L = Len(sections)
    OBVIOUS
  <1>2. /\ L \in Nat
        /\ \A k \in merged : k \notin fresh => /\ sm[k].s \in 1 .. L
                                               /\ sections[sm[k].s].name = o.sections[k].name
        /\ \A k \in fresh : \A j \in 1 .. L : sections[j].name # o.sections[k].name
    BY <1>1, OldOrNew
  <1>3. CASE i \in fresh
    BY <1>3 DEF Loading, Joint
  <1>4. CASE i \notin fresh
    <2>1. PICK j, t : j = sm[i].s /\ t = o.sections[i].info
      OBVIOUS
    <2>2. j \in 1 .. L /\ sections[j].name = o.sections[i].name
      BY <1>2, <1>4, <2>1
    <2>3. sections[j].type = "rel"
      BY <1>4, <2>1 DEF Loading, TypesAgree
    <2>4. PICK u : u = sections[j].info
      OBVIOUS
    <2>5. u \in 1 .. L /\ P[j].info = u
      BY <1>1, <2>2, <2>3, <2>4, OldTies
    <2>6. <<sections[j].name, sections[u].name>> \in NamePairs
      BY <1>1, <2>2, <2>3, <2>4 DEF Loading, TiesOK
    <2>7. /\ t \in merged
          /\ <<o.sections[i].name, o.sections[t].name>> \in NamePairs
      BY <2>1, Targets DEF Loading, Target
    <2>8. sections[u].name = o.sections[t].name
      BY <2>2, <2>6, <2>7, PairsFit DEF Loading
    <2>9. t \notin fresh
      BY <1>2, <2>5, <2>8
    <2>10. sm[t].s \in 1 .. L /\ sections[sm[t].s].name = sections[u].name
      BY <1>2, <2>7, <2>8, <2>9
    <2>11. sm[t].s = u
      BY <1>1, <2>5, <2>10 DEF Loading, SecsOK
    <2> QED
      BY <2>1, <2>5, <2>11
  <1> QED
    BY <1>3, <1>4

LEMMA TiesStayOK ==
  ASSUME NEW o, NEW found, NEW merged, NEW fresh, NEW sm, NEW rel, NEW map, NEW P, NEW id,
         Loading(o, found, merged, fresh, sm, rel, map, P, id)
  PROVE  TiesOK(P)
PROOF
  <1>1. PICK L : L = Len(sections)
    OBVIOUS
  <1>2. /\ L \in Nat /\ Len(P) \in Nat /\ L <= Len(P)
        /\ merged \in SUBSET DOMAIN o.sections /\ fresh \in SUBSET merged
        /\ \A j \in 1 .. Len(P) : j \in 1 .. L \/ (j > L /\ \E i \in fresh : sm[i].s = j)
        /\ \A i \in merged : sm[i].s \in 1 .. Len(P)
        /\ \A i \in fresh : sm[i].s > L
    BY <1>1, OldOrNew
  <1>3. rel = {i \in fresh : o.sections[i].type = "rel"}
    BY DEF Loading
  <1>4. /\ \A j \in 1 .. L : P[j].name = sections[j].name /\ P[j].type = sections[j].type
        /\ \A i \in merged : P[sm[i].s].name = o.sections[i].name /\ P[sm[i].s].type = o.sections[i].type
    BY <1>1 DEF Loading, Joint
  <1>5. ASSUME NEW i \in rel
        PROVE  /\ sm[o.sections[i].info].s \in 1 .. Len(P)
               /\ P[sm[i].s].info = sm[o.sections[i].info].s
               /\ P[sm[i].s].type = "rel" /\ sm[i].s \in 1 .. Len(P)
               /\ P[sm[o.sections[i].info].s].type # "rel"
               /\ P[sm[o.sections[i].info].s].reloc = sm[i].s
               /\ <<P[sm[i].s].name, P[sm[o.sections[i].info].s].name>> \in NamePairs
    <2>1. PICK t : t = o.sections[i].info
      OBVIOUS
    <2>2. i \in merged /\ i \in fresh /\ o.sections[i].type = "rel"
      BY <1>2, <1>3
    <2>3. /\ t \in merged /\ o.sections[t].type # "rel"
          /\ <<o.sections[i].name, o.sections[t].name>> \in NamePairs
      BY <2>1, <2>2, Targets DEF Loading, Target
    <2>4. P[sm[i].s].info = sm[t].s /\ P[sm[t].s].reloc = sm[i].s
      BY <2>1 DEF Loading, Joint
    <2> QED
      BY <1>2, <1>4, <2>1, <2>2, <2>3, <2>4
  <1>6. ASSUME NEW j \in 1 .. L, sections[j].type = "rel"
        PROVE  /\ P[j].info = sections[j].info
               /\ sections[j].info \in 1 .. L
               /\ P[sections[j].info].reloc = j
               /\ P[sections[j].info].type # "rel"
               /\ <<P[j].name, P[sections[j].info].name>> \in NamePairs
    <2>1. /\ P[j].info = sections[j].info
          /\ sections[j].info \in 1 .. L
          /\ P[sections[j].info].reloc = j
      BY <1>1, <1>6, OldTies
    <2>2. /\ sections[sections[j].info].type # "rel"
          /\ <<sections[j].name, sections[sections[j].info].name>> \in NamePairs
      BY <1>1, <1>6 DEF Loading, TiesOK
    <2> QED
      BY <1>4, <2>1, <2>2
  <1>7. ASSUME NEW j \in 1 .. Len(P), P[j].type = "rel"
        PROVE  /\ P[j].info \in 1 .. Len(P)
               /\ P[P[j].info].type # "rel"
               /\ P[P[j].info].reloc = j
               /\ <<P[j].name, P[P[j].info].name>> \in NamePairs
    <2>1. CASE j \in 1 .. L
      <3>1. sections[j].type = "rel"
        BY <1>4, <1>7, <2>1
      <3>2. PICK u : u = sections[j].info
        OBVIOUS
      <3>3. /\ P[j].info = u /\ u \in 1 .. L /\ P[u].reloc = j /\ P[u].type # "rel"
            /\ <<P[j].name, P[u].name>> \in NamePairs
        BY <1>6, <2>1, <3>1, <3>2
      <3> QED
        BY <1>2, <3>3
    <2>2. ASSUME NEW i \in fresh, sm[i].s = j
          PROVE  /\ P[j].info \in 1 .. Len(P)
                 /\ P[P[j].info].type # "rel"
                 /\ P[P[j].info].reloc = j
                 /\ <<P[j].name, P[P[j].info].name>> \in NamePairs
      <3>1. i \in rel
        BY <1>2, <1>3, <1>4, <1>7, <2>2
      <3> QED
        BY <1>5, <2>2, <3>1
    <2> QED
      BY <1>2, <2>1, <2>2
  <1>8. ASSUME NEW j \in 1 .. Len(P), P[j].reloc # 0
        PROVE  /\ P[j].reloc \in 1 .. Len(P)
               /\ P[P[j].reloc].type = "rel"
               /\ P[P[j].reloc].info = j
    <2>1. ASSUME NEW i \in rel, sm[o.sections[i].info].s = j
          PROVE  /\ P[j].reloc \in 1 .. Len(P)
                 /\ P[P[j].reloc].type = "rel"
                 /\ P[P[j].reloc].info = j
      BY <1>5, <2>1
    <2>2. CASE \A i \in rel : sm[o.sections[i].info].s # j
      <3>1. j <= L /\ P[j].reloc = sections[j].reloc
        BY <1>1, <1>8, <2>2 DEF Loading, Joint
      <3>2. PICK r : r = sections[j].reloc
        OBVIOUS
      <3>3. j \in 1 .. L
        BY <1>2, <3>1
      <3>4. r \in 1 .. L /\ sections[r].type = "rel" /\ sections[r].info = j
        BY <1>1, <1>8, <3>1, <3>2, <3>3 DEF Loading, TiesOK
      <3>5. P[r].info = j /\ P[r].type = "rel"
        BY <1>4, <1>6, <3>4
      <3> QED
        BY <1>2, <3>1, <3>2, <3>4, <3>5
    <2> QED
      BY <2>1, <2>2
  <1> QED
    BY <1>7, <1>8 DEF TiesOK

(***************************************************************************)
(* An object in memory: symbols and entries                                *)
(***************************************************************************)
\* What a symbol of the object is in the table.
LEMMA Converts ==
  ASSUME NEW sm, NEW id, NEW o, NEW k \in DOMAIN o.syms
  PROVE  LET c == Converted(sm, id, o)[k]
         IN  /\ c.name = o.syms[k].name /\ c.bind = o.syms[k].bind /\ c.from = id
             /\ o.syms[k].sec = 0 => c.sec = 0
             /\ o.syms[k].sec # 0 => /\ c.sec = sm[o.syms[k].sec].s
                                     /\ c.value = o.syms[k].value + sm[o.syms[k].sec].offset
PROOF
  <1>1. PICK s, x : s = o.syms[k] /\ x = sm[s.sec]
    OBVIOUS
  <1>2. PICK n, b, e, v : /\ n = s.name /\ b = s.bind
                          /\ e = IF s.sec = 0 THEN 0 ELSE x.s
                          /\ v = IF s.sec = 0 THEN 0 ELSE s.value + x.offset
    OBVIOUS
  <1>3. Converted(sm, id, o)[k] = [name |-> n, bind |-> b, from |-> id, sec |-> e, value |-> v]
    BY <1>1, <1>2 DEF Converted, ValueOf
  <1> QED
    BY <1>1, <1>2, <1>3

LEMMA SymsStayOK ==
  ASSUME NEW o, NEW found, NEW merged, NEW fresh, NEW sm, NEW rel, NEW map, NEW P, NEW id,
         NEW T, NEW amap,
         Loading(o, found, merged, fresh, sm, rel, map, P, id), SymsOK(sections, symtab),
         Entered(symtab, Converted(sm, id, o), Kept(sm, o), T, amap)
  PROVE  SymsOK(P, T)
PROOF
  <1>1. PICK L : L = Len(sections)
    OBVIOUS
  <1>2. /\ L \in Nat /\ Len(P) \in Nat /\ L <= Len(P)
        /\ merged \in SUBSET DOMAIN o.sections
        /\ \A i \in merged : sm[i].s \in 1 .. Len(P)
    BY <1>1, OldOrNew
  <1>3. /\ \A j \in 1 .. L : P[j].type = sections[j].type
        /\ \A i \in merged : P[sm[i].s].type = o.sections[i].type
        /\ \A j \in 1 .. L : sections[j].type # "rel" =>
             /\ Len(sections[j].data) <= Len(P[j].data)
             /\ \A k \in 1 .. Len(sections[j].data) : P[j].data[k] = sections[j].data[k]
        /\ \A i \in merged : o.sections[i].type # "rel" =>
             /\ sm[i].offset \in Nat
             /\ \A x \in Nat : x < o.sections[i].size =>
                  /\ sm[i].offset + x < Len(P[sm[i].s].data)
                  /\ P[sm[i].s].data[sm[i].offset + x + 1] = <<id, i, x>>
    BY <1>1 DEF Loading, Joint
  <1>4. ASSUME NEW e, SymOK(sections, e) PROVE SymOK(P, e)
    <2>1. CASE e.sec = 0
      BY <2>1 DEF SymOK
    <2>2. CASE e.sec # 0
      <3>1. PICK j, v : j = e.sec /\ v = e.value
        OBVIOUS
      <3>2. /\ j \in 1 .. L /\ sections[j].type # "rel" /\ v \in Nat
            /\ v < Len(sections[j].data) /\ sections[j].data[v + 1][1] = e.from
        BY <1>1, <1>4, <2>2, <3>1 DEF SymOK
      <3>3. Len(sections[j].data) \in Nat /\ Len(P[j].data) \in Nat
        BY <1>1, <1>2, <3>2, SMTT(30) DEF Loading, SecsOK, IsSection, Joint, Sequence
      <3>4. v + 1 \in 1 .. Len(sections[j].data)
        BY <3>2, <3>3
      <3>5. v < Len(P[j].data) /\ P[j].data[v + 1][1] = e.from
        <4>1. PICK a, b : a = Len(sections[j].data) /\ b = Len(P[j].data)
          OBVIOUS
        <4>2. a \in Nat /\ b \in Nat /\ a <= b /\ v < a
          BY <1>3, <3>2, <3>3, <4>1
        <4>3. v < b
          BY <3>2, <4>2
        <4> QED
          BY <1>3, <3>2, <3>4, <4>1, <4>3
      <3> QED
        BY <1>2, <1>3, <3>1, <3>2, <3>5 DEF SymOK
    <2> QED
      BY <2>1, <2>2
  <1>5. ASSUME NEW k \in Kept(sm, o), NEW c, c = Converted(sm, id, o)[k] PROVE SymOK(P, c)
    <2>1. k \in DOMAIN o.syms /\ (o.syms[k].sec # 0 => sm[o.syms[k].sec].s # 0)
      BY DEF Kept
    <2>2. CASE o.syms[k].sec = 0
      <3>1. c.sec = 0
        BY <1>5, <2>1, <2>2, Converts
      <3> QED
        BY <3>1 DEF SymOK
    <2>3. CASE o.syms[k].sec # 0
      <3>1. PICK s, a : s = o.syms[k] /\ a = s.sec
        OBVIOUS
      <3>2. c.sec = sm[a].s /\ c.value = s.value + sm[a].offset /\ c.from = id
        BY <1>5, <2>1, <2>3, <3>1, Converts
      <3>3. SymbolOK(o, s)
        BY <2>1, <3>1 DEF Loading, ObjectOK
      <3>4. /\ s.value \in Nat /\ a \in DOMAIN o.sections /\ o.sections[a].type # "rel"
            /\ HasContents(o.sections[a]) => s.value < o.sections[a].size
        BY <2>3, <3>1, <3>3 DEF SymbolOK
      <3>5. a \in merged
        BY <2>1, <2>3, <3>1, <3>4 DEF Loading, Placed
      <3>6. HasContents(o.sections[a])
        BY <3>4, <3>5 DEF Loading, Placed, Handled, HasContents
      <3>7. PICK j, f, v : j = sm[a].s /\ f = sm[a].offset /\ v = s.value
        OBVIOUS
      <3>8. /\ f \in Nat /\ v \in Nat /\ f + v < Len(P[j].data)
            /\ P[j].data[f + v + 1] = <<id, a, v>>
        BY <1>3, <3>4, <3>5, <3>6, <3>7
      <3>9. j \in 1 .. Len(P) /\ P[j].type # "rel"
        BY <1>2, <1>3, <3>4, <3>5, <3>7
      <3>10. PICK w : w = f + v
        OBVIOUS
      <3>11. v + f = w /\ w \in Nat
        BY <3>8, <3>10
      <3>12. c.sec = j /\ c.value = w
        BY <3>1, <3>2, <3>7, <3>11
      <3>13. w < Len(P[j].data) /\ P[j].data[w + 1] = <<id, a, v>>
        BY <3>8, <3>10
      <3>14. P[j].data[w + 1][1] = id
        BY <3>13
      <3> QED
        BY <3>2, <3>9, <3>11, <3>12, <3>13, <3>14 DEF SymOK
    <2> QED
      BY <2>2, <2>3
  <1>6. ASSUME NEW i \in 1 .. Len(T) PROVE SymOK(P, T[i])
    <2>1. PICK m : m = Len(symtab)
      OBVIOUS
    <2>2. m \in Nat /\ Len(T) \in Nat
      BY <2>1 DEF SymsOK, Entered, Sequence
    <2>3. CASE i \in 1 .. m
      <3>1. SymOK(sections, symtab[i])
        BY <2>1, <2>3 DEF SymsOK
      <3>2. SymOK(P, symtab[i])
        BY <1>4, <3>1
      <3>3. T[i] = symtab[i] \/ \E k \in Kept(sm, o) : T[i] = Converted(sm, id, o)[k]
        BY <2>1, <2>3 DEF Entered
      <3> QED
        BY <1>5, <3>2, <3>3
    <2>4. CASE i \notin 1 .. m
      <3>1. i > Len(symtab)
        BY <2>1, <2>2, <2>4
      <3>2. \E k \in Kept(sm, o) : T[i] = Converted(sm, id, o)[k]
        BY <3>1 DEF Entered
      <3> QED
        BY <1>5, <3>2
    <2> QED
      BY <2>3, <2>4
  <1> QED
    BY <1>6 DEF SymsOK, Entered

\* An entry that others see is seen under its name, whatever is entered.
LEMMA StaysSeen ==
  ASSUME NEW tab, NEW syms, NEW these, NEW T, NEW map, Sequence(tab), Entered(tab, syms, these, T, map),
         NEW i \in 1 .. Len(tab), tab[i].bind # "local"
  PROVE  i \in 1 .. Len(T) /\ T[i].name = tab[i].name /\ T[i].bind # "local"
PROOF
  <1>1. Len(tab) \in Nat /\ Len(T) \in Nat /\ Len(tab) <= Len(T)
    BY DEF Entered, Sequence
  <1>2. i \in 1 .. Len(T)
    BY <1>1
  <1> QED
    BY <1>2 DEF Entered

LEMMA StaysFound ==
  ASSUME NEW tab, NEW syms, NEW these, NEW T, NEW map, Sequence(tab), Entered(tab, syms, these, T, map)
  PROVE  /\ \A a : find_elf_sym(tab, a) # 0 => find_elf_sym(T, a) # 0
         /\ \A k \in these : syms[k].bind # "local" => find_elf_sym(T, syms[k].name) # 0
PROOF
  <1>1. Sequence(T)
    BY DEF Entered
  <1>2. ASSUME NEW a, find_elf_sym(tab, a) # 0 PROVE find_elf_sym(T, a) # 0
    <2>1. PICK i : i = find_elf_sym(tab, a)
      OBVIOUS
    <2>2. i \in 1 .. Len(tab) /\ tab[i].name = a /\ tab[i].bind # "local"
      BY <1>2, <2>1, Finds
    <2>3. i \in 1 .. Len(T) /\ T[i].name = a /\ T[i].bind # "local"
      BY <2>2, StaysSeen
    <2> QED
      BY <1>1, <2>3, Finds
  <1>3. ASSUME NEW k \in these, syms[k].bind # "local" PROVE find_elf_sym(T, syms[k].name) # 0
    <2>1. map[k] \in 1 .. Len(T) /\ T[map[k]].name = syms[k].name /\ T[map[k]].bind # "local"
      BY <1>3 DEF Entered
    <2> QED
      BY <1>1, <2>1, Finds
  <1> QED
    BY <1>2, <1>3

LEMMA OnceStaysOK ==
  ASSUME NEW o, NEW found, NEW merged, NEW fresh, NEW sm, NEW rel, NEW map, NEW P, NEW id,
         NEW T, NEW amap,
         Loading(o, found, merged, fresh, sm, rel, map, P, id), OnceFits,
         OnceOK(sections, symtab), Sequence(symtab), SecsOK(P),
         Entered(symtab, Converted(sm, id, o), Kept(sm, o), T, amap)
  PROVE  OnceOK(P, T)
PROOF
  <1> SUFFICES ASSUME NEW p \in ObjectFiles, NEW i \in DOMAIN p.sections, p.sections[i].once,
                      FindSection(P, p.sections[i].name) # 0, NEW a \in Globals(p, i)
               PROVE  find_elf_sym(T, a) # 0
    BY DEF OnceOK
  <1>1. PICK L : L = Len(sections)
    OBVIOUS
  <1>2. /\ merged \in SUBSET DOMAIN o.sections /\ fresh \in SUBSET merged
        /\ \A j \in 1 .. Len(P) : j \in 1 .. L \/ (j > L /\ \E k \in fresh : sm[k].s = j)
        /\ \A k \in merged : sm[k].s \in 1 .. Len(P)
    BY <1>1, OldOrNew
  <1>3. PICK n : n = p.sections[i].name
    OBVIOUS
  <1>4. PICK j \in 1 .. Len(P) : P[j].name = n
    BY <1>3, FindsSection
  <1>5. CASE j \in 1 .. L
    <2>1. sections[j].name = n /\ SecsOK(sections) /\ j \in 1 .. Len(sections)
      BY <1>1, <1>4, <1>5 DEF Loading, Joint
    <2>2. FindSection(sections, n) = j
      BY <2>1, FindsSection
    <2>3. FindSection(sections, n) # 0
      BY <1>5, <2>2
    <2>4. find_elf_sym(symtab, a) # 0
      BY <1>3, <2>3 DEF OnceOK
    <2> QED
      BY <2>4, StaysFound
  <1>6. ASSUME NEW k \in fresh, sm[k].s = j PROVE find_elf_sym(T, a) # 0
    <2>1. k \in DOMAIN o.sections /\ o \in ObjectFiles /\ sm[k].s # 0
      BY <1>2, <1>4, <1>6 DEF Loading
    <2>2. o.sections[k].name = p.sections[i].name
      BY <1>2, <1>3, <1>4, <1>6 DEF Loading, Joint
    <2>3. Globals(o, k) = Globals(p, i)
      BY <2>1, <2>2 DEF OnceFits
    <2>4. PICK l \in DOMAIN o.syms : o.syms[l].sec = k /\ o.syms[l].bind # "local" /\ o.syms[l].name = a
      BY <2>3 DEF Globals
    <2>5. l \in Kept(sm, o)
      BY <2>1, <2>4 DEF Kept
    <2>6. Converted(sm, id, o)[l].name = a /\ Converted(sm, id, o)[l].bind # "local"
      BY <2>4, Converts
    <2> QED
      BY <2>5, <2>6, StaysFound
  <1> QED
    BY <1>2, <1>4, <1>5, <1>6

\* Entry m of a table has the name a, and is the object's own if it is local.
IsNamed(T, m, a, id) ==
  m \in 1 .. Len(T) /\ T[m].name = a /\ (T[m].bind = "local" => T[m].from = id)

\* What an entry of the object names is in the table.
LEMMA SymbolsFound ==
  ASSUME NEW o, NEW found, NEW merged, NEW fresh, NEW sm, NEW rel, NEW map, NEW P, NEW id,
         NEW added, NEW i, NEW x, NEW s,
         Loading(o, found, merged, fresh, sm, rel, map, P, id),
         OnceOK(sections, symtab), Sequence(symtab),
         Entered(symtab, Converted(sm, id, o), Kept(sm, o), added.tab, added.map),
         map = old_to_new_syms(sm, added, o), Invalids(sm, map, o) = {},
         i \in merged, x \in DOMAIN o.sections[i].rels, s = o.sections[i].rels[x].sym
  PROVE  IsNamed(added.tab, map[s], o.syms[s].name, id)
PROOF
  <1>1. /\ merged \in SUBSET DOMAIN o.sections
        /\ \A k \in merged : sm[k].s \in 1 .. Len(P)
    BY OldOrNew
  <1>2. i \in DOMAIN sm /\ sm[i].s # 0
    BY <1>1 DEF Loading, Placed
  <1>3. o \in ObjectFiles /\ ObjectOK(o) /\ SectionOK(o, o.sections[i])
    BY <1>1 DEF Loading, ObjectOK
  <1>4. s \in DOMAIN o.syms
    BY <1>3 DEF SectionOK
  <1>5. map[s] = IF s \in Kept(sm, o) THEN added.map[s] ELSE Elsewhere(sm, o, s)
    BY <1>4 DEF old_to_new_syms, Entered
  <1>6. PICK T, m : T = added.tab /\ m = map[s]
    OBVIOUS
  <1>7. CASE s \in Kept(sm, o)
    <2>1. PICK c : c = Converted(sm, id, o)[s]
      OBVIOUS
    <2>2. m = added.map[s]
      BY <1>5, <1>6, <1>7
    <2>3. /\ m \in 1 .. Len(T) /\ T[m].name = c.name
          /\ T[m].bind = "local" => T[m] = c
      BY <1>6, <1>7, <2>1, <2>2 DEF Entered
    <2>4. c.name = o.syms[s].name /\ c.from = id
      BY <1>4, <2>1, Converts
    <2> QED
      BY <1>6, <2>3, <2>4 DEF IsNamed
  <1>8. CASE s \notin Kept(sm, o)
    <2>1. PICK a : a = o.syms[s].sec
      OBVIOUS
    <2>2. a # 0 /\ sm[a].s = 0
      BY <1>4, <1>8, <2>1 DEF Kept
    <2>3. a \in DOMAIN o.sections
      BY <1>3, <1>4, <2>1, <2>2 DEF ObjectOK, SymbolOK
    <2>4. a \notin merged
      BY <1>1, <2>2
    <2>5. m = IF sm[a].link_once /\ o.syms[s].bind # "local" THEN find_elf_sym(symtab, o.syms[s].name) ELSE 0
      BY <1>5, <1>6, <1>8, <2>1 DEF Elsewhere
    <2>6. m # 0
      <3> SUFFICES ASSUME m = 0 PROVE FALSE
        OBVIOUS
      <3>1. LastIsLinkOnce(sm, o)
        <4>1. SUFFICES ASSUME ~LastIsLinkOnce(sm, o) PROVE FALSE
          OBVIOUS
        <4> DEFINE Bad(j) == {l \in DOMAIN o.sections[j].rels :
                                map[o.sections[j].rels[l].sym] = 0 /\ ~LastIsLinkOnce(sm, o)}
        <4>2. Invalids(sm, map, o) = UNION {{<<j, k>> : k \in Bad(j)} : j \in {q \in DOMAIN sm : sm[q].s # 0}}
          BY DEF Invalids
        <4>3. x \in Bad(i)
          BY <1>6, <4>1
        <4> HIDE DEF Bad
        <4>4. <<i, x>> \in {<<i, k>> : k \in Bad(i)}
          BY <4>3
        <4>5. i \in {q \in DOMAIN sm : sm[q].s # 0}
          BY <1>2
        <4>6. <<i, x>> \in Invalids(sm, map, o)
          BY <4>2, <4>4, <4>5, ZenonT(60)
        <4> QED
          BY <4>6
      <3>2. PICK l \in DOMAIN o.syms : o.syms[l].sec # 0 /\ sm[o.syms[l].sec].link_once
        <4> DEFINE D == {k \in DOMAIN o.syms : o.syms[k].sec # 0}
                   last == CHOOSE k \in D : \A q \in D : q <= k
        <4>1. D # {} /\ sm[o.syms[last].sec].link_once
          BY <3>1 DEF LastIsLinkOnce
        <4>2. last \in D
          <5>1. DOMAIN o.syms = 1 .. Len(o.syms) /\ Len(o.syms) \in Nat
            BY <1>3 DEF ObjectOK, Sequence
          <5>2. D \in SUBSET Nat /\ \A q \in D : q <= Len(o.syms)
            BY <5>1
          <5> HIDE DEF D
          <5>3. \E k \in D : \A q \in D : q <= k
            BY <4>1, <5>1, <5>2, Greatest
          <5> QED
            BY <5>3
        <4> QED
          BY <4>1, <4>2
      <3>3. PICK b : b = o.syms[l].sec
        OBVIOUS
      <3>4. b \in DOMAIN o.sections
        BY <1>3, <3>2, <3>3 DEF ObjectOK, SymbolOK
      <3>5. o.sections[b].once
        BY <3>2, <3>3, <3>4 DEF Loading, Placed, IsLinkOnce
      <3>6. Survives(o, o.syms[s])
        BY <1>1, <1>3, <3>4, <3>5 DEF ObjectOK
      <3>7. HasContents(o.sections[a]) /\ (o.sections[a].once => o.syms[s].bind # "local")
        BY <2>1, <2>2, <3>6 DEF Survives
      <3>8. sm[a].link_once /\ IsLinkOnce(found, o, a)
        BY <2>3, <2>4, <3>7 DEF Loading, Placed, Handled, HasContents
      <3>9. o.sections[a].once /\ found[a] # 0 /\ found[a] = FindSection(sections, o.sections[a].name)
        BY <2>3, <3>8 DEF IsLinkOnce, Loading, Placed
      <3>10. o.syms[s].name \in Globals(o, a)
        BY <1>4, <2>1, <3>7, <3>9 DEF Globals
      <3>11. find_elf_sym(symtab, o.syms[s].name) # 0
        BY <1>3, <2>3, <3>9, <3>10 DEF OnceOK
      <3> QED
        BY <2>5, <3>7, <3>8, <3>9, <3>11
    <2>7. m = find_elf_sym(symtab, o.syms[s].name)
      BY <2>5, <2>6
    <2>8. m \in 1 .. Len(symtab) /\ symtab[m].name = o.syms[s].name /\ symtab[m].bind # "local"
      BY <2>6, <2>7, Finds, ZenonT(60)
    <2>9. m \in 1 .. Len(T) /\ T[m].name = o.syms[s].name /\ T[m].bind # "local"
      <3>1. Entered(symtab, Converted(sm, id, o), Kept(sm, o), T, added.map)
        BY <1>6
      <3> QED
        BY <2>8, <3>1, StaysSeen
    <2> QED
      BY <1>6, <2>9 DEF IsNamed
  <1> QED
    BY <1>7, <1>8

LEMMA EntriesStayOK ==
  ASSUME NEW o, NEW found, NEW merged, NEW fresh, NEW sm, NEW rel, NEW map, NEW P, NEW id,
         NEW added, NEW n \in Nat, id = n + 1,
         Loading(o, found, merged, fresh, sm, rel, map, P, id),
         SymsOK(sections, symtab), EntriesOK(sections, symtab, n), OnceOK(sections, symtab),
         Entered(symtab, Converted(sm, id, o), Kept(sm, o), added.tab, added.map),
         map = old_to_new_syms(sm, added, o), Invalids(sm, map, o) = {}
  PROVE  EntriesOK(P, added.tab, id)
PROOF
  <1>1. PICK L, T : L = Len(sections) /\ T = added.tab
    OBVIOUS
  <1>2. /\ L \in Nat /\ Len(P) \in Nat /\ L <= Len(P)
        /\ merged \in SUBSET DOMAIN o.sections
        /\ \A i \in merged : sm[i].s \in 1 .. Len(P)
    BY <1>1, OldOrNew
  <1>3. Sequence(symtab) /\ Entered(symtab, Converted(sm, id, o), Kept(sm, o), T, added.map)
    BY <1>1 DEF SymsOK
  <1>4. ASSUME NEW j \in 1 .. Len(P), P[j].type = "rel", NEW k \in 1 .. Len(P[j].data),
               j <= L, k <= Len(sections[j].data), NEW e, e = P[j].data[k], e = sections[j].data[k]
        PROVE  EntryOK(P[P[j].info], T, id, e)
    <2>1. j \in 1 .. L /\ sections[j].type = "rel"
      BY <1>1, <1>2, <1>4, SMTT(30) DEF Loading, Joint
    <2>2. Len(sections[j].data) \in Nat /\ Len(P[j].data) \in Nat
      BY <1>1, <2>1, SMTT(30) DEF Loading, SecsOK, IsSection, Joint, Sequence
    <2>3. k \in 1 .. Len(sections[j].data)
      BY <1>4, <2>2
    <2>4. PICK u : u = sections[j].info
      OBVIOUS
    <2>5. P[j].info = u /\ u \in 1 .. L
      BY <1>1, <2>1, <2>4, OldTies
    <2>6. sections[u].type # "rel"
      BY <1>1, <2>1, <2>4 DEF Loading, TiesOK
    <2>7. EntryOK(sections[u], symtab, n, e)
      BY <1>1, <1>4, <2>1, <2>3, <2>4 DEF EntriesOK
    <2>8. /\ Len(sections[u].data) <= Len(P[u].data)
          /\ \A l \in 1 .. Len(sections[u].data) : P[u].data[l] = sections[u].data[l]
      BY <1>1, <2>5, <2>6, SMTT(30) DEF Loading, Joint
    <2>9. Len(sections[u].data) \in Nat /\ Len(P[u].data) \in Nat
      BY <1>1, <1>2, <2>5, SMTT(30) DEF Loading, SecsOK, IsSection, Joint, Sequence
    <2>10. PICK f, a, b : f = e.offset /\ a = Len(sections[u].data) /\ b = Len(P[u].data)
      OBVIOUS
    <2>11. f \in Nat /\ f < a /\ a <= b /\ sections[u].data[f + 1] = e.site
      BY <2>7, <2>8, <2>10 DEF EntryOK
    <2>12. f < b /\ f + 1 \in 1 .. a
      <3>1. a \in Nat /\ b \in Nat
        BY <2>9, <2>10
      <3> QED
        BY <2>11, <3>1
    <2>13. P[u].data[f + 1] = e.site
      BY <2>8, <2>10, <2>11, <2>12
    <2>14. e.from \in 1 .. id
      BY <2>7 DEF EntryOK
    <2>15. PICK y : y = e.sym
      OBVIOUS
    <2>16. /\ y \in 1 .. Len(symtab) /\ symtab[y].name = e.name
           /\ symtab[y].bind = "local" => symtab[y].from = e.from
      BY <2>7, <2>15 DEF EntryOK
    <2>17. /\ y \in 1 .. Len(T) /\ T[y].name = e.name
           /\ T[y].bind = "local" => T[y].from = e.from
      <3>1. CASE symtab[y].bind # "local"
        <4>1. y \in 1 .. Len(T) /\ T[y].name = symtab[y].name /\ T[y].bind # "local"
          BY <1>3, <2>16, <3>1, StaysSeen
        <4> QED
          BY <2>16, <4>1
      <3>2. CASE symtab[y].bind = "local"
        <4>1. T[y] = symtab[y]
          BY <1>3, <2>16, <3>2 DEF Entered
        <4>2. Len(symtab) \in Nat /\ Len(T) \in Nat /\ Len(symtab) <= Len(T)
          BY <1>3 DEF Entered, Sequence
        <4>3. y \in 1 .. Len(T)
          BY <2>16, <4>2
        <4> QED
          BY <2>16, <4>1, <4>3
      <3> QED
        BY <3>1, <3>2
    <2> QED
      BY <2>5, <2>10, <2>11, <2>12, <2>13, <2>14, <2>15, <2>17 DEF EntryOK
  <1>5. ASSUME NEW i \in merged, o.sections[i].type = "rel", NEW x \in DOMAIN o.sections[i].rels,
               NEW j, j = sm[i].s, NEW e, e = Moved(sm, map, o, id, i, x)
        PROVE  EntryOK(P[P[j].info], T, id, e)
    <2>1. PICK t, r : t = o.sections[i].info /\ r = o.sections[i].rels[x]
      OBVIOUS
    <2>2. t \in merged /\ o.sections[t].type # "rel"
      BY <1>5, <2>1, Targets DEF Loading, Target
    <2>3. P[j].info = sm[t].s
      BY <1>5, <2>1, LeadsToTarget
    <2>4. /\ r.offset \in Nat /\ r.offset < o.sections[t].size /\ r.sym \in DOMAIN o.syms
      <3>1. SectionOK(o, o.sections[i])
        BY <1>2 DEF Loading, ObjectOK
      <3> QED
        BY <1>5, <2>1, <3>1 DEF SectionOK
    <2>5. PICK u, f, v, y : u = sm[t].s /\ f = sm[t].offset /\ v = r.offset /\ y = r.sym
      OBVIOUS
    <2>6. /\ f \in Nat /\ f + v < Len(P[u].data) /\ P[u].data[f + v + 1] = <<id, t, v>>
      BY <2>2, <2>4, <2>5 DEF Loading, Joint
    <2>7. PICK w, m, z, nth : w = v + f /\ m = map[y] /\ z = o.syms[y].name /\ nth = <<i, x>>
      OBVIOUS
    <2>8. e = [offset |-> w, sym |-> m, from |-> id, nth |-> nth, site |-> <<id, t, v>>, name |-> z]
      BY <1>5, <2>1, <2>5, <2>7 DEF Moved
    <2>9. w \in Nat /\ w < Len(P[u].data) /\ P[u].data[w + 1] = <<id, t, v>>
      <3>1. v \in Nat /\ w = f + v /\ w \in Nat
        BY <2>4, <2>5, <2>6, <2>7
      <3> QED
        BY <2>6, <3>1
    <2>10. /\ m \in 1 .. Len(T) /\ T[m].name = z
           /\ T[m].bind = "local" => T[m].from = id
      <3>1. y = o.sections[i].rels[x].sym
        BY <2>1, <2>5
      <3>2. IsNamed(added.tab, map[y], o.syms[y].name, id)
        BY <1>3, <1>5, <3>1, SymbolsFound
      <3> QED
        BY <1>1, <2>7, <3>2 DEF IsNamed
    <2>11. id \in 1 .. id
      OBVIOUS
    <2> QED
      BY <2>3, <2>5, <2>8, <2>9, <2>10, <2>11 DEF EntryOK
  <1> SUFFICES ASSUME NEW j \in 1 .. Len(P), P[j].type = "rel", NEW k \in 1 .. Len(P[j].data)
               PROVE  EntryOK(P[P[j].info], T, id, P[j].data[k])
    BY <1>1 DEF EntriesOK
  <1>6. \/ j <= L /\ k <= Len(sections[j].data) /\ P[j].data[k] = sections[j].data[k]
        \/ \E i \in merged : /\ o.sections[i].type = "rel" /\ sm[i].s = j
                             /\ \E x \in DOMAIN o.sections[i].rels :
                                  P[j].data[k] = Moved(sm, map, o, id, i, x)
    BY <1>1, SMTT(30) DEF Loading, Joint
  <1> QED
    BY <1>4, <1>5, <1>6

\* Objects whose entries are for other objects.
LEMMA ObjectIsNew ==
  ASSUME NEW n \in Nat, NEW T, EntriesOK(sections, T, n)
  PROVE  OthersEntries(n + 1)
PROOF
  BY DEF EntriesOK, EntryOK, OthersEntries

(***************************************************************************)
(* The inductive invariant, and the steps that change memory               *)
(***************************************************************************)
ImageInv == Sequence(objects) /\ (NoneRefused => Image(sections, symtab, Len(objects)))

\* An object is added to those loaded.
LEMMA ObjectAdded ==
  ASSUME Sequence(objects), NEW b, objects' = Append(objects, b)
  PROVE  /\ Sequence(objects') /\ Len(objects) \in Nat /\ Len(objects') = Len(objects) + 1
         /\ NoneRefused' => NoneRefused /\ b
PROOF
  <1>1. PICK n : n = Len(objects)
    OBVIOUS
  <1>2. /\ Sequence(objects') /\ n \in Nat /\ Len(objects') = n + 1
        /\ DOMAIN objects = 1 .. n /\ DOMAIN objects' = 1 .. n + 1
        /\ \A k \in 1 .. n : objects'[k] = objects[k]
        /\ objects'[n + 1] = b
    BY <1>1, Appending
  <1>3. ASSUME NoneRefused' PROVE NoneRefused /\ b
    <2>1. \A k \in 1 .. n + 1 : objects'[k]
      BY <1>2, <1>3 DEF NoneRefused
    <2>2. n + 1 \in 1 .. n + 1 /\ \A k \in 1 .. n : k \in 1 .. n + 1
      BY <1>2
    <2>3. b
      BY <1>2, <2>1, <2>2, Zenon
    <2>4. \A k \in 1 .. n : objects[k]
      BY <1>2, <2>1, <2>2
    <2> QED
      BY <1>2, <2>3, <2>4 DEF NoneRefused
  <1> QED
    BY <1>1, <1>2, <1>3

\* What a successful load leaves in memory.
LEMMA ObjectJoins ==
  ASSUME FilesWellFormed, NEW n \in Nat, Image(sections, symtab, n), NEW o \in ObjectFiles,
         NEW id, id = n + 1,
         NEW found, found = Found(o), Refused(found, o) = {},
         NEW merged, merged = Merged(found, {}, o),
         NEW fresh, fresh = Fresh(found, merged),
         NEW sm, sm = SectionMerge(found, merged, o),
         NEW rel, rel = {i \in fresh : o.sections[i].type = "rel"},
         NEW added, added = add_elf_syms(symtab, Converted(sm, id, o), Kept(sm, o)),
         NEW map, map = old_to_new_syms(sm, added, o), Invalids(sm, map, o) = {},
         NEW P, P = Patched(MergedSections(sm, fresh, rel, id, o), sm, map, {}, id)
  PROVE  Image(P, added.tab, id)
PROOF
  <1>1. /\ SecsOK(sections) /\ TiesOK(sections) /\ EntriesOK(sections, symtab, n)
        /\ SymsOK(sections, symtab) /\ OnceOK(sections, symtab) /\ Sequence(symtab)
    BY DEF Image, SymsOK
  <1>2. ObjectOK(o) /\ NamesFit /\ OnceFits
    BY DEF FilesWellFormed
  <1>3. Placed(o, found, merged, fresh, sm)
    BY <1>1, <1>2, Places
  <1>4. TypesAgree(o, merged, fresh, sm)
    <2> SUFFICES ASSUME NEW i \in merged, i \notin fresh
                 PROVE  sections[sm[i].s].type = o.sections[i].type
      BY DEF TypesAgree
    <2>1. i \in Handled(o) /\ ~IsLinkOnce(found, o, i) /\ sm[i].s = found[i] /\ found[i] # 0
      <3>1. sm[i].s \in 1 .. Len(sections) + Cardinality(fresh)
        BY <1>3 DEF Placed
      <3> QED
        BY <1>3, <3>1 DEF Placed
    <2> QED
      BY <2>1 DEF Refused
  <1>5. PICK M : M = MergedSections(sm, fresh, rel, id, o)
    OBVIOUS
  <1>6. Grown(M, o, found, merged, fresh, sm, rel, id)
    BY <1>1, <1>2, <1>3, <1>5, Grows
  <1>7. OthersEntries(id)
    BY <1>1, ObjectIsNew
  <1>8. Joint(P, o, merged, fresh, sm, map, rel, id)
    <2>1. P = Patched(M, sm, map, {}, id) /\ rel \in SUBSET fresh
      BY <1>5
    <2> QED
      BY <1>1, <1>2, <1>3, <1>4, <1>6, <1>7, <2>1, Patches
  <1>9. Loading(o, found, merged, fresh, sm, rel, map, P, id)
    BY <1>1, <1>2, <1>3, <1>4, <1>8 DEF Loading
  <1>10. Entered(symtab, Converted(sm, id, o), Kept(sm, o), added.tab, added.map)
    <2>1. PICK m : m = Len(o.syms)
      OBVIOUS
    <2>2. m \in Nat /\ Kept(sm, o) \in SUBSET (1 .. m)
      <3>1. PICK syms : syms = o.syms
        OBVIOUS
      <3>2. Sequence(syms)
        BY <1>2, <3>1 DEF ObjectOK
      <3>3. m \in Nat /\ DOMAIN syms = 1 .. m
        BY ONLY <2>1, <3>1, <3>2 DEF Sequence
      <3> QED
        BY ONLY <3>1, <3>3 DEF Kept
    <2> QED
      BY <1>1, <2>2, Entering
  <1>11. SecsOK(P)
    BY <1>9, SectionsStayOK
  <1>12. TiesOK(P)
    BY <1>9, TiesStayOK
  <1>13. SymsOK(P, added.tab)
    BY <1>1, <1>9, <1>10, SymsStayOK
  <1>14. OnceOK(P, added.tab)
    BY <1>1, <1>2, <1>9, <1>10, <1>11, OnceStaysOK
  <1>15. EntriesOK(P, added.tab, id)
    BY <1>1, <1>9, <1>10, EntriesStayOK
  <1> QED
    BY <1>11, <1>12, <1>13, <1>14, <1>15 DEF Image

\* The three passes, of what is found and merged.
Passes(o, id, found, refused, merged, sm) ==
  LET fresh == Fresh(found, merged)
      rel == {i \in fresh : o.sections[i].type = "rel"}
  IN IF refused # {}
     THEN /\ sections' = MergedSections(sm, fresh, {}, id, o)
          /\ objects' = Append(objects, FALSE)
          /\ UNCHANGED symtab
     ELSE \E added \in {add_elf_syms(symtab, Converted(sm, id, o), Kept(sm, o))} :
          \E map \in {old_to_new_syms(sm, added, o)} : \E bad \in {Invalids(sm, map, o)} :
            /\ sections' = Patched(MergedSections(sm, fresh, rel, id, o), sm, map, bad, id)
            /\ symtab' = added.tab
            /\ objects' = Append(objects, bad = {})

\* tcc_load_object_file.
LEMMA LoadKeeps ==
  ASSUME FilesWellFormed, ImageInv, NEW o \in ObjectFiles, tcc_load_object_file(o)
  PROVE  ImageInv'
PROOF
  <1>1. Sequence(objects)
    BY DEF ImageInv
  <1>2. PICK n, id : n = Len(objects) /\ id = n + 1
    OBVIOUS
  <1>3. PICK found, refused, merged, sm :
          /\ found = Found(o) /\ refused = Refused(found, o)
          /\ merged = Merged(found, refused, o) /\ sm = SectionMerge(found, merged, o)
          /\ Passes(o, id, found, refused, merged, sm)
    <2>1. \E found \in {Found(o)} : \E refused \in {Refused(found, o)} :
          \E merged \in {Merged(found, refused, o)} : \E sm \in {SectionMerge(found, merged, o)} :
            Passes(o, Len(objects) + 1, found, refused, merged, sm)
      BY DEF tcc_load_object_file, Passes
    <2>2. id = Len(objects) + 1
      BY <1>2
    <2>3. PICK found \in {Found(o)} :
            \E refused \in {Refused(found, o)} :
            \E merged \in {Merged(found, refused, o)} : \E sm \in {SectionMerge(found, merged, o)} :
              Passes(o, id, found, refused, merged, sm)
      BY <2>1, <2>2
    <2> QED
      BY <2>3
  <1>4. CASE refused # {}
    <2>1. objects' = Append(objects, FALSE)
      BY <1>3, <1>4 DEF Passes
    <2>2. Sequence(objects') /\ ~NoneRefused'
      BY <1>1, <2>1, ObjectAdded
    <2> QED
      BY <2>2 DEF ImageInv
  <1>5. CASE refused = {}
    <2>0. PICK fresh, rel : /\ fresh = Fresh(found, merged)
                            /\ rel = {i \in fresh : o.sections[i].type = "rel"}
      OBVIOUS
    <2>1. PICK added, map, bad, P :
            /\ added = add_elf_syms(symtab, Converted(sm, id, o), Kept(sm, o))
            /\ map = old_to_new_syms(sm, added, o) /\ bad = Invalids(sm, map, o)
            /\ P = Patched(MergedSections(sm, fresh, rel, id, o), sm, map, bad, id)
            /\ sections' = P /\ symtab' = added.tab
            /\ objects' = Append(objects, bad = {})
      <3>1. PICK added \in {add_elf_syms(symtab, Converted(sm, id, o), Kept(sm, o))} :
              \E map \in {old_to_new_syms(sm, added, o)} : \E bad \in {Invalids(sm, map, o)} :
                /\ sections' = Patched(MergedSections(sm, fresh, rel, id, o), sm, map, bad, id)
                /\ symtab' = added.tab
                /\ objects' = Append(objects, bad = {})
        <4>1. \E added \in {add_elf_syms(symtab, Converted(sm, id, o), Kept(sm, o))} :
              \E map \in {old_to_new_syms(sm, added, o)} : \E bad \in {Invalids(sm, map, o)} :
                /\ sections' = Patched(MergedSections(sm, Fresh(found, merged),
                                          {i \in Fresh(found, merged) : o.sections[i].type = "rel"},
                                          id, o), sm, map, bad, id)
                /\ symtab' = added.tab
                /\ objects' = Append(objects, bad = {})
          BY <1>3, <1>5, Zenon DEF Passes
        <4> QED
          BY <2>0, <4>1
      <3> QED
        BY <3>1
    <2>2. /\ Sequence(objects') /\ n \in Nat /\ Len(objects') = id
          /\ NoneRefused' => NoneRefused /\ bad = {}
      <3>1. PICK b : b = (bad = {})
        OBVIOUS
      <3>2. objects' = Append(objects, b)
        BY <2>1, <3>1
      <3>3. /\ Sequence(objects') /\ Len(objects) \in Nat /\ Len(objects') = Len(objects) + 1
            /\ NoneRefused' => NoneRefused /\ b
        BY <1>1, <3>2, ObjectAdded
      <3> QED
        BY <1>2, <3>1, <3>3
    <2>3. ASSUME NoneRefused' PROVE Image(P, added.tab, id)
      <3>1. Image(sections, symtab, n) /\ bad = {}
        BY <1>2, <2>2, <2>3 DEF ImageInv
      <3>2. merged = Merged(found, {}, o) /\ Refused(found, o) = {}
        BY <1>3, <1>5
      <3> QED
        BY <1>2, <1>3, <2>0, <2>1, <2>2, <3>1, <3>2, ObjectJoins
    <2>4. NoneRefused' => Image(sections', symtab', Len(objects'))
      BY <2>1, <2>2, <2>3
    <2> QED
      BY <2>2, <2>4 DEF ImageInv
  <1> QED
    BY <1>4, <1>5

(***************************************************************************)
(* A compiled unit                                                         *)
(***************************************************************************)
\* Memory after tcc_compile: code behind .text, and an entry behind the
\* relocation section sr of .text, which may be new.
Compiled(P, sr, size, id, e) ==
  /\ Sequence(P) /\ sr \in 2 .. Len(P)
  /\ \/ sections[1].reloc = sr /\ Len(P) = Len(sections)
        /\ P[sr].data = Append(sections[sr].data, e)
     \/ /\ sections[1].reloc = 0 /\ Len(P) = Len(sections) + 1 /\ sr = Len(P)
        /\ P[sr].name = ".rel.text" /\ P[sr].type = "rel" /\ P[sr].info = 1 /\ P[sr].reloc = 0
        /\ P[sr].data = <<e>>
  /\ \A j \in 1 .. Len(P) : IsSection(P[j])
  /\ \A j \in 1 .. Len(sections) :
       /\ P[j].name = sections[j].name /\ P[j].type = sections[j].type /\ P[j].info = sections[j].info
       /\ j # 1 => P[j].reloc = sections[j].reloc
       /\ j # 1 /\ j # sr => P[j].data = sections[j].data
  /\ P[1].reloc = sr /\ P[1].data = sections[1].data \o Cells(id, 1, size)

\* Replacing the contents of a section.
LEMMA Refilled ==
  ASSUME NEW s, NEW d, NEW t, IsSection(s), Sequence(d), t = [s EXCEPT !.data = d]
  PROVE  /\ IsSection(t) /\ t.data = d
         /\ t.name = s.name /\ t.type = s.type /\ t.info = s.info /\ t.reloc = s.reloc
PROOF
  <1>1. PICK n, y, a, c, i, r :
          s = [name |-> n, type |-> y, align |-> a, data |-> c, info |-> i, reloc |-> r]
    BY DEF IsSection
  <1>2. t = [name |-> n, type |-> y, align |-> a, data |-> d, info |-> i, reloc |-> r]
    BY <1>1
  <1> QED
    BY <1>1, <1>2 DEF IsSection

\* Two sections of a sequence are refilled.
BothRefilled(P, S, n, sr, c, e) ==
  /\ Sequence(P) /\ Len(P) = n
  /\ \A j \in 1 .. n :
       /\ IsSection(P[j])
       /\ P[j].name = S[j].name /\ P[j].type = S[j].type
       /\ P[j].info = S[j].info /\ P[j].reloc = S[j].reloc
       /\ j # 1 /\ j # sr => P[j].data = S[j].data
  /\ P[1].data = S[1].data \o c
  /\ P[sr].data = Append(S[sr].data, e)

LEMMA TwoRefilled ==
  ASSUME NEW S, NEW n \in Nat, Sequence(S), Len(S) = n, \A j \in 1 .. n : IsSection(S[j]),
         NEW sr \in 1 .. n, sr # 1, NEW c, Sequence(c), NEW e,
         NEW P, P = [S EXCEPT ![1].data = @ \o c, ![sr].data = Append(@, e)]
  PROVE  BothRefilled(P, S, n, sr, c, e)
PROOF
  <1>1. DOMAIN S = 1 .. n /\ 1 \in 1 .. n
    BY DEF Sequence
  <1>2. PICK d1, d2 : d1 = S[1].data \o c /\ d2 = Append(S[sr].data, e)
    OBVIOUS
  <1>3. Sequence(d1) /\ Sequence(d2)
    <2>1. Sequence(S[1].data) /\ Sequence(S[sr].data)
      BY <1>1 DEF IsSection
    <2> QED
      BY <1>2, <2>1, Behind, Appending
  <1>4. PICK t1, t2 : t1 = [S[1] EXCEPT !.data = d1] /\ t2 = [S[sr] EXCEPT !.data = d2]
    OBVIOUS
  <1>5. P = [j \in 1 .. n |-> IF j = 1 THEN t1 ELSE IF j = sr THEN t2 ELSE S[j]]
    <2>1. PICK Q : Q = [S EXCEPT ![1] = t1]
      OBVIOUS
    <2>2. Q = [S EXCEPT ![1].data = @ \o c]
      BY <1>1, <1>2, <1>4, <2>1
    <2>3. Q = [j \in 1 .. n |-> IF j = 1 THEN t1 ELSE S[j]]
      BY <1>1, <2>1
    <2>4. P = [Q EXCEPT ![sr] = t2]
      <3>1. Q[sr] = S[sr]
        BY <2>3
      <3>2. P = [Q EXCEPT ![sr].data = Append(@, e)]
        BY <2>2
      <3>3. [Q[sr] EXCEPT !.data = Append(@, e)] = t2
        BY <1>2, <1>4, <3>1
      <3> QED
        BY <3>2, <3>3
    <2> QED
      BY <2>3, <2>4
  <1>6. P = [j \in 1 .. n |-> P[j]]
    BY <1>5
  <1>7. Sequence(P) /\ Len(P) = n
    BY <1>6, Listed
  <1>8. /\ IsSection(t1) /\ t1.data = d1
        /\ t1.name = S[1].name /\ t1.type = S[1].type /\ t1.info = S[1].info /\ t1.reloc = S[1].reloc
        /\ IsSection(t2) /\ t2.data = d2
        /\ t2.name = S[sr].name /\ t2.type = S[sr].type /\ t2.info = S[sr].info
        /\ t2.reloc = S[sr].reloc
    <2>1. IsSection(S[1]) /\ IsSection(S[sr])
      BY <1>1
    <2> QED
      BY <1>3, <1>4, <2>1, Refilled
  <1>9. P[1] = t1 /\ P[sr] = t2 /\ \A j \in 1 .. n : j # 1 /\ j # sr => P[j] = S[j]
    BY <1>1, <1>5
  <1>10. \A j \in 1 .. n : j = 1 \/ j = sr \/ P[j] = S[j]
    BY <1>9
  <1> QED
    BY <1>1, <1>2, <1>7, <1>8, <1>9, <1>10 DEF BothRefilled

LEMMA Compiles ==
  ASSUME SecsOK(sections), TiesOK(sections), NamesFit, NEW size \in Nat, NEW id, NEW e,
         NEW sr, sr = IF sections[1].reloc # 0 THEN sections[1].reloc ELSE Len(sections) + 1,
         NEW secs, secs = IF sections[1].reloc # 0 THEN sections
                          ELSE Append([sections EXCEPT ![1].reloc = sr],
                                      [new_section(".rel.text", "rel") EXCEPT !.info = 1]),
         NEW P, P = [secs EXCEPT ![1].data = @ \o Cells(id, 1, size), ![sr].data = Append(@, e)]
  PROVE  Compiled(P, sr, size, id, e)
PROOF
  <1>1. PICK L : L = Len(sections)
    OBVIOUS
  <1>2. /\ Sequence(sections) /\ L \in Nat /\ L >= 1 /\ DOMAIN sections = 1 .. L /\ 1 \in 1 .. L
        /\ \A j \in 1 .. L : IsSection(sections[j])
        /\ sections[1].name = ".text"
        /\ \A j \in 1 .. L : sections[j].type = "rel" <=> IsRelName(sections[j].name)
    BY <1>1, SMTT(30) DEF SecsOK, Sequence
  <1>3. sections[1].type # "rel"
    BY <1>2 DEF NamesFit
  <1>4. PICK c : c = Cells(id, 1, size)
    OBVIOUS
  <1>5. Sequence(c)
    <2>1. c = [k \in 1 .. size |-> c[k]]
      BY <1>4 DEF Cells
    <2> QED
      BY <2>1, Listed
  <1>6. CASE sections[1].reloc # 0
    <2>1. sr \in 1 .. L /\ sections[sr].type = "rel" /\ secs = sections /\ sections[1].reloc = sr
      BY <1>1, <1>2, <1>6, Zenon DEF TiesOK
    <2>2. sr # 1
      BY <1>3, <2>1, Zenon
    <2>3. P = [sections EXCEPT ![1].data = @ \o c, ![sr].data = Append(@, e)]
      BY <1>4, <2>1, Zenon
    <2>4. /\ Sequence(P) /\ Len(P) = L
          /\ \A j \in 1 .. L :
               /\ IsSection(P[j])
               /\ P[j].name = sections[j].name /\ P[j].type = sections[j].type
               /\ P[j].info = sections[j].info /\ P[j].reloc = sections[j].reloc
               /\ j # 1 /\ j # sr => P[j].data = sections[j].data
          /\ P[1].data = sections[1].data \o c
          /\ P[sr].data = Append(sections[sr].data, e)
      <3>1. BothRefilled(P, sections, L, sr, c, e)
        BY <1>1, <1>2, <1>5, <2>1, <2>2, <2>3, TwoRefilled, Zenon
      <3> QED
        BY <3>1, Zenon DEF BothRefilled
    <2>5. sr \in 2 .. L
      BY <1>2, <2>1, <2>2, SMTT(30)
    <2> QED
      BY <1>1, <1>2, <1>4, <2>1, <2>4, <2>5, Zenon DEF Compiled
  <1>7. CASE sections[1].reloc = 0
    <2>1. PICK t, s : /\ t = [sections[1] EXCEPT !.reloc = sr]
                      /\ s = [new_section(".rel.text", "rel") EXCEPT !.info = 1]
      OBVIOUS
    <2>2. sr = L + 1
      BY <1>1, <1>7
    <2>3. s = [name |-> ".rel.text", type |-> "rel", align |-> 4, data |-> <<>>, info |-> 1, reloc |-> 0]
      BY <2>1 DEF new_section
    <2>4. Sequence(<<>>)
      BY SMTT(30) DEF Sequence
    <2>5. IsSection(s)
      BY <2>3, <2>4 DEF IsSection
    <2>6. /\ IsSection(t) /\ t.reloc = sr
          /\ t.name = sections[1].name /\ t.type = sections[1].type /\ t.info = sections[1].info
          /\ t.data = sections[1].data
      <3>1. PICK n, y, a, d, i, r :
              /\ sections[1] = [name |-> n, type |-> y, align |-> a, data |-> d, info |-> i, reloc |-> r]
              /\ Sequence(d)
        BY <1>2 DEF IsSection
      <3>2. t = [name |-> n, type |-> y, align |-> a, data |-> d, info |-> i, reloc |-> sr]
        BY <2>1, <3>1
      <3> QED
        BY <3>1, <3>2 DEF IsSection
    <2>7. PICK Q : Q = [sections EXCEPT ![1].reloc = sr]
      OBVIOUS
    <2>8. Q = [j \in 1 .. L |-> IF j = 1 THEN t ELSE sections[j]]
      BY <1>2, <2>1, <2>7
    <2>9. Sequence(Q) /\ Len(Q) = L
      <3>1. Q = [j \in 1 .. L |-> Q[j]]
        BY <2>8
      <3> QED
        BY <1>2, <3>1, Listed
    <2>10. secs = Append(Q, s)
      BY <1>7, <2>1, <2>7
    <2>11. /\ Sequence(secs) /\ Len(secs) = L + 1
           /\ \A j \in 1 .. L : secs[j] = Q[j]
           /\ secs[L + 1] = s
      <3>1. /\ Sequence(Append(Q, s)) /\ Len(Append(Q, s)) = Len(Q) + 1
            /\ \A j \in 1 .. Len(Q) : Append(Q, s)[j] = Q[j]
            /\ Append(Q, s)[Len(Q) + 1] = s
        BY <2>9, Appending, SMTT(30)
      <3> QED
        BY <2>9, <2>10, <3>1
    <2>12. secs[1] = t /\ secs[sr] = s /\ \A j \in 1 .. L : j # 1 => secs[j] = sections[j]
      BY <1>2, <2>2, <2>8, <2>11
    <2>13. \A j \in 1 .. L + 1 : IsSection(secs[j])
      <3> TAKE j \in 1 .. L + 1
      <3>1. CASE j = 1
        BY <2>6, <2>12, <3>1
      <3>2. CASE j = L + 1
        BY <2>5, <2>11, <3>2
      <3>3. CASE j # 1 /\ j # L + 1
        <4>1. j \in 1 .. L
          BY <1>2, <3>3
        <4> QED
          BY <1>2, <2>12, <3>3, <4>1
      <3> QED
        BY <3>1, <3>2, <3>3
    <2>14. /\ sr \in 1 .. L + 1 /\ sr # 1 /\ L + 1 \in Nat /\ sr \in 2 .. L + 1
      BY <1>2, <2>2
    <2>15. P = [secs EXCEPT ![1].data = @ \o c, ![sr].data = Append(@, e)]
      BY <1>4
    <2>16. /\ Sequence(P) /\ Len(P) = L + 1
           /\ \A j \in 1 .. L + 1 :
                /\ IsSection(P[j])
                /\ P[j].name = secs[j].name /\ P[j].type = secs[j].type
                /\ P[j].info = secs[j].info /\ P[j].reloc = secs[j].reloc
                /\ j # 1 /\ j # sr => P[j].data = secs[j].data
           /\ P[1].data = secs[1].data \o c
           /\ P[sr].data = Append(secs[sr].data, e)
      <3>1. PICK m : m = L + 1
        OBVIOUS
      <3>2. /\ m \in Nat /\ Sequence(secs) /\ Len(secs) = m /\ sr \in 1 .. m
            /\ \A j \in 1 .. m : IsSection(secs[j])
        BY <2>11, <2>13, <2>14, <3>1
      <3>3. BothRefilled(P, secs, m, sr, c, e)
        BY <1>5, <2>14, <2>15, <3>2, TwoRefilled, Zenon
      <3> QED
        BY <3>1, <3>3, Zenon DEF BothRefilled
    <2>17. P[sr].data = <<e>>
      <3>1. Append(<<>>, e) = <<e>>
        BY SMTT(30)
      <3>2. secs[sr].data = <<>>
        BY <2>3, <2>12, SMTT(30)
      <3> QED
        BY <2>16, <3>1, <3>2, Zenon
    <2>18. /\ P[sr].name = ".rel.text" /\ P[sr].type = "rel" /\ P[sr].info = 1 /\ P[sr].reloc = 0
      <3>1. /\ P[sr].name = secs[sr].name /\ P[sr].type = secs[sr].type
            /\ P[sr].info = secs[sr].info /\ P[sr].reloc = secs[sr].reloc
        BY <2>14, <2>16, Zenon
      <3> QED
        <4>1. s.name = ".rel.text" /\ s.type = "rel" /\ s.info = 1 /\ s.reloc = 0
          BY <2>3
        <4>2. secs[sr] = s
          BY <2>12
        <4> QED
          BY <3>1, <4>1, <4>2, ZenonT(60)
    <2>19. /\ P[1].reloc = sr /\ P[1].data = sections[1].data \o c
           /\ P[1].name = sections[1].name /\ P[1].type = sections[1].type
           /\ P[1].info = sections[1].info
      <3>1. 1 \in 1 .. L + 1
        BY <1>2
      <3>2. P[1].reloc = secs[1].reloc /\ P[1].name = secs[1].name /\ P[1].type = secs[1].type
            /\ P[1].info = secs[1].info
        BY <2>16, <3>1, Zenon
      <3> QED
        BY <2>6, <2>12, <2>16, <3>2, Zenon
    <2>20. \A j \in 1 .. L :
             /\ P[j].name = sections[j].name /\ P[j].type = sections[j].type
             /\ P[j].info = sections[j].info
             /\ j # 1 => P[j].reloc = sections[j].reloc
             /\ j # 1 /\ j # sr => P[j].data = sections[j].data
      <3> TAKE j \in 1 .. L
      <3>1. j \in 1 .. L + 1
        BY <1>2
      <3>2. CASE j = 1
        BY <2>19, <3>2, Zenon
      <3>3. CASE j # 1
        BY <2>12, <2>16, <3>1, <3>3, ZenonT(60)
      <3> QED
        BY <3>2, <3>3, Zenon
    <2> QED
      BY <1>1, <1>4, <1>7, <2>2, <2>14, <2>16, <2>17, <2>18, <2>19, <2>20, Zenon DEF Compiled
  <1> QED
    BY <1>6, <1>7, Zenon

\* The symbols and the entry of a compiled unit u of number id.
UnitSyms(u, id, at) ==
  <<[name |-> u.defines, bind |-> "global", sec |-> 1, value |-> at, from |-> id],
    [name |-> u.uses, bind |-> "global", sec |-> 0, value |-> 0, from |-> id]>>
UnitEntry(u, id, at, sym) ==
  [offset |-> at, sym |-> sym, from |-> id, nth |-> <<0, 0>>, site |-> <<id, 1, 0>>, name |-> u.uses]

\* Memory after it is well-formed too.
LEMMA UnitJoins ==
  ASSUME NamesFit, OnceFits, NEW n \in Nat, Image(sections, symtab, n), NEW id, id = n + 1,
         NEW u, u.size \in Nat \ {0}, NEW at, at = Len(sections[1].data),
         NEW added, added = add_elf_syms(symtab, UnitSyms(u, id, at), {1, 2}),
         NEW e, e = UnitEntry(u, id, at, added.map[2]), NEW sr, NEW P, Compiled(P, sr, u.size, id, e)
  PROVE  Image(P, added.tab, id)
PROOF
  <1>1. PICK L, m, T, syms : /\ L = Len(sections) /\ m = Len(P) /\ T = added.tab
                             /\ syms = UnitSyms(u, id, at)
    OBVIOUS
  <1>2. /\ L \in Nat /\ L >= 1 /\ 1 \in 1 .. L /\ sections[1].name = ".text"
        /\ \A i, j \in 1 .. L : sections[i].name = sections[j].name => i = j
        /\ \A j \in 1 .. L : IsSection(sections[j])
        /\ \A j \in 1 .. L : sections[j].type = "rel" <=> IsRelName(sections[j].name)
    BY <1>1 DEF Image, SecsOK, Sequence
  <1>3. /\ TiesOK(sections) /\ EntriesOK(sections, symtab, n) /\ SymsOK(sections, symtab)
        /\ OnceOK(sections, symtab) /\ SecsOK(sections) /\ Sequence(symtab)
    BY DEF Image, SymsOK
  <1>4. /\ Sequence(P) /\ m \in Nat /\ sr \in 2 .. m /\ L <= m
        /\ \A j \in 1 .. m : IsSection(P[j])
        /\ \A j \in 1 .. L :
             /\ P[j].name = sections[j].name /\ P[j].type = sections[j].type
             /\ P[j].info = sections[j].info
             /\ j # 1 => P[j].reloc = sections[j].reloc
             /\ j # 1 /\ j # sr => P[j].data = sections[j].data
        /\ P[1].reloc = sr
        /\ \/ sections[1].reloc = sr /\ m = L /\ P[sr].data = Append(sections[sr].data, e)
           \/ /\ sections[1].reloc = 0 /\ m = L + 1 /\ sr = m
              /\ P[sr].name = ".rel.text" /\ P[sr].type = "rel" /\ P[sr].info = 1 /\ P[sr].reloc = 0
              /\ P[sr].data = <<e>>
    BY <1>1, <1>2, SMTT(30) DEF Compiled, Sequence
  <1>5. \A j \in 1 .. m : j \in 1 .. L \/ (j = sr /\ sr = L + 1)
    BY <1>2, <1>4
  <1>6. <<".rel.text", ".text">> \in NamePairs
    BY DEF NamePairs
  <1>7. sections[1].type # "rel" /\ P[1].type # "rel"
    BY <1>2, <1>4 DEF NamesFit
  <1>8. /\ P[sr].type = "rel" /\ P[sr].info = 1
        /\ sr \in 1 .. L => /\ sections[1].reloc = sr /\ sections[sr].info = 1
                            /\ <<P[sr].name, ".text">> \in NamePairs
    <2>1. CASE sections[1].reloc = sr /\ m = L
      <3>1. sr # 0 /\ sr \in 1 .. L
        BY <1>4, <2>1
      <3>2. sections[sr].type = "rel" /\ sections[sr].info = 1
        BY <1>1, <1>2, <1>3, <2>1, <3>1 DEF TiesOK
      <3>3. <<sections[sr].name, sections[1].name>> \in NamePairs
        BY <1>1, <1>3, <3>1, <3>2 DEF TiesOK
      <3> QED
        BY <1>2, <1>4, <2>1, <3>1, <3>2, <3>3
    <2>2. CASE m = L + 1 /\ sr = m /\ P[sr].type = "rel" /\ P[sr].info = 1
      BY <1>2, <2>2
    <2> QED
      BY <1>4, <2>1, <2>2
  <1>9. ASSUME sr \notin 1 .. L
        PROVE  /\ sr = L + 1 /\ sections[1].reloc = 0 /\ P[sr].name = ".rel.text" /\ P[sr].reloc = 0
               /\ \A j \in 1 .. L : sections[j].name # ".rel.text"
    <2>1. sr = L + 1 /\ sections[1].reloc = 0 /\ P[sr].name = ".rel.text" /\ P[sr].reloc = 0
      BY <1>2, <1>4, <1>9
    <2>2. ASSUME NEW j \in 1 .. L, sections[j].name = ".rel.text" PROVE FALSE
      <3>1. IsRelName(".rel.text")
        BY <1>6 DEF IsRelName
      <3>2. sections[j].type = "rel"
        BY <1>2, <2>2, <3>1
      <3>3. PICK t : t = sections[j].info
        OBVIOUS
      <3>4. t \in 1 .. L /\ sections[t].reloc = j /\ <<sections[j].name, sections[t].name>> \in NamePairs
        BY <1>1, <1>3, <3>2, <3>3 DEF TiesOK
      <3>5. sections[t].name = ".text"
        <4>1. <<".rel.text", sections[t].name>> \in NamePairs
          BY <2>2, <3>4
        <4> QED
          BY <1>6, <4>1, PairsFit
      <3>6. t = 1
        BY <1>2, <3>4, <3>5
      <3> QED
        BY <2>1, <3>4, <3>6
    <2> QED
      BY <2>1, <2>2
  <1>10. SecsOK(P)
    <2>1. ASSUME NEW i \in 1 .. m, NEW j \in 1 .. m, P[i].name = P[j].name PROVE i = j
      <3>1. CASE i \in 1 .. L /\ j \in 1 .. L
        BY <1>2, <1>4, <2>1, <3>1
      <3>2. CASE i \in 1 .. L <=> j \notin 1 .. L
        BY <1>4, <1>5, <1>9, <2>1, <3>2
      <3>3. CASE i \notin 1 .. L /\ j \notin 1 .. L
        BY <1>5, <3>3
      <3> QED
        BY <3>1, <3>2, <3>3
    <2>2. ASSUME NEW j \in 1 .. m PROVE P[j].type = "rel" <=> IsRelName(P[j].name)
      <3>1. CASE j \in 1 .. L
        BY <1>2, <1>4, <3>1
      <3>2. CASE j \notin 1 .. L
        <4>1. P[j].type = "rel" /\ P[j].name = ".rel.text"
          BY <1>5, <1>8, <1>9, <3>2
        <4> QED
          BY <1>6, <4>1 DEF IsRelName
      <3> QED
        BY <3>1, <3>2
    <2>3. m >= 1 /\ P[1].name = ".text"
      BY <1>2, <1>4
    <2> QED
      BY <1>1, <1>4, <2>1, <2>2, <2>3 DEF SecsOK
  <1>11. ASSUME NEW j \in 1 .. L, sections[j].type = "rel"
         PROVE  /\ P[j].info = sections[j].info /\ sections[j].info \in 1 .. L
                /\ P[sections[j].info].reloc = j /\ sections[sections[j].info].type # "rel"
    <2>1. PICK t : t = sections[j].info
      OBVIOUS
    <2>2. t \in 1 .. L /\ sections[t].reloc = j /\ sections[t].type # "rel"
      BY <1>1, <1>3, <1>11, <2>1 DEF TiesOK
    <2>3. P[t].reloc = j
      <3>1. CASE t = 1
        <4>1. sr = j
          BY <1>2, <1>4, <2>2, <3>1
        <4> QED
          BY <1>4, <3>1, <4>1
      <3>2. CASE t # 1
        BY <1>4, <2>2, <3>2
      <3> QED
        BY <3>1, <3>2
    <2> QED
      BY <1>4, <2>1, <2>2, <2>3
  <1>12. TiesOK(P)
    <2>1. ASSUME NEW j \in 1 .. m, P[j].type = "rel"
          PROVE  /\ P[j].info \in 1 .. m
                 /\ P[P[j].info].type # "rel"
                 /\ P[P[j].info].reloc = j
                 /\ <<P[j].name, P[P[j].info].name>> \in NamePairs
      <3>1. CASE j \in 1 .. L
        <4>1. PICK t : t = sections[j].info
          OBVIOUS
        <4>2. sections[j].type = "rel"
          BY <1>4, <2>1, <3>1
        <4>3. P[j].info = t /\ t \in 1 .. L /\ P[t].reloc = j /\ sections[t].type # "rel"
          BY <1>11, <3>1, <4>1, <4>2
        <4>4. <<sections[j].name, sections[t].name>> \in NamePairs
          BY <1>1, <1>3, <3>1, <4>1, <4>2 DEF TiesOK
        <4> QED
          BY <1>2, <1>4, <3>1, <4>3, <4>4, SMTT(30)
      <3>2. CASE j \notin 1 .. L
        <4>1. j = sr /\ P[j].info = 1 /\ P[j].name = ".rel.text"
          BY <1>5, <1>8, <1>9, <3>2
        <4>2. P[1].name = ".text" /\ 1 \in 1 .. m /\ P[1].reloc = sr
          BY <1>2, <1>4
        <4> QED
          BY <1>6, <1>7, <4>1, <4>2
      <3> QED
        BY <3>1, <3>2
    <2>2. ASSUME NEW j \in 1 .. m, P[j].reloc # 0
          PROVE  /\ P[j].reloc \in 1 .. m
                 /\ P[P[j].reloc].type = "rel"
                 /\ P[P[j].reloc].info = j
      <3>1. CASE j = 1
        <4>1. sr \in 1 .. m
          BY <1>4
        <4> QED
          BY <1>4, <1>8, <3>1, <4>1
      <3>2. CASE j # 1
        <4>1. j \in 1 .. L
          BY <1>5, <1>9, <2>2
        <4>2. PICK r : r = sections[j].reloc
          OBVIOUS
        <4>3. P[j].reloc = r /\ r # 0
          BY <1>4, <2>2, <3>2, <4>1, <4>2
        <4>4. r \in 1 .. L /\ sections[r].type = "rel" /\ sections[r].info = j
          <5>1. sections[j].reloc # 0
            BY <4>2, <4>3
          <5>2. /\ sections[j].reloc \in 1 .. L /\ sections[sections[j].reloc].type = "rel"
                /\ sections[sections[j].reloc].info = j
            BY <1>1, <1>3, <4>1, <5>1 DEF TiesOK
          <5> QED
            BY <4>2, <5>2
        <4> QED
          BY <1>2, <1>4, <4>3, <4>4
      <3> QED
        BY <3>1, <3>2
    <2> QED
      BY <1>1, <2>1, <2>2 DEF TiesOK
  <1>13. PICK d, c, size : d = sections[1].data /\ c = Cells(id, 1, size) /\ size = u.size
    OBVIOUS
  <1>14. /\ Sequence(d) /\ at \in Nat /\ at = Len(d) /\ size \in Nat \ {0}
         /\ P[1].data = d \o c
    <2>1. Sequence(sections[1].data)
      BY <1>2 DEF IsSection
    <2>2. Sequence(d) /\ at = Len(d) /\ size \in Nat \ {0}
      BY <1>13, <2>1
    <2>3. Len(d) \in Nat
      BY <2>2 DEF Sequence
    <2>4. P[1].data = sections[1].data \o Cells(id, 1, u.size)
      BY DEF Compiled
    <2>5. P[1].data = d \o c
      BY <1>13, <2>4, Zenon
    <2> QED
      BY <2>2, <2>3, <2>5
  <1>15. /\ Len(P[1].data) = at + size
         /\ \A k \in 1 .. at : P[1].data[k] = d[k]
         /\ P[1].data[at + 1] = <<id, 1, 0>>
    <2>1. c = [k \in 1 .. size |-> <<id, 1, k - 1>>]
      BY <1>13 DEF Cells
    <2>2. Sequence(c) /\ Len(c) = size
      <3>1. c = [k \in 1 .. size |-> c[k]]
        BY <2>1
      <3> QED
        BY <1>14, <3>1, Listed
    <2>3. /\ Len(d \o c) = Len(d) + Len(c)
          /\ \A k \in 1 .. Len(d) : (d \o c)[k] = d[k]
          /\ \A k \in 1 .. Len(c) : (d \o c)[Len(d) + k] = c[k]
      <3>1. Sequence(d) /\ Sequence(c)
        BY <1>14, <2>2
      <3>2. ASSUME NEW s, Sequence(s), NEW t, Sequence(t)
            PROVE  /\ Len(s \o t) = Len(s) + Len(t)
                   /\ \A k \in 1 .. Len(s) : (s \o t)[k] = s[k]
                   /\ \A k \in 1 .. Len(t) : (s \o t)[Len(s) + k] = t[k]
        BY <3>2, Behind
      <3> QED
        BY <3>1, <3>2
    <2>4. 1 \in 1 .. size /\ c[1] = <<id, 1, 0>>
      BY <1>14, <2>1
    <2> QED
      BY <1>14, <2>2, <2>3, <2>4
  <1>16. ASSUME NEW j \in 1 .. L, sections[j].type # "rel"
         PROVE  /\ Len(sections[j].data) \in Nat /\ Len(P[j].data) \in Nat
                /\ Len(sections[j].data) <= Len(P[j].data)
                /\ \A k \in 1 .. Len(sections[j].data) : P[j].data[k] = sections[j].data[k]
    <2>1. Len(sections[j].data) \in Nat /\ j # sr
      <3>1. Sequence(sections[j].data)
        BY <1>2 DEF IsSection
      <3>2. Len(sections[j].data) \in Nat
        BY <3>1 DEF Sequence
      <3>3. P[j].type # "rel" /\ P[sr].type = "rel"
        BY <1>4, <1>8, <1>16
      <3> QED
        BY <3>2, <3>3
    <2>2. CASE j = 1
      <3>1. PICK old, new : old = sections[j].data /\ new = P[j].data
        OBVIOUS
      <3>2. old = d /\ new = P[1].data
        BY <1>13, <2>2, <3>1
      <3>3. Len(old) = at /\ Len(new) = at + size /\ \A k \in 1 .. at : new[k] = old[k]
        BY <1>14, <1>15, <3>2
      <3>4. Len(new) \in Nat /\ Len(old) <= Len(new)
        BY <1>14, <3>3
      <3> QED
        BY <2>1, <3>1, <3>3, <3>4
    <2>3. CASE j # 1
      BY <1>4, <2>1, <2>3
    <2> QED
      BY <2>2, <2>3
  <1>17. Entered(symtab, syms, {1, 2}, T, added.map)
    <2>1. {1, 2} \in SUBSET (1 .. 2)
      OBVIOUS
    <2> QED
      BY <1>1, <1>3, <2>1, Entering
  <1>18. /\ syms[1].sec = 1 /\ syms[1].value = at /\ syms[1].from = id
         /\ syms[2].sec = 0 /\ syms[2].bind # "local" /\ syms[2].name = u.uses
    BY <1>1 DEF UnitSyms
  <1>19. IsNamed(T, added.map[2], u.uses, id)
    BY <1>17, <1>18 DEF Entered, IsNamed
  <1>20. /\ e.offset = at /\ e.sym = added.map[2] /\ e.from = id /\ e.site = <<id, 1, 0>>
         /\ e.name = u.uses
    BY DEF UnitEntry
  <1>21. EntryOK(P[1], T, id, e)
    <2>1. id \in 1 .. id
      OBVIOUS
    <2>2. at < Len(P[1].data)
      BY <1>14, <1>15
    <2> QED
      BY <1>14, <1>15, <1>19, <1>20, <2>1, <2>2 DEF EntryOK, IsNamed
  <1>22. ASSUME NEW j \in 1 .. L, sections[j].type = "rel", NEW k \in 1 .. Len(sections[j].data),
                NEW x, x = sections[j].data[k]
         PROVE  EntryOK(P[P[j].info], T, id, x)
    <2>1. PICK t : t = sections[j].info
      OBVIOUS
    <2>2. P[j].info = t /\ t \in 1 .. L /\ sections[t].type # "rel"
      BY <1>11, <1>22, <2>1
    <2>3. EntryOK(sections[t], symtab, n, x)
      BY <1>1, <1>3, <1>22, <2>1 DEF EntriesOK
    <2>4. PICK f, a, b : f = x.offset /\ a = Len(sections[t].data) /\ b = Len(P[t].data)
      OBVIOUS
    <2>5. /\ f \in Nat /\ f < a /\ sections[t].data[f + 1] = x.site
          /\ x.from \in 1 .. n
      BY <2>3, <2>4 DEF EntryOK
    <2>6. a \in Nat /\ b \in Nat /\ a <= b /\ \A l \in 1 .. a : P[t].data[l] = sections[t].data[l]
      BY <1>16, <2>2, <2>4
    <2>7. f < b /\ f + 1 \in 1 .. a /\ x.from \in 1 .. id
      BY <2>5, <2>6
    <2>8. P[t].data[f + 1] = x.site
      BY <2>5, <2>6, <2>7
    <2>9. PICK y : y = x.sym
      OBVIOUS
    <2>10. /\ y \in 1 .. Len(symtab) /\ symtab[y].name = x.name
           /\ symtab[y].bind = "local" => symtab[y].from = x.from
      BY <2>3, <2>9 DEF EntryOK
    <2>11. /\ y \in 1 .. Len(T) /\ T[y].name = x.name
           /\ T[y].bind = "local" => T[y].from = x.from
      <3>1. CASE symtab[y].bind # "local"
        <4>1. y \in 1 .. Len(T) /\ T[y].name = symtab[y].name /\ T[y].bind # "local"
          BY <1>3, <1>17, <2>10, <3>1, StaysSeen
        <4> QED
          BY <2>10, <4>1
      <3>2. CASE symtab[y].bind = "local"
        <4>1. T[y] = symtab[y]
          BY <1>17, <2>10, <3>2 DEF Entered
        <4>2. Len(symtab) \in Nat /\ Len(T) \in Nat /\ Len(symtab) <= Len(T)
          BY <1>3, <1>17, SMTT(30) DEF Entered, Sequence
        <4>3. y \in 1 .. Len(T)
          BY <2>10, <4>2
        <4> QED
          BY <2>10, <4>1, <4>3
      <3> QED
        BY <3>1, <3>2
    <2> QED
      BY <2>2, <2>4, <2>5, <2>7, <2>8, <2>9, <2>11 DEF EntryOK
  <1>23. EntriesOK(P, T, id)
    <2> SUFFICES ASSUME NEW j \in 1 .. m, P[j].type = "rel", NEW k \in 1 .. Len(P[j].data)
                 PROVE  EntryOK(P[P[j].info], T, id, P[j].data[k])
      BY <1>1 DEF EntriesOK
    <2>1. CASE j # sr
      <3>1. j \in 1 .. L /\ j # 1 /\ sections[j].type = "rel"
        BY <1>4, <1>5, <1>7, <2>1
      <3>2. P[j].data = sections[j].data
        BY <1>4, <2>1, <3>1
      <3> QED
        BY <1>22, <3>1, <3>2
    <2>2. CASE j = sr /\ sr \in 1 .. L
      <3>1. sections[j].type = "rel" /\ P[j].info = 1 /\ Sequence(sections[j].data)
        BY <1>2, <1>4, <1>8, <2>2 DEF IsSection
      <3>2. P[j].data = Append(sections[j].data, e)
        BY <1>2, <1>4, <2>2
      <3>3. PICK old, new, l : old = sections[j].data /\ new = P[j].data /\ l = Len(old)
        OBVIOUS
      <3>4. /\ l \in Nat /\ Len(new) = l + 1
            /\ \A q \in 1 .. l : new[q] = old[q]
            /\ new[l + 1] = e
        BY <3>1, <3>2, <3>3, Appending
      <3>5. CASE k \in 1 .. l
        BY <1>22, <2>2, <3>1, <3>3, <3>4, <3>5
      <3>6. CASE k \notin 1 .. l
        <4>1. k = l + 1
          BY <3>3, <3>4, <3>6
        <4> QED
          BY <1>21, <3>1, <3>3, <3>4, <4>1
      <3> QED
        BY <3>5, <3>6
    <2>3. CASE j = sr /\ sr \notin 1 .. L
      <3>1. P[j].data = <<e>> /\ P[j].info = 1
        BY <1>2, <1>4, <1>8, <2>3
      <3>2. k = 1 /\ P[j].data[1] = e
        BY <3>1
      <3> QED
        BY <1>21, <3>1, <3>2
    <2> QED
      BY <2>1, <2>2, <2>3
  <1>24. SymsOK(P, T)
    <2>1. ASSUME NEW x, SymOK(sections, x) PROVE SymOK(P, x)
      <3>1. CASE x.sec = 0
        BY <3>1 DEF SymOK
      <3>2. CASE x.sec # 0
        <4>1. PICK j, v : j = x.sec /\ v = x.value
          OBVIOUS
        <4>2. /\ j \in 1 .. L /\ sections[j].type # "rel" /\ v \in Nat
              /\ v < Len(sections[j].data) /\ sections[j].data[v + 1][1] = x.from
          BY <1>1, <2>1, <3>2, <4>1 DEF SymOK
        <4>3. PICK a, b : a = Len(sections[j].data) /\ b = Len(P[j].data)
          OBVIOUS
        <4>4. a \in Nat /\ b \in Nat /\ a <= b /\ \A l \in 1 .. a : P[j].data[l] = sections[j].data[l]
          BY <1>16, <4>2, <4>3
        <4>5. v < b /\ v + 1 \in 1 .. a
          BY <4>2, <4>3, <4>4
        <4>6. P[j].data[v + 1][1] = x.from
          BY <4>2, <4>4, <4>5
        <4>7. j \in 1 .. m /\ P[j].type # "rel"
          BY <1>2, <1>4, <4>2
        <4> QED
          BY <1>1, <4>1, <4>2, <4>3, <4>5, <4>6, <4>7 DEF SymOK
      <3> QED
        BY <3>1, <3>2
    <2>2. SymOK(P, syms[1])
      <3>1. /\ 1 \in 1 .. m /\ at < Len(P[1].data) /\ P[1].data[at + 1][1] = id
        BY <1>2, <1>4, <1>14, <1>15
      <3> QED
        BY <1>1, <1>7, <1>14, <1>18, <3>1 DEF SymOK
    <2>3. SymOK(P, syms[2])
      BY <1>18 DEF SymOK
    <2>4. ASSUME NEW i \in 1 .. Len(T) PROVE SymOK(P, T[i])
      <3>1. Len(symtab) \in Nat /\ Len(T) \in Nat
        BY <1>3, <1>17, SMTT(30) DEF Entered, Sequence
      <3>2. CASE i \in 1 .. Len(symtab)
        <4>1. SymOK(P, symtab[i])
          BY <1>3, <2>1, <3>2 DEF SymsOK
        <4>2. T[i] = symtab[i] \/ T[i] = syms[1] \/ T[i] = syms[2]
          BY <1>17, <3>2, SMTT(30) DEF Entered
        <4> QED
          BY <2>2, <2>3, <4>1, <4>2
      <3>3. CASE i \notin 1 .. Len(symtab)
        <4>1. i > Len(symtab)
          BY <3>1, <3>3
        <4>2. T[i] = syms[1] \/ T[i] = syms[2]
          BY <1>17, <4>1, SMTT(30) DEF Entered
        <4> QED
          BY <2>2, <2>3, <4>2
      <3> QED
        BY <3>2, <3>3
    <2> QED
      BY <1>17, <2>4 DEF SymsOK, Entered
  <1>25. OnceOK(P, T)
    <2> SUFFICES ASSUME NEW p \in ObjectFiles, NEW i \in DOMAIN p.sections, p.sections[i].once,
                        FindSection(P, p.sections[i].name) # 0, NEW a \in Globals(p, i)
                 PROVE  find_elf_sym(T, a) # 0
      BY DEF OnceOK
    <2>1. PICK nm : nm = p.sections[i].name
      OBVIOUS
    <2>2. PICK j \in 1 .. m : P[j].name = nm
      BY <1>1, <1>10, <2>1, FindsSection
    <2>3. nm # ".rel.text"
      BY <2>1 DEF OnceFits
    <2>4. j \in 1 .. L /\ sections[j].name = nm
      BY <1>4, <1>5, <1>9, <2>2, <2>3
    <2>5. FindSection(sections, nm) = j
      BY <1>1, <1>3, <2>4, FindsSection
    <2>6. FindSection(sections, nm) # 0
      BY <1>2, <2>4, <2>5
    <2>7. find_elf_sym(symtab, a) # 0
      BY <1>3, <2>1, <2>6 DEF OnceOK
    <2> QED
      BY <1>3, <1>17, <2>7, StaysFound
  <1> QED
    BY <1>1, <1>10, <1>12, <1>23, <1>24, <1>25 DEF Image

\* tcc_compile.
LEMMA CompileKeeps ==
  ASSUME NamesFit, OnceFits, ImageInv, NEW u, u.size \in Nat \ {0}, tcc_compile(u)
  PROVE  ImageInv'
PROOF
  <1>1. PICK n, id, at, e, sr, secs, P, added :
          /\ n = Len(objects) /\ id = n + 1 /\ at = Len(sections[1].data)
          /\ added = add_elf_syms(symtab, UnitSyms(u, id, at), {1, 2})
          /\ e = UnitEntry(u, id, at, added.map[2])
          /\ sr = IF sections[1].reloc # 0 THEN sections[1].reloc ELSE Len(sections) + 1
          /\ secs = IF sections[1].reloc # 0 THEN sections
                    ELSE Append([sections EXCEPT ![1].reloc = sr],
                                [new_section(".rel.text", "rel") EXCEPT !.info = 1])
          /\ P = [secs EXCEPT ![1].data = @ \o Cells(id, 1, u.size), ![sr].data = Append(@, e)]
    OBVIOUS
  <1>2. sections' = P /\ symtab' = added.tab /\ objects' = Append(objects, TRUE)
    BY <1>1 DEF tcc_compile, UnitSyms, UnitEntry
  <1>3. Sequence(objects)
    BY DEF ImageInv
  <1>4. /\ Sequence(objects') /\ n \in Nat /\ Len(objects') = id
        /\ NoneRefused' => NoneRefused
    BY <1>1, <1>2, <1>3, ObjectAdded
  <1>5. ASSUME NoneRefused' PROVE Image(P, added.tab, id)
    <2>1. Image(sections, symtab, n)
      BY <1>1, <1>4, <1>5 DEF ImageInv
    <2>2. SecsOK(sections) /\ TiesOK(sections)
      BY <2>1 DEF Image
    <2>3. Compiled(P, sr, u.size, id, e)
      <3>1. PICK size : size = u.size
        OBVIOUS
      <3>2. size \in Nat
        BY <3>1
      <3>3. P = [secs EXCEPT ![1].data = @ \o Cells(id, 1, size), ![sr].data = Append(@, e)]
        BY <1>1, <3>1
      <3>4. Compiled(P, sr, size, id, e)
        BY <1>1, <2>2, <3>2, <3>3, Compiles, ZenonT(60)
      <3> QED
        BY <3>1, <3>4
    <2>4. /\ id = n + 1 /\ at = Len(sections[1].data)
          /\ added = add_elf_syms(symtab, UnitSyms(u, id, at), {1, 2})
          /\ e = UnitEntry(u, id, at, added.map[2])
      BY <1>1
    <2> QED
      BY <1>4, <2>1, <2>3, <2>4, UnitJoins
  <1> QED
    BY <1>2, <1>4, <1>5 DEF ImageInv

(***************************************************************************)
(* Every step keeps memory well-formed                                     *)
(***************************************************************************)
\* tcc_add_file_internal, called by what stk holds.
LEMMA AddFileKeepsImage ==
  ASSUME FilesWellFormed, ImageInv, NEW path, NEW level, NEW stk,
         tcc_add_file_internal(path, level, stk)
  PROVE  ImageInv'
PROOF
  <1>1. ASSUME UNCHANGED <<sections, symtab, objects>> PROVE ImageInv'
    BY <1>1 DEF ImageInv, NoneRefused, Image, OnceOK
  <1>2. PICK f : f = Files[path]
    OBVIOUS
  <1>3. CASE path \notin DOMAIN Files
    BY <1>1, <1>3 DEF tcc_add_file_internal, data
  <1>4. CASE path \in DOMAIN Files
    <2>1. \/ f.kind = "c" /\ tcc_compile(f)
          \/ f.kind = "object" /\ tcc_load_object_file(f)
          \/ tcc_load_dll(f, level, stk)
          \/ UNCHANGED data
      BY <1>2, <1>4 DEF tcc_add_file_internal
    <2>2. CASE f.kind = "c" /\ tcc_compile(f)
      <3>1. f.size \in Nat \ {0} /\ NamesFit /\ OnceFits
        BY <1>2, <1>4, <2>2 DEF FilesWellFormed
      <3> QED
        BY <2>2, <3>1, CompileKeeps
    <2>3. CASE f.kind = "object" /\ tcc_load_object_file(f)
      <3>1. f \in ObjectFiles
        BY <1>2, <1>4, <2>3 DEF ObjectFiles
      <3> QED
        BY <2>3, <3>1, LoadKeeps
    <2>4. CASE tcc_load_dll(f, level, stk)
      BY <1>1, <2>4 DEF tcc_load_dll
    <2>5. CASE UNCHANGED data
      BY <1>1, <2>5 DEF data
    <2> QED
      BY <2>1, <2>2, <2>3, <2>4, <2>5
  <1> QED
    BY <1>3, <1>4

\* What an archive holds is an object file.
LEMMA MembersAreObjects ==
  ASSUME FilesWellFormed, NEW ar \in Archives
  PROVE  /\ Sequence(ar.members) /\ Sequence(ar.index)
         /\ \A m \in DOMAIN ar.members : ar.members[m] \in ObjectFiles
         /\ \A k \in DOMAIN ar.index : ar.index[k].member \in DOMAIN ar.members
PROOF
  <1>1. ArchiveOK(ar)
    BY DEF FilesWellFormed
  <1>2. \A m \in DOMAIN ar.members : ar.members[m] \in ToSet(ar.members)
    BY DEF ToSet
  <1>3. \A x \in ToSet(ar.members) : x \in ObjectFiles
    BY DEF ObjectFiles
  <1> QED
    BY <1>1, <1>2, <1>3 DEF ArchiveOK

\* Every step of the calls.
LEMMA ImageStep ==
  ASSUME FilesWellFormed, CallsOK(stack), ImageInv, Step
  PROVE  ImageInv'
PROOF
  <1>1. ASSUME UNCHANGED <<sections, symtab, objects>> PROVE ImageInv'
    BY <1>1 DEF ImageInv, NoneRefused, Image, OnceOK
  <1>2. ASSUME UNCHANGED data PROVE ImageInv'
    BY <1>1, <1>2 DEF data
  <1>3. ASSUME stack # <<>>, ThroughArchive(Top)
        PROVE  Top.ar \in Archives /\ Top.i \in Nat
    <2>1. IsCall(Top)
      BY <1>3, Popped
    <2> QED
      BY <1>3, <2>1 DEF IsCall
  <1>4. CASE IndexEntry
    <2>1. CASE UNCHANGED data
      BY <1>2, <2>1
    <2>2. CASE tcc_load_object_file(Top.ar.members[Top.ar.index[Top.i + 1].member])
      <3>1. Runs("tcc_load_alacarte") /\ Top.i < Len(Top.ar.index)
        BY <1>4 DEF IndexEntry
      <3>2. PICK ar, i, m, o : /\ ar = Top.ar /\ i = Top.i /\ m = ar.index[i + 1].member
                               /\ o = ar.members[m]
        OBVIOUS
      <3>3. ar \in Archives /\ i \in Nat /\ i < Len(ar.index)
        BY <1>3, <3>1, <3>2 DEF Runs, ThroughArchive
      <3>4. i + 1 \in DOMAIN ar.index
        BY <3>3, MembersAreObjects DEF Sequence
      <3>5. o \in ObjectFiles
        BY <3>2, <3>3, <3>4, MembersAreObjects
      <3>6. tcc_load_object_file(o)
        BY <2>2, <3>2
      <3> QED
        BY <3>5, <3>6, LoadKeeps
    <2> QED
      BY <1>4, <2>1, <2>2 DEF IndexEntry
  <1>5. CASE MemberNext
    <2>1. /\ Runs("tcc_load_archive") /\ Top.i < Len(Top.ar.members)
          /\ tcc_load_object_file(Top.ar.members[Top.i + 1])
      BY <1>5 DEF MemberNext
    <2>2. PICK ar, i, o : ar = Top.ar /\ i = Top.i /\ o = ar.members[i + 1]
      OBVIOUS
    <2>3. ar \in Archives /\ i \in Nat /\ i < Len(ar.members)
      BY <1>3, <2>1, <2>2 DEF Runs, ThroughArchive
    <2>4. i + 1 \in DOMAIN ar.members
      BY <2>3, MembersAreObjects DEF Sequence
    <2>5. o \in ObjectFiles
      BY <2>2, <2>3, <2>4, MembersAreObjects
    <2>6. tcc_load_object_file(o)
      BY <2>1, <2>2
    <2> QED
      BY <2>5, <2>6, LoadKeeps
  <1>6. CASE SearchNext
    BY <1>6, AddFileKeepsImage DEF SearchNext
  <1>7. CASE ScriptNext
    <2>1. PICK path, next : UNCHANGED data \/ tcc_add_file_internal(path, 0, next)
      BY <1>7 DEF ScriptNext
    <2> QED
      BY <1>2, <2>1, AddFileKeepsImage
  <1>8. CASE IndexEnds
    BY <1>2, <1>8 DEF IndexEnds, Returns
  <1>9. CASE \/ Searched \/ LibraryNext \/ LibraryFound \/ AlacarteFails \/ MembersEnd
             \/ NeededNext \/ NeededEnd \/ ScriptEnds
    BY <1>2, <1>9 DEF Searched, LibraryNext, LibraryFound, AlacarteFails, MembersEnd,
                      NeededNext, NeededEnd, ScriptEnds, Returns
  <1> QED
    BY <1>4, <1>5, <1>6, <1>7, <1>8, <1>9 DEF Step

\* What the user asks for, and steps of others.
LEMMA ImageNext ==
  ASSUME FilesWellFormed, CallsOK(stack), ImageInv, [Next]_vars
  PROVE  ImageInv'
PROOF
  <1>1. ASSUME UNCHANGED <<sections, symtab, objects>> PROVE ImageInv'
    BY <1>1 DEF ImageInv, NoneRefused, Image, OnceOK
  <1>2. CASE Step
    BY <1>2, ImageStep
  <1>3. ASSUME NEW p, tcc_add_file(p) PROVE ImageInv'
    BY <1>3, AddFileKeepsImage DEF tcc_add_file
  <1>4. ASSUME NEW l, tcc_add_library(l) PROVE ImageInv'
    BY <1>1, <1>4 DEF tcc_add_library, data
  <1>5. CASE UNCHANGED vars
    BY <1>1, <1>5 DEF vars
  <1> QED
    BY <1>2, <1>3, <1>4, <1>5 DEF Next

\* The three sections there are at first.
LEMMA ImageInit ==
  ASSUME NamesFit, OnceFits, Init
  PROVE  ImageInv
PROOF
  <1>1. PICK S : S = sections
    OBVIOUS
  <1>2. /\ S = <<new_section(".text", "progbits"), new_section(".data", "progbits"),
                 new_section(".bss", "nobits")>>
        /\ symtab = <<>> /\ objects = <<>>
    BY <1>1 DEF Init
  <1>3. Sequence(<<>>)
    BY DEF Sequence
  <1>4. /\ S[1] = [name |-> ".text", type |-> "progbits", align |-> 32, data |-> <<>>,
                   info |-> 0, reloc |-> 0]
        /\ S[2] = [name |-> ".data", type |-> "progbits", align |-> 32, data |-> <<>>,
                   info |-> 0, reloc |-> 0]
        /\ S[3] = [name |-> ".bss", type |-> "nobits", align |-> 32, data |-> <<>>,
                   info |-> 0, reloc |-> 0]
    BY <1>2 DEF new_section
  <1>5. Len(S) = 3 /\ Sequence(S)
    <2>1. S = [j \in 1 .. 3 |-> S[j]]
      BY <1>2
    <2> QED
      BY <2>1, Listed
  <1>6. \A j \in 1 .. 3 : /\ IsSection(S[j])
                          /\ S[j].type # "rel" /\ S[j].reloc = 0
                          /\ S[j].name \in {".text", ".data", ".bss"}
    <2>1. IsSection(S[1]) /\ IsSection(S[2]) /\ IsSection(S[3])
      BY <1>3, <1>4 DEF IsSection
    <2>2. \A j \in 1 .. 3 : j = 1 \/ j = 2 \/ j = 3
      OBVIOUS
    <2> QED
      BY <1>4, <2>1, <2>2
  <1>7. SecsOK(S)
    <2>1. \A i, j \in 1 .. 3 : S[i].name = S[j].name => i = j
      <3>1. S[1].name = ".text" /\ S[2].name = ".data" /\ S[3].name = ".bss"
        BY <1>4
      <3>2. \A j \in 1 .. 3 : j = 1 \/ j = 2 \/ j = 3
        OBVIOUS
      <3> QED
        BY <3>1, <3>2
    <2>2. \A j \in 1 .. 3 : ~IsRelName(S[j].name)
      BY <1>6 DEF NamesFit
    <2>3. S[1].name = ".text"
      BY <1>4
    <2> QED
      BY <1>5, <1>6, <2>1, <2>2, <2>3 DEF SecsOK
  <1>8. TiesOK(S) /\ EntriesOK(S, symtab, 0)
    BY <1>5, <1>6 DEF TiesOK, EntriesOK
  <1>9. SymsOK(S, symtab)
    BY <1>2, <1>3 DEF SymsOK
  <1>10. OnceOK(S, symtab)
    <2> SUFFICES ASSUME NEW o \in ObjectFiles, NEW i \in DOMAIN o.sections, o.sections[i].once,
                        FindSection(S, o.sections[i].name) # 0
                 PROVE  FALSE
      BY DEF OnceOK
    <2>1. PICK nm : nm = o.sections[i].name
      OBVIOUS
    <2>2. PICK j \in 1 .. 3 : S[j].name = nm
      BY <1>5, <1>7, <2>1, FindsSection
    <2>3. nm \notin {".text", ".data", ".bss"}
      BY <2>1 DEF OnceFits
    <2> QED
      BY <1>6, <2>2, <2>3
  <1>11. Image(sections, symtab, 0)
    BY <1>1, <1>7, <1>8, <1>9, <1>10 DEF Image
  <1> QED
    BY <1>2, <1>3, <1>11 DEF ImageInv

\* What a well-formed memory shows.
LEMMA ImageShows ==
  ASSUME ImageInv
  PROVE  RelocationsStayOnTheirSites
PROOF
  <1> SUFFICES ASSUME NoneRefused
               PROVE  RelocationsStayOnTheirSites
    BY DEF RelocationsStayOnTheirSites
  <1>1. PICK S, T, n : S = sections /\ T = symtab /\ n = Len(objects)
    OBVIOUS
  <1>2. /\ SecsOK(S) /\ TiesOK(S) /\ EntriesOK(S, T, n) /\ SymsOK(S, T)
    BY <1>1 DEF ImageInv, Image
  <1>3. /\ DOMAIN S = 1 .. Len(S) /\ DOMAIN T = 1 .. Len(T)
        /\ \A j \in 1 .. Len(S) : DOMAIN S[j].data = 1 .. Len(S[j].data)
    <2>1. Sequence(S) /\ Sequence(T) /\ \A j \in 1 .. Len(S) : Sequence(S[j].data)
      BY <1>2 DEF SecsOK, SymsOK, IsSection
    <2> QED
      BY <2>1 DEF Sequence
  <1>4. ASSUME NEW j \in DOMAIN S, S[j].type = "rel", NEW k \in DOMAIN S[j].data,
               NEW e, e = S[j].data[k], NEW target, target = S[S[j].info]
        PROVE  /\ e.offset < Len(target.data)
               /\ target.data[e.offset + 1] = e.site
               /\ target.reloc = j
               /\ T[e.sym].name = e.name
               /\ T[e.sym].bind = "local" => T[e.sym].from = e.from
    <2>1. EntryOK(target, T, n, e)
      BY <1>2, <1>3, <1>4 DEF EntriesOK
    <2>2. target.reloc = j
      BY <1>2, <1>3, <1>4 DEF TiesOK
    <2> QED
      BY <2>1, <2>2 DEF EntryOK
  <1>5. ASSUME NEW i \in DOMAIN T, T[i].sec # 0
        PROVE  /\ T[i].value < Len(S[T[i].sec].data)
               /\ S[T[i].sec].data[T[i].value + 1][1] = T[i].from
    <2>1. SymOK(S, T[i])
      BY <1>2, <1>3 DEF SymsOK
    <2> QED
      BY <1>5, <2>1 DEF SymOK
  <1> QED
    BY <1>1, <1>4, <1>5 DEF RelocationsStayOnTheirSites

\* tcc_load_object_file, put_elf_reloc: whatever objects, archive members and
\* compiled units are joined, in whatever order, an entry of a relocation
\* section is at the cell it was made for, names the symbol it was made for, and
\* is found from the section it relocates; a symbol is where it was defined.
THEOREM RelocationsStay ==
  ASSUME FilesWellFormed
  PROVE  Spec => []RelocationsStayOnTheirSites
PROOF
  <1>1. Init => DllInv /\ ImageInv
    BY DllInit, ImageInit DEF FilesWellFormed
  <1>2. DllInv /\ ImageInv /\ [Next]_vars => (DllInv /\ ImageInv)'
    <2>1. DllInv => CallsOK(stack)
      BY DEF DllInv
    <2> QED
      BY <2>1, DllNext, ImageNext
  <1>3. DllInv /\ ImageInv => RelocationsStayOnTheirSites
    BY ImageShows
  <1> QED
    BY <1>1, <1>2, <1>3, PTL DEF Spec

(***************************************************************************)
(* Archives: who defines a name                                            *)
(***************************************************************************)
TableOK(T) ==
  Sequence(T) /\ \A i, j \in 1 .. Len(T) :
    T[i].bind # "local" /\ T[j].bind # "local" /\ T[i].name = T[j].name => i = j

\* These symbols have names of their own.
OneEach(syms, these) ==
  \A k, l \in these :
    syms[k].bind # "local" /\ syms[l].bind # "local" /\ syms[k].name = syms[l].name => k = l

\* What becomes of a table by symbols that have names of their own: entry i stays
\* if nothing takes it; each symbol is new, or takes its entry, or leaves it.
Takes(tab, syms, these, T, map) ==
  /\ \A i \in 1 .. Len(tab) :
       T[i] = tab[i] \/ \E k \in these : map[k] = i /\ GivesWay(tab[i], syms[k]) /\ T[i] = syms[k]
  /\ \A i \in 1 .. Len(T) : i > Len(tab) => \E k \in these : map[k] = i /\ T[i] = syms[k]
  /\ \A k \in these : syms[k].bind # "local" /\ find_elf_sym(tab, syms[k].name) # 0 =>
       /\ map[k] = find_elf_sym(tab, syms[k].name)
       /\ GivesWay(tab[map[k]], syms[k]) => T[map[k]] = syms[k]
  /\ \A k \in these : syms[k].bind = "local" \/ find_elf_sym(tab, syms[k].name) = 0 =>
       map[k] > Len(tab) /\ T[map[k]] = syms[k]

LEMMA Taking ==
  ASSUME NEW tab, Sequence(tab), NEW m \in Nat, NEW syms, NEW these \in SUBSET (1 .. m),
         OneEach(syms, these), NEW res, res = add_elf_syms(tab, syms, these)
  PROVE  Takes(tab, syms, these, res.tab, res.map)
PROOF
  <1> DEFINE At(k) == IF syms[k].bind = "local" THEN 0 ELSE find_elf_sym(tab, syms[k].name)
             New == {k \in these : At(k) = 0}
             Number(k) == IF At(k) # 0 THEN At(k) ELSE Len(tab) + RankIn(New, k)
             Patchers(i) == {k \in these : At(k) = i /\ GivesWay(tab[i], syms[k])}
             n == Len(tab) + Cardinality(New)
             NewSym(i) == syms[CHOOSE k \in New : Number(k) = i]
             PatchOf(i) == syms[CHOOSE k \in Patchers(i) : TRUE]
             T == [i \in 1 .. n |-> IF i > Len(tab) THEN NewSym(i)
                                    ELSE IF Patchers(i) # {} THEN PatchOf(i) ELSE tab[i]]
             map == [k \in these |-> Number(k)]
  <1>1. res = [tab |-> T, map |-> map]
    BY DEF add_elf_syms, RankIn
  <1>2. Len(tab) \in Nat /\ DOMAIN tab = 1 .. Len(tab)
    BY DEF Sequence
  <1>3. New \in SUBSET (1 .. m) /\ New \in SUBSET these /\ \A k \in these : k \in New <=> At(k) = 0
    OBVIOUS
  <1>4. \A k \in these : At(k) # 0 =>
          At(k) \in 1 .. Len(tab) /\ tab[At(k)].name = syms[k].name /\ syms[k].bind # "local"
    BY Finds
  <1>5. \A k \in these : /\ syms[k].bind = "local" => At(k) = 0
                         /\ syms[k].bind # "local" => At(k) = find_elf_sym(tab, syms[k].name)
    OBVIOUS
  <1>6. \A i : \A k : k \in Patchers(i) <=> k \in these /\ At(k) = i /\ GivesWay(tab[i], syms[k])
    OBVIOUS
  <1>7. \A i : Patchers(i) # {} => \E k \in Patchers(i) : PatchOf(i) = syms[k]
    OBVIOUS
  <1>8. \A k \in these : Number(k) = IF At(k) # 0 THEN At(k) ELSE Len(tab) + RankIn(New, k)
    OBVIOUS
  <1>9. \A i : (\E k \in New : Number(k) = i) => \E k \in New : Number(k) = i /\ NewSym(i) = syms[k]
    OBVIOUS
  <1> HIDE DEF At, New, Patchers, Number, PatchOf, NewSym
  <1>10. /\ Cardinality(New) \in Nat
         /\ \A k \in New : RankIn(New, k) \in 1 .. Cardinality(New)
         /\ \A k, l \in New : RankIn(New, k) = RankIn(New, l) => k = l
         /\ \A r \in 1 .. Cardinality(New) : \E k \in New : RankIn(New, k) = r
    BY <1>3, Ranks
  <1>11. n \in Nat /\ Len(tab) <= n
    BY <1>2, <1>10
  <1>12. /\ \A i \in 1 .. n : T[i] = IF i > Len(tab) THEN NewSym(i)
                                     ELSE IF Patchers(i) # {} THEN PatchOf(i) ELSE tab[i]
         /\ T = [i \in 1 .. n |-> T[i]]
         /\ DOMAIN map = these /\ \A k \in these : map[k] = Number(k)
    OBVIOUS
  <1> HIDE DEF T, map
  <1>13. Len(T) = n
    BY <1>11, <1>12, Listed
  <1>14. ASSUME NEW i \in 1 .. Len(tab)
         PROVE  /\ i \in 1 .. n /\ ~ (i > Len(tab)) /\ i # 0
                /\ Patchers(i) = {} => T[i] = tab[i]
                /\ \A k \in Patchers(i) : T[i] = syms[k] /\ map[k] = i
    <2>1. i \in 1 .. n /\ ~ (i > Len(tab)) /\ i # 0
      BY <1>2, <1>11
    <2>2. ASSUME NEW k \in Patchers(i) PROVE T[i] = syms[k] /\ map[k] = i
      <3>1. PICK l \in Patchers(i) : PatchOf(i) = syms[l]
        BY <1>7, <2>2
      <3>2. k \in these /\ l \in these /\ At(k) = i /\ At(l) = i
        BY <1>6, <2>2, <3>1
      <3>3. k = l
        <4>1. syms[k].bind # "local" /\ syms[l].bind # "local" /\ syms[k].name = syms[l].name
          BY <1>4, <2>1, <3>2
        <4> QED
          BY <3>2, <4>1 DEF OneEach
      <3> QED
        BY <1>8, <1>12, <2>1, <2>2, <3>1, <3>2, <3>3
    <2>3. Patchers(i) = {} => T[i] = tab[i]
      BY <1>12, <2>1
    <2> QED
      BY <2>1, <2>2, <2>3
  <1>15. ASSUME NEW k \in New
         PROVE  /\ k \in these /\ map[k] \in 1 .. n /\ map[k] > Len(tab)
                /\ map[k] = Number(k) /\ Number(k) = Len(tab) + RankIn(New, k)
    <2>1. k \in these /\ At(k) = 0
      BY <1>3, <1>15
    <2> QED
      BY <1>2, <1>8, <1>10, <1>12, <2>1
  <1>16. \A k, l \in New : Number(k) = Number(l) => k = l
    <2> TAKE k, l \in New
    <2>1. PICK a, b : a = RankIn(New, k) /\ b = RankIn(New, l)
      OBVIOUS
    <2>2. a \in Nat /\ b \in Nat /\ (Number(k) = Number(l) => Len(tab) + a = Len(tab) + b)
      BY <1>10, <1>15, <2>1
    <2>3. Number(k) = Number(l) => a = b
      BY <1>2, <2>2
    <2> QED
      BY <1>10, <2>1, <2>3
  <1>17. ASSUME NEW k \in New PROVE T[map[k]] = syms[k]
    <2>1. PICK l \in New : Number(l) = Number(k) /\ NewSym(Number(k)) = syms[l]
      BY <1>9, <1>17
    <2>2. l = k
      BY <1>16, <2>1
    <2>3. T[map[k]] = NewSym(map[k])
      BY <1>12, <1>15
    <2> QED
      BY <1>15, <2>1, <2>2, <2>3
  <1>18. \A i \in 1 .. Len(tab) :
           T[i] = tab[i] \/ \E k \in these : map[k] = i /\ GivesWay(tab[i], syms[k]) /\ T[i] = syms[k]
    BY <1>6, <1>14
  <1>19. ASSUME NEW i \in 1 .. n, i > Len(tab) PROVE \E k \in these : map[k] = i /\ T[i] = syms[k]
    <2>1. i - Len(tab) \in 1 .. Cardinality(New)
      BY <1>2, <1>10, <1>19
    <2>2. PICK k \in New : RankIn(New, k) = i - Len(tab)
      BY <1>10, <2>1
    <2>3. map[k] = i /\ k \in these
      BY <1>2, <1>15, <2>2
    <2> QED
      BY <1>17, <2>3
  <1>20. ASSUME NEW k \in these, syms[k].bind # "local", find_elf_sym(tab, syms[k].name) # 0
         PROVE  /\ map[k] = find_elf_sym(tab, syms[k].name)
                /\ GivesWay(tab[map[k]], syms[k]) => T[map[k]] = syms[k]
    <2>1. At(k) # 0 /\ At(k) = find_elf_sym(tab, syms[k].name) /\ map[k] = At(k) /\ At(k) \in 1 .. Len(tab)
      BY <1>4, <1>5, <1>8, <1>12, <1>20
    <2>2. GivesWay(tab[At(k)], syms[k]) => k \in Patchers(At(k))
      BY <1>6
    <2>3. PICK i : i = At(k)
      OBVIOUS
    <2>4. i \in 1 .. Len(tab) /\ (GivesWay(tab[i], syms[k]) => k \in Patchers(i))
      BY <2>1, <2>2, <2>3
    <2> QED
      BY <1>14, <2>1, <2>3, <2>4
  <1>21. \A k \in these : syms[k].bind = "local" \/ find_elf_sym(tab, syms[k].name) = 0 =>
           map[k] > Len(tab) /\ T[map[k]] = syms[k]
    BY <1>3, <1>5, <1>15, <1>17
  <1>22. res.tab = T /\ res.map = map
    BY <1>1
  <1>23. Takes(tab, syms, these, T, map)
    BY <1>13, <1>18, <1>19, <1>20, <1>21 DEF Takes
  <1> QED
    BY <1>22, <1>23

\* A name's only entry is the one that is found.
LEMMA OnlyEntry ==
  ASSUME NEW T, TableOK(T), NEW i \in 1 .. Len(T), T[i].bind # "local"
  PROVE  /\ find_elf_sym(T, T[i].name) = i /\ i # 0
         /\ Undefined(T, T[i].name) <=> T[i].sec = 0
         /\ Defined(T, T[i].name) <=> T[i].sec # 0
PROOF
  <1>1. Sequence(T)
    BY DEF TableOK
  <1>2. PICK n, f : n = T[i].name /\ f = find_elf_sym(T, n)
    OBVIOUS
  <1>3. f # 0
    BY <1>1, <1>2, Finds
  <1>4. f \in 1 .. Len(T) /\ T[f].name = n /\ T[f].bind # "local"
    BY <1>1, <1>2, <1>3, Finds
  <1>5. f = i
    BY <1>2, <1>4 DEF TableOK
  <1> QED
    BY <1>2, <1>3, <1>5 DEF Undefined, Defined

\* Of an entry that is found all this is so.
LEMMA FoundEntry ==
  ASSUME NEW T, Sequence(T), NEW n, find_elf_sym(T, n) # 0
  PROVE  \E i \in 1 .. Len(T) : /\ T[i].name = n /\ T[i].bind # "local" /\ i = find_elf_sym(T, n)
                                /\ Undefined(T, n) <=> T[i].sec = 0
                                /\ Defined(T, n) <=> T[i].sec # 0
PROOF
  BY Finds DEF Undefined, Defined

\* What happens to names when symbols are entered.
Tells(tab, T, used, given) ==
  /\ \A a : Defined(tab, a) => Defined(T, a)
  /\ \A a : find_elf_sym(tab, a) # 0 => find_elf_sym(T, a) # 0
  /\ \A a \in used : find_elf_sym(T, a) # 0
  /\ \A a \in given : Defined(T, a)
  /\ \A a : Undefined(T, a) => Undefined(tab, a) \/ (a \in used /\ ~Defined(tab, a))
  /\ \A a : Defined(T, a) => Defined(tab, a) \/ a \in given

UsedOf(syms, these) == {syms[k].name : k \in {l \in these : syms[l].sec = 0}}
GivenOf(syms, these) == {syms[k].name : k \in {l \in these : syms[l].sec # 0 /\ syms[l].bind # "local"}}

\* Names that others see keep one entry each.
LEMMA StaysTable ==
  ASSUME NEW tab, TableOK(tab), NEW syms, NEW these, OneEach(syms, these), NEW T, NEW map,
         Entered(tab, syms, these, T, map), Takes(tab, syms, these, T, map)
  PROVE  TableOK(T)
PROOF
  <1>1. Sequence(tab) /\ Sequence(T) /\ Len(tab) \in Nat /\ Len(T) \in Nat /\ Len(tab) <= Len(T)
    BY DEF TableOK, Entered, Sequence
  <1>2. ASSUME NEW i \in 1 .. Len(T), NEW j \in 1 .. Len(T), T[i].bind # "local", T[j].bind # "local",
               T[i].name = T[j].name, i <= Len(tab), j > Len(tab)
        PROVE  FALSE
    <2>1. PICK k \in these : map[k] = j /\ T[j] = syms[k]
      BY <1>2 DEF Takes
    <2>2. i \in 1 .. Len(tab)
      BY <1>1, <1>2
    <2>3. tab[i].bind # "local" /\ T[i].name = tab[i].name
      BY <1>2, <2>2 DEF Entered
    <2>4. find_elf_sym(tab, syms[k].name) = i
      BY <1>2, <2>1, <2>2, <2>3, OnlyEntry
    <2>5. i # 0 /\ syms[k].bind # "local"
      BY <1>2, <2>1, <2>2
    <2>6. map[k] = i
      BY <2>4, <2>5 DEF Takes
    <2> QED
      BY <1>1, <1>2, <2>1, <2>2, <2>6
  <1>3. ASSUME NEW i \in 1 .. Len(T), NEW j \in 1 .. Len(T), T[i].bind # "local", T[j].bind # "local",
               T[i].name = T[j].name, i <= Len(tab), j <= Len(tab)
        PROVE  i = j
    <2>1. i \in 1 .. Len(tab) /\ j \in 1 .. Len(tab)
      BY <1>1, <1>3
    <2>2. /\ tab[i].bind # "local" /\ T[i].name = tab[i].name
          /\ tab[j].bind # "local" /\ T[j].name = tab[j].name
      BY <1>3, <2>1 DEF Entered
    <2> QED
      BY <1>3, <2>1, <2>2 DEF TableOK
  <1>4. ASSUME NEW i \in 1 .. Len(T), NEW j \in 1 .. Len(T), T[i].bind # "local", T[j].bind # "local",
               T[i].name = T[j].name, i > Len(tab), j > Len(tab)
        PROVE  i = j
    <2>1. PICK k \in these : map[k] = i /\ T[i] = syms[k]
      BY <1>4 DEF Takes
    <2>2. PICK l \in these : map[l] = j /\ T[j] = syms[l]
      BY <1>4 DEF Takes
    <2>3. k = l
      BY <1>4, <2>1, <2>2 DEF OneEach
    <2> QED
      BY <2>1, <2>2, <2>3
  <1>5. ASSUME NEW i \in 1 .. Len(T), NEW j \in 1 .. Len(T), T[i].bind # "local", T[j].bind # "local",
               T[i].name = T[j].name
        PROVE  i = j
    <2>1. (i <= Len(tab) \/ i > Len(tab)) /\ (j <= Len(tab) \/ j > Len(tab))
      BY <1>1
    <2> QED
      BY <1>2, <1>3, <1>4, <1>5, <2>1
  <1> QED
    BY <1>1, <1>5 DEF TableOK

LEMMA EntryStays ==
  ASSUME NEW tab, TableOK(tab), NEW syms, NEW these, OneEach(syms, these), NEW T, NEW map,
         Entered(tab, syms, these, T, map), Takes(tab, syms, these, T, map),
         NEW i \in 1 .. Len(tab), tab[i].bind # "local"
  PROVE  /\ i \in 1 .. Len(T) /\ T[i].bind # "local" /\ T[i].name = tab[i].name
         /\ T[i].sec = 0 => tab[i].sec = 0
         /\ T[i].sec # 0 => tab[i].sec # 0 \/ T[i].name \in GivenOf(syms, these)
PROOF
  <1>1. Sequence(tab) /\ i \in 1 .. Len(T) /\ T[i].name = tab[i].name /\ T[i].bind # "local"
    BY StaysSeen DEF TableOK
  <1>2. CASE T[i] = tab[i]
    BY <1>1, <1>2
  <1>3. ASSUME NEW k \in these, map[k] = i, GivesWay(tab[i], syms[k]), T[i] = syms[k]
        PROVE  /\ T[i].sec = 0 => tab[i].sec = 0
               /\ T[i].sec # 0 => T[i].name \in GivenOf(syms, these)
    BY <1>1, <1>3 DEF GivesWay, GivenOf
  <1> QED
    BY <1>1, <1>2, <1>3 DEF Takes

LEMMA EnteringTells ==
  ASSUME NEW tab, TableOK(tab), NEW syms, NEW these, OneEach(syms, these), NEW T, NEW map,
         Entered(tab, syms, these, T, map), Takes(tab, syms, these, T, map),
         \A k \in these : syms[k].sec = 0 => syms[k].bind # "local"
  PROVE  Tells(tab, T, UsedOf(syms, these), GivenOf(syms, these))
PROOF
  <1>1. Sequence(tab) /\ TableOK(T) /\ Sequence(T)
    BY StaysTable DEF TableOK
  <1>2. Len(tab) \in Nat /\ Len(T) \in Nat /\ Len(tab) <= Len(T)
    BY <1>1 DEF Entered, Sequence
  <1>3. \A a : find_elf_sym(tab, a) # 0 => find_elf_sym(T, a) # 0
    BY <1>1, StaysFound
  <1>4. \A a \in UsedOf(syms, these) : find_elf_sym(T, a) # 0
    BY <1>1, StaysFound DEF UsedOf
  <1>5. ASSUME NEW a, Defined(tab, a) PROVE Defined(T, a)
    <2>1. PICK i \in 1 .. Len(tab) : tab[i].name = a /\ tab[i].bind # "local" /\ tab[i].sec # 0
      BY <1>1, <1>5, FoundEntry DEF Defined
    <2>2. i \in 1 .. Len(T) /\ T[i].bind # "local" /\ T[i].name = a /\ T[i].sec # 0
      BY <2>1, EntryStays
    <2> QED
      BY <1>1, <2>2, OnlyEntry
  <1>6. ASSUME NEW a \in GivenOf(syms, these) PROVE Defined(T, a)
    <2>1. PICK k \in these : syms[k].sec # 0 /\ syms[k].bind # "local" /\ syms[k].name = a
      BY <1>6 DEF GivenOf
    <2>2. PICK m : m = map[k]
      OBVIOUS
    <2>3. m \in 1 .. Len(T) /\ T[m].name = a /\ T[m].bind # "local"
      BY <2>1, <2>2 DEF Entered
    <2>4. T[m].sec # 0
      <3>1. CASE find_elf_sym(tab, a) = 0
        BY <2>1, <2>2, <3>1 DEF Takes
      <3>2. CASE find_elf_sym(tab, a) # 0
        <4>1. m = find_elf_sym(tab, a) /\ (GivesWay(tab[m], syms[k]) => T[m] = syms[k])
          BY <2>1, <2>2, <3>2 DEF Takes
        <4>2. m \in 1 .. Len(tab) /\ tab[m].bind # "local"
          BY <1>1, <3>2, <4>1, Finds
        <4>3. tab[m].sec = 0 => T[m].sec # 0
          BY <2>1, <4>1 DEF GivesWay
        <4> QED
          BY <4>2, <4>3, EntryStays
      <3> QED
        BY <3>1, <3>2
    <2> QED
      BY <1>1, <2>3, <2>4, OnlyEntry
  <1>7. ASSUME NEW a, find_elf_sym(T, a) # 0
        PROVE  /\ Undefined(T, a) => Undefined(tab, a) \/ (a \in UsedOf(syms, these) /\ ~Defined(tab, a))
               /\ Defined(T, a) => Defined(tab, a) \/ a \in GivenOf(syms, these)
    <2>1. PICK i \in 1 .. Len(T) : /\ T[i].name = a /\ T[i].bind # "local"
                                   /\ Undefined(T, a) <=> T[i].sec = 0
                                   /\ Defined(T, a) <=> T[i].sec # 0
      BY <1>1, <1>7, FoundEntry
    <2>2. CASE i <= Len(tab)
      <3>1. i \in 1 .. Len(tab) /\ tab[i].name = a /\ tab[i].bind # "local"
        <4>1. i \in 1 .. Len(tab)
          BY <1>2, <2>2
        <4> QED
          BY <2>1, <4>1 DEF Entered
      <3>2. (Undefined(tab, a) <=> tab[i].sec = 0) /\ (Defined(tab, a) <=> tab[i].sec # 0)
        BY <3>1, OnlyEntry
      <3> QED
        BY <2>1, <3>1, <3>2, EntryStays
    <2>3. CASE i > Len(tab)
      <3>1. PICK k \in these : map[k] = i /\ T[i] = syms[k]
        BY <2>3 DEF Takes
      <3>2. find_elf_sym(tab, a) = 0
        <4>1. find_elf_sym(tab, a) # 0 => find_elf_sym(tab, a) \in 1 .. Len(tab)
          BY <1>1, Finds
        <4>2. find_elf_sym(tab, a) # 0 => i = find_elf_sym(tab, a)
          BY <2>1, <3>1 DEF Takes
        <4> QED
          BY <1>2, <2>3, <4>1, <4>2
      <3>3. ~Defined(tab, a)
        BY <3>2 DEF Defined
      <3> QED
        BY <2>1, <3>1, <3>3 DEF UsedOf, GivenOf
    <2> QED
      BY <1>2, <2>2, <2>3
  <1>8. \A a : Undefined(T, a) \/ Defined(T, a) => find_elf_sym(T, a) # 0
    BY DEF Undefined, Defined
  <1> QED
    BY <1>3, <1>4, <1>5, <1>6, <1>7, <1>8 DEF Tells

(***************************************************************************)
(* Archives: names of sections, refused objects included                   *)
(***************************************************************************)
IsNamedSec(s) == {"name", "type"} \subseteq DOMAIN s
SecsNamed(S) ==
  Sequence(S) /\ \A j \in 1 .. Len(S) : IsNamedSec(S[j]) /\ <<S[j].name, S[j].type>> \in NameTypes

\* Joining and tying leave a section's name and type alone.
LEMMA KeepsName ==
  ASSUME NEW s, IsNamedSec(s), NEW sm, NEW id, NEW o, NEW i, NEW I, NEW R
  PROVE  /\ LET t == JoinedAs(s, sm, id, o, i) IN IsNamedSec(t) /\ t.name = s.name /\ t.type = s.type
         /\ LET t == TiedAs(s, I, R) IN IsNamedSec(t) /\ t.name = s.name /\ t.type = s.type
PROOF
  <1>1. PICK t, x, y : t = JoinedAs(s, sm, id, o, i) /\ t = [s EXCEPT !.align = x, !.data = y]
    BY Zenon DEF JoinedAs
  <1>2. PICK r, u, v : r = TiedAs(s, I, R) /\ r = [s EXCEPT !.info = u, !.reloc = v]
    BY Zenon DEF TiedAs
  <1>3. IsNamedSec(t) /\ t.name = s.name /\ t.type = s.type
    BY ONLY IsNamedSec(s), <1>1 DEF IsNamedSec
  <1>4. IsNamedSec(r) /\ r.name = s.name /\ r.type = s.type
    BY ONLY IsNamedSec(s), <1>2 DEF IsNamedSec
  <1> QED
    BY <1>1, <1>2, <1>3, <1>4

\* Each section in memory was there before or is new with the object.
NamesFrom(P, o, fresh, sm) ==
  /\ Sequence(P)
  /\ \A j \in 1 .. Len(P) :
       /\ IsNamedSec(P[j])
       /\ \/ /\ j \in 1 .. Len(sections)
             /\ P[j].name = sections[j].name /\ P[j].type = sections[j].type
          \/ \E i \in fresh : /\ sm[i].s = j
                              /\ P[j].name = o.sections[i].name /\ P[j].type = o.sections[i].type

LEMMA MergedNames ==
  ASSUME SecsNamed(sections), NEW o, ObjectOK(o), NEW found, NEW merged \in SUBSET DOMAIN o.sections,
         NEW fresh, fresh = Fresh(found, merged), NEW sm, sm = SectionMerge(found, merged, o),
         NEW tied, NEW id, NEW M, M = MergedSections(sm, fresh, tied, id, o)
  PROVE  NamesFrom(M, o, fresh, sm)
PROOF
  <1>1. PICK L, C : L = Len(sections) /\ C = Cardinality(fresh)
    OBVIOUS
  <1>2. fresh \in SUBSET merged /\ \A i \in fresh : found[i] = 0
    BY DEF Fresh
  <1>3. PICK m \in Nat : m = Len(o.sections)
    BY DEF ObjectOK, Sequence
  <1>4. DOMAIN o.sections = 1 .. m
    BY <1>3 DEF ObjectOK, Sequence
  <1>5. fresh \in SUBSET (1 .. m)
    BY <1>2, <1>4
  <1>6. /\ C \in Nat
        /\ \A k \in fresh : RankIn(fresh, k) \in 1 .. C
        /\ \A r \in 1 .. C : \E k \in fresh : RankIn(fresh, k) = r
    <2>1. PICK N : N = fresh
      OBVIOUS
    <2>2. N \in SUBSET (1 .. m)
      BY <1>5, <2>1
    <2>3. /\ Cardinality(N) \in Nat
          /\ \A k \in N : RankIn(N, k) \in 1 .. Cardinality(N)
          /\ \A r \in 1 .. Cardinality(N) : \E k \in N : RankIn(N, k) = r
      BY <2>2, Ranks
    <2> QED
      BY <1>1, <2>1, <2>3
  <1>7. L \in Nat
    BY <1>1 DEF SecsNamed, Sequence
  <1>8. \A i \in fresh : sm[i].s = L + RankIn(fresh, i)
    <2> TAKE i \in fresh
    <2>1. i \in DOMAIN o.sections /\ i \in merged /\ found[i] = 0
      BY <1>2
    <2>2. sm[i] = [s |-> IF found[i] # 0 THEN found[i]
                         ELSE Len(sections) + Cardinality({k \in Fresh(found, merged) : k <= i}),
                   offset |-> End(Len(Contents(found[i])), o.sections[i]), link_once |-> FALSE]
      BY <2>1 DEF SectionMerge
    <2>3. sm[i].s = Len(sections) + Cardinality({k \in Fresh(found, merged) : k <= i})
      BY <2>1, <2>2
    <2> QED
      BY <1>1, <2>3 DEF RankIn
  <1>9. M = [j \in 1 .. L + C |->
               TiedAs(IF Sources(sm, j) = {} THEN Fore(fresh, sm, o, j)
                      ELSE JoinedAs(Fore(fresh, sm, o, j), sm, id, o, CHOOSE i \in Sources(sm, j) : TRUE),
                      InfoOf(sm, tied, o, j), RelocOf(sm, tied, o, j))]
    BY <1>1, MergedFrom
  <1>10. L + C \in Nat
    BY <1>6, <1>7
  <1>11. Sequence(M) /\ Len(M) = L + C
    <2>1. M = [j \in 1 .. L + C |-> M[j]]
      BY <1>9
    <2> QED
      BY <1>10, <2>1, Listed
  <1>12. ASSUME NEW j \in 1 .. L + C, IsNamedSec(Fore(fresh, sm, o, j))
         PROVE  /\ IsNamedSec(M[j])
                /\ M[j].name = Fore(fresh, sm, o, j).name /\ M[j].type = Fore(fresh, sm, o, j).type
    <2>1. PICK s, i, I, R, t : /\ s = Fore(fresh, sm, o, j) /\ i = (CHOOSE k \in Sources(sm, j) : TRUE)
                               /\ I = InfoOf(sm, tied, o, j) /\ R = RelocOf(sm, tied, o, j)
                               /\ t = IF Sources(sm, j) = {} THEN s ELSE JoinedAs(s, sm, id, o, i)
      OBVIOUS
    <2>2. IsNamedSec(s) /\ M[j] = TiedAs(t, I, R)
      BY <1>9, <1>12, <2>1
    <2>3. IsNamedSec(t) /\ t.name = s.name /\ t.type = s.type
      BY <2>1, <2>2, KeepsName
    <2>4. PICK r : r = TiedAs(t, I, R)
      OBVIOUS
    <2>5. IsNamedSec(r) /\ r.name = t.name /\ r.type = t.type
      BY <2>3, <2>4, KeepsName
    <2> QED
      BY <2>1, <2>2, <2>3, <2>4, <2>5
  <1>13. ASSUME NEW j \in 1 .. L + C, j <= L
         PROVE  /\ IsNamedSec(M[j]) /\ j \in 1 .. L
                /\ M[j].name = sections[j].name /\ M[j].type = sections[j].type
    <2>1. j \in 1 .. L
      BY <1>7, <1>10, <1>13
    <2>2. Fore(fresh, sm, o, j) = sections[j]
      BY <1>1, <1>13 DEF Fore
    <2>3. IsNamedSec(sections[j])
      BY <1>1, <2>1 DEF SecsNamed
    <2> QED
      BY <1>12, <2>1, <2>2, <2>3
  <1>14. ASSUME NEW j \in 1 .. L + C, j > L
         PROVE  /\ IsNamedSec(M[j])
                /\ \E i \in fresh : /\ sm[i].s = j
                                    /\ M[j].name = o.sections[i].name /\ M[j].type = o.sections[i].type
    <2>1. j - L \in 1 .. C
      BY <1>6, <1>7, <1>14
    <2>2. PICK k \in fresh : RankIn(fresh, k) = j - L
      BY <1>6, <2>1
    <2>3. sm[k].s = j
      BY <1>7, <1>8, <2>2
    <2>4. PICK i : i = (CHOOSE l \in fresh : sm[l].s = j)
      OBVIOUS
    <2>5. i \in fresh /\ sm[i].s = j
      BY <2>3, <2>4
    <2>6. PICK n, y, a : n = o.sections[i].name /\ y = o.sections[i].type /\ a = o.sections[i].align
      OBVIOUS
    <2>7. Fore(fresh, sm, o, j) = [new_section(n, y) EXCEPT !.align = a]
      <3>1. ~ (j <= L)
        BY <1>7, <1>14
      <3> QED
        BY <1>1, <2>4, <2>6, <3>1 DEF Fore
    <2>8. Fore(fresh, sm, o, j) = [name |-> n, type |-> y, align |-> a, data |-> <<>>, info |-> 0, reloc |-> 0]
      BY <2>7 DEF new_section
    <2>9. IsNamedSec(Fore(fresh, sm, o, j)) /\ Fore(fresh, sm, o, j).name = n /\ Fore(fresh, sm, o, j).type = y
      BY <2>8 DEF IsNamedSec
    <2> QED
      BY <1>12, <2>5, <2>6, <2>9
  <1>15. \A j \in 1 .. Len(M) : j <= L \/ j > L
    BY <1>7, <1>11
  <1> QED
    BY <1>1, <1>11, <1>13, <1>14, <1>15 DEF NamesFrom

\* The third pass leaves names and types alone.
LEMMA PatchedNames ==
  ASSUME NEW M, NEW o, NEW fresh, NEW sm, NamesFrom(M, o, fresh, sm), NEW s2, NEW map, NEW bad, NEW id,
         NEW P, P = Patched(M, s2, map, bad, id)
  PROVE  NamesFrom(P, o, fresh, sm)
PROOF
  <1>1. DOMAIN M = 1 .. Len(M) /\ Len(M) \in Nat
    BY DEF NamesFrom, Sequence
  <1>2. DOMAIN P = DOMAIN M /\ P = [j \in DOMAIN M |-> P[j]]
    BY DEF Patched
  <1>3. \A j \in DOMAIN M : P[j] = M[j] \/ \E x : P[j] = [M[j] EXCEPT !.data = x]
    BY Zenon DEF Patched
  <1>4. Sequence(P) /\ Len(P) = Len(M)
    <2>1. P = [j \in 1 .. Len(M) |-> P[j]]
      BY <1>1, <1>2
    <2> QED
      BY <1>1, <2>1, Listed
  <1>5. ASSUME NEW j \in 1 .. Len(M)
        PROVE  IsNamedSec(P[j]) /\ P[j].name = M[j].name /\ P[j].type = M[j].type
    <2>1. IsNamedSec(M[j])
      BY DEF NamesFrom
    <2>2. ASSUME NEW s, NEW t, NEW x, IsNamedSec(s), t = [s EXCEPT !.data = x]
          PROVE  IsNamedSec(t) /\ t.name = s.name /\ t.type = s.type
      BY <2>2 DEF IsNamedSec
    <2>3. CASE P[j] = M[j]
      BY <2>1, <2>3
    <2>4. CASE \E x : P[j] = [M[j] EXCEPT !.data = x]
      <3>1. PICK x : P[j] = [M[j] EXCEPT !.data = x]
        BY <2>4
      <3> QED
        BY <2>1, <2>2, <3>1, Zenon
    <2> QED
      BY <1>1, <1>3, <2>3, <2>4
  <1> QED
    BY <1>4, <1>5 DEF NamesFrom

\* What a link-once section in memory defines is defined.
OnceTells(S, T) ==
  \A o \in ObjectFiles : \A i \in DOMAIN o.sections :
    o.sections[i].once /\ (\E j \in 1 .. Len(S) : S[j].name = o.sections[i].name) =>
      \A a \in Globals(o, i) : Defined(T, a)

TellInv == SecsNamed(sections) /\ TableOK(symtab) /\ OnceTells(sections, symtab)

\* A section of the name is found if there is one.
LEMMA FindsAny ==
  ASSUME NEW S, Sequence(S), NEW a
  PROVE  /\ FindSection(S, a) # 0 => FindSection(S, a) \in 1 .. Len(S) /\ S[FindSection(S, a)].name = a
         /\ \A j \in 1 .. Len(S) : S[j].name = a => FindSection(S, a) # 0
PROOF
  <1>1. DOMAIN S = 1 .. Len(S) /\ Len(S) \in Nat
    BY DEF Sequence
  <1> DEFINE hits == {j \in DOMAIN S : S[j].name = a}
             first == CHOOSE j \in hits : \A k \in hits : j <= k
  <1>2. FindSection(S, a) = IF hits = {} THEN 0 ELSE first
    BY DEF FindSection
  <1>3. hits \in SUBSET Nat /\ \A j : j \in hits <=> j \in 1 .. Len(S) /\ S[j].name = a
    BY <1>1
  <1>4. hits # {} => \E j \in hits : \A k \in hits : j <= k
    <2> HIDE DEF hits
    <2> QED
      BY <1>3, Least
  <1>5. hits # {} => first \in hits
    BY <1>4
  <1> HIDE DEF hits, first
  <1> QED
    BY <1>1, <1>2, <1>3, <1>5

\* Sections that are merged have a place, others none.
LEMMA PlacesMerged ==
  ASSUME Sequence(sections), NEW o, ObjectOK(o), NEW found, NEW merged \in SUBSET DOMAIN o.sections,
         NEW sm, sm = SectionMerge(found, merged, o), NEW i \in DOMAIN o.sections
  PROVE  sm[i].s # 0 <=> i \in merged
PROOF
  <1>1. PICK f : f = found[i]
    OBVIOUS
  <1>2. CASE i \notin merged
    <2>1. PICK b : sm[i] = [s |-> 0, offset |-> 0, link_once |-> b]
      BY <1>2 DEF SectionMerge
    <2> QED
      BY <1>2, <2>1
  <1>3. CASE i \in merged /\ f # 0
    <2>1. PICK x, b : sm[i] = [s |-> f, offset |-> x, link_once |-> b]
      BY <1>1, <1>3 DEF SectionMerge
    <2> QED
      BY <1>3, <2>1
  <1>4. CASE i \in merged /\ f = 0
    <2>1. PICK N : N = Fresh(found, merged)
      OBVIOUS
    <2>2. PICK x, b : sm[i] = [s |-> Len(sections) + RankIn(N, i), offset |-> x, link_once |-> b]
      BY <1>1, <1>4, <2>1 DEF SectionMerge, RankIn
    <2>3. PICK m \in Nat : DOMAIN o.sections = 1 .. m
      BY DEF ObjectOK, Sequence
    <2>4. i \in N /\ N \in SUBSET (1 .. m)
      BY <1>1, <1>4, <2>1, <2>3 DEF Fresh
    <2>5. RankIn(N, i) \in 1 .. Cardinality(N) /\ Cardinality(N) \in Nat
      BY <2>4, Ranks
    <2>6. PICK r, L : r = RankIn(N, i) /\ L = Len(sections)
      OBVIOUS
    <2>7. r \in Nat /\ r # 0 /\ L \in Nat
      BY <2>5, <2>6 DEF Sequence
    <2>8. L + r # 0
      BY <2>7
    <2> QED
      BY <1>4, <2>2, <2>6, <2>8
  <1> QED
    BY <1>2, <1>3, <1>4

\* With new sections, if what link-once ones among them define is defined.
LEMMA OnceTellsOn ==
  ASSUME OnceFits, OnceTells(sections, symtab), NEW o \in ObjectFiles,
         NEW fresh \in SUBSET DOMAIN o.sections, NEW sm, NEW P, NamesFrom(P, o, fresh, sm),
         NEW T, \A a : Defined(symtab, a) => Defined(T, a),
         \A i \in fresh : o.sections[i].once => \A a \in Globals(o, i) : sm[i].s # 0 => Defined(T, a)
  PROVE  OnceTells(P, T)
PROOF
  <1> SUFFICES ASSUME NEW p \in ObjectFiles, NEW i \in DOMAIN p.sections, p.sections[i].once,
                      NEW j \in 1 .. Len(P), P[j].name = p.sections[i].name, NEW a \in Globals(p, i)
               PROVE  Defined(T, a)
    BY DEF OnceTells
  <1>1. CASE j \in 1 .. Len(sections) /\ P[j].name = sections[j].name
    <2>1. Defined(symtab, a)
      BY <1>1 DEF OnceTells
    <2> QED
      BY <2>1
  <1>2. ASSUME NEW k \in fresh, sm[k].s = j, P[j].name = o.sections[k].name PROVE Defined(T, a)
    <2>1. k \in DOMAIN o.sections /\ o.sections[k].name = p.sections[i].name
      BY <1>2
    <2>2. o.sections[k].once /\ Globals(o, k) = Globals(p, i)
      BY <2>1 DEF OnceFits
    <2>3. j # 0
      OBVIOUS
    <2> QED
      BY <1>2, <2>2, <2>3
  <1> QED
    BY <1>1, <1>2 DEF NamesFrom

\* Each of them has a name and a type of those known.
LEMMA NamedStay ==
  ASSUME SecsNamed(sections), NEW o \in ObjectFiles, NEW fresh \in SUBSET DOMAIN o.sections, NEW sm,
         NEW P, NamesFrom(P, o, fresh, sm)
  PROVE  SecsNamed(P)
PROOF
  <1>1. \A i \in DOMAIN o.sections : <<o.sections[i].name, o.sections[i].type>> \in NameTypes
    BY DEF NameTypes
  <1>2. ASSUME NEW j \in 1 .. Len(P) PROVE <<P[j].name, P[j].type>> \in NameTypes
    <2>1. CASE j \in 1 .. Len(sections) /\ P[j].name = sections[j].name /\ P[j].type = sections[j].type
      BY <2>1 DEF SecsNamed
    <2>2. CASE \E i \in fresh : P[j].name = o.sections[i].name /\ P[j].type = o.sections[i].type
      BY <1>1, <2>2
    <2> QED
      BY <2>1, <2>2 DEF NamesFrom
  <1> QED
    BY <1>2 DEF SecsNamed, NamesFrom

\* An object with link-once sections is not refused half-way.
LEMMA NotHalf ==
  ASSUME SecsNamed(sections), NEW o \in ObjectFiles, TellsNames(o), Refused(Found(o), o) # {},
         NEW k \in DOMAIN o.sections
  PROVE  ~o.sections[k].once
PROOF
  <1>1. PICK i \in DOMAIN o.sections : /\ Found(o)[i] # 0
                                       /\ sections[Found(o)[i]].type # o.sections[i].type
    BY DEF Refused, Handled
  <1>2. PICK j : j = FindSection(sections, o.sections[i].name)
    OBVIOUS
  <1>3. j # 0 /\ sections[j].type # o.sections[i].type
    BY <1>1, <1>2 DEF Found
  <1>4. j \in 1 .. Len(sections) /\ sections[j].name = o.sections[i].name
    BY <1>2, <1>3, FindsAny DEF SecsNamed
  <1>5. <<sections[j].name, sections[j].type>> \in NameTypes
    BY <1>4 DEF SecsNamed
  <1>6. PICK t \in NameTypes : t[1] = sections[j].name /\ t[2] = sections[j].type
    BY <1>5
  <1> QED
    BY <1>3, <1>4, <1>6 DEF TellsNames

(***************************************************************************)
(* Archives: what loading an object tells                                  *)
(***************************************************************************)
UsedBy(o) == {s.name : s \in {t \in ToSet(o.syms) : t.sec = 0}}

\* The symbols that are entered have names of their own; they are what the object
\* uses, and of what it defines all that is not defined already.
LEMMA KeptSymbols ==
  ASSUME SecsNamed(sections), OnceTells(sections, symtab), NEW o \in ObjectFiles, ObjectOK(o),
         TellsNames(o), NEW found, found = Found(o), NEW merged,
         merged = {i \in Handled(o) : ~IsLinkOnce(found, o, i)},
         NEW sm, sm = SectionMerge(found, merged, o), NEW id,
         NEW syms, syms = Converted(sm, id, o), NEW these, these = Kept(sm, o)
  PROVE  /\ these \in SUBSET DOMAIN o.syms
         /\ OneEach(syms, these)
         /\ \A k \in these : syms[k].sec = 0 => syms[k].bind # "local"
         /\ UsedOf(syms, these) = UsedBy(o)
         /\ GivenOf(syms, these) \subseteq GlobalsOf(o)
         /\ \A a \in GlobalsOf(o) : a \in GivenOf(syms, these) \/ Defined(symtab, a)
         /\ \A i \in DOMAIN o.sections : \A a \in Globals(o, i) : sm[i].s # 0 => a \in GivenOf(syms, these)
PROOF
  <1>1. these \in SUBSET DOMAIN o.syms
    BY DEF Kept
  <1>2. \A k \in DOMAIN o.syms : syms[k].name = o.syms[k].name /\ syms[k].bind = o.syms[k].bind
    <2> TAKE k \in DOMAIN o.syms
    <2>1. PICK c : c = Converted(sm, id, o)[k]
      OBVIOUS
    <2>2. c.name = o.syms[k].name /\ c.bind = o.syms[k].bind
      BY <2>1, Converts
    <2> QED
      BY <2>1, <2>2
  <1>3. \A k \in these : syms[k].sec = 0 <=> o.syms[k].sec = 0
    <2> TAKE k \in these
    <2>1. PICK c : c = Converted(sm, id, o)[k]
      OBVIOUS
    <2>2. /\ o.syms[k].sec = 0 => c.sec = 0
          /\ o.syms[k].sec # 0 => c.sec = sm[o.syms[k].sec].s
      BY <1>1, <2>1, Converts
    <2>3. o.syms[k].sec # 0 => sm[o.syms[k].sec].s # 0
      BY DEF Kept
    <2> QED
      BY <2>1, <2>2, <2>3
  <1>4. OneEach(syms, these)
    BY <1>1, <1>2 DEF OneEach, TellsNames
  <1>5. \A k \in these : syms[k].sec = 0 => syms[k].bind # "local"
    BY <1>1, <1>2, <1>3 DEF TellsNames
  <1>6. \A k \in DOMAIN o.syms : o.syms[k].sec = 0 => k \in these
    BY DEF Kept
  <1>7. UsedOf(syms, these) = UsedBy(o)
    <2>1. \A a : a \in UsedOf(syms, these) <=> \E k \in these : syms[k].sec = 0 /\ syms[k].name = a
      BY DEF UsedOf
    <2>2. \A a : a \in UsedBy(o) <=> \E k \in DOMAIN o.syms : o.syms[k].sec = 0 /\ o.syms[k].name = a
      BY DEF UsedBy, ToSet
    <2>3. \A a : a \in UsedOf(syms, these) <=> a \in UsedBy(o)
      BY <1>1, <1>2, <1>3, <1>6, <2>1, <2>2
    <2> QED
      BY <2>3
  <1>8. \A a : a \in GivenOf(syms, these) <=>
               \E k \in these : o.syms[k].sec # 0 /\ o.syms[k].bind # "local" /\ o.syms[k].name = a
    <2>1. \A a : a \in GivenOf(syms, these) <=>
                 \E k \in these : syms[k].sec # 0 /\ syms[k].bind # "local" /\ syms[k].name = a
      BY DEF GivenOf
    <2> QED
      BY <1>1, <1>2, <1>3, <2>1
  <1>9. \A i \in DOMAIN o.sections : \A a :
          a \in Globals(o, i) <=>
            \E k \in DOMAIN o.syms : o.syms[k].sec = i /\ o.syms[k].bind # "local" /\ o.syms[k].name = a
    BY DEF Globals
  <1>10. \A k \in DOMAIN o.syms : o.syms[k].sec # 0 => o.syms[k].sec \in DOMAIN o.sections
    BY DEF ObjectOK, SymbolOK
  <1>11. 0 \notin DOMAIN o.sections
    BY DEF ObjectOK, Sequence
  <1>12. GivenOf(syms, these) \subseteq GlobalsOf(o)
    <2> SUFFICES ASSUME NEW a \in GivenOf(syms, these) PROVE a \in GlobalsOf(o)
      OBVIOUS
    <2>1. PICK k \in these : o.syms[k].sec # 0 /\ o.syms[k].bind # "local" /\ o.syms[k].name = a
      BY <1>8
    <2>2. PICK i \in DOMAIN o.sections : i = o.syms[k].sec
      BY <1>1, <1>10, <2>1
    <2>3. a \in Globals(o, i)
      BY <1>1, <1>9, <2>1, <2>2
    <2> QED
      BY <2>3 DEF GlobalsOf
  <1>13. \A i \in DOMAIN o.sections : \A a \in Globals(o, i) : sm[i].s # 0 => a \in GivenOf(syms, these)
    <2> TAKE i \in DOMAIN o.sections
    <2> TAKE a \in Globals(o, i)
    <2> HAVE sm[i].s # 0
    <2>1. PICK k \in DOMAIN o.syms : o.syms[k].sec = i /\ o.syms[k].bind # "local" /\ o.syms[k].name = a
      BY <1>9
    <2>2. k \in these
      BY <2>1 DEF Kept
    <2> QED
      BY <1>8, <1>11, <2>1, <2>2
  <1>14. ASSUME NEW i \in DOMAIN o.sections, NEW a \in Globals(o, i), sm[i].s = 0
         PROVE  Defined(symtab, a)
    <2>1. Sequence(sections)
      BY DEF SecsNamed
    <2>2. merged \in SUBSET DOMAIN o.sections
      BY DEF Handled
    <2>3. i \notin merged
      BY <1>14, <2>1, <2>2, PlacesMerged
    <2>4. HasContents(o.sections[i])
      <3>1. PICK k \in DOMAIN o.syms : o.syms[k].sec = i /\ o.syms[k].bind # "local"
        BY <1>9
      <3> QED
        BY <1>11, <3>1 DEF TellsNames
    <2>5. i \in Handled(o)
      BY <2>4 DEF HasContents, Handled
    <2>6. o.sections[i].once /\ FindSection(sections, o.sections[i].name) # 0
      BY <2>3, <2>5 DEF IsLinkOnce, Found
    <2>7. \E j \in 1 .. Len(sections) : sections[j].name = o.sections[i].name
      BY <2>1, <2>6, FindsAny
    <2> QED
      BY <2>6, <2>7 DEF OnceTells
  <1>15. \A a \in GlobalsOf(o) : a \in GivenOf(syms, these) \/ Defined(symtab, a)
    BY <1>13, <1>14 DEF GlobalsOf
  <1> QED
    BY <1>1, <1>4, <1>5, <1>7, <1>12, <1>13, <1>15

\* tcc_load_object_file.
LEMMA LoadTells ==
  ASSUME FilesWellFormed, TellInv, Sequence(objects), NEW o \in ObjectFiles, TellsNames(o),
         tcc_load_object_file(o)
  PROVE  /\ TellInv'
         /\ objects'[Len(objects')] => Tells(symtab, symtab', UsedBy(o), GlobalsOf(o))
PROOF
  <1>1. PICK id, found, refused, merged, sm :
          /\ found = Found(o) /\ refused = Refused(found, o)
          /\ merged = Merged(found, refused, o) /\ sm = SectionMerge(found, merged, o)
          /\ Passes(o, id, found, refused, merged, sm)
    <2>1. \E found \in {Found(o)} : \E refused \in {Refused(found, o)} :
          \E merged \in {Merged(found, refused, o)} : \E sm \in {SectionMerge(found, merged, o)} :
            Passes(o, Len(objects) + 1, found, refused, merged, sm)
      BY DEF tcc_load_object_file, Passes
    <2>2. PICK id : id = Len(objects) + 1
      OBVIOUS
    <2>3. PICK found \in {Found(o)} :
            \E refused \in {Refused(found, o)} :
            \E merged \in {Merged(found, refused, o)} : \E sm \in {SectionMerge(found, merged, o)} :
              Passes(o, id, found, refused, merged, sm)
      BY <2>1, <2>2
    <2> QED
      BY <2>3
  <1>2. PICK fresh, rel : fresh = Fresh(found, merged) /\ rel = {i \in fresh : o.sections[i].type = "rel"}
    OBVIOUS
  <1>3. merged \in SUBSET DOMAIN o.sections /\ fresh \in SUBSET DOMAIN o.sections
    BY <1>1, <1>2 DEF Merged, Handled, Fresh
  <1>4. SecsNamed(sections) /\ TableOK(symtab) /\ OnceTells(sections, symtab) /\ OnceFits /\ ObjectOK(o)
    BY DEF TellInv, FilesWellFormed
  <1>5. CASE refused # {}
    <2>1. /\ sections' = MergedSections(sm, fresh, {}, id, o)
          /\ objects' = Append(objects, FALSE) /\ symtab' = symtab
      BY <1>1, <1>2, <1>5 DEF Passes
    <2>2. NamesFrom(sections', o, fresh, sm)
      BY <1>1, <1>2, <1>3, <1>4, <2>1, MergedNames
    <2>3. SecsNamed(sections')
      BY <1>3, <1>4, <2>2, NamedStay
    <2>4. \A k \in DOMAIN o.sections : ~o.sections[k].once
      BY <1>1, <1>4, <1>5, NotHalf
    <2>5. OnceTells(sections', symtab)
      BY <1>3, <1>4, <2>2, <2>4, OnceTellsOn
    <2>6. TellInv'
      BY <1>4, <2>1, <2>3, <2>5 DEF TellInv, SecsNamed, OnceTells, TableOK
    <2>7. objects'[Len(objects')] = FALSE
      BY <2>1, Appending
    <2> QED
      BY <2>6, <2>7
  <1>6. CASE refused = {}
    <2>1. PICK added, map, bad, P :
            /\ added = add_elf_syms(symtab, Converted(sm, id, o), Kept(sm, o))
            /\ P = Patched(MergedSections(sm, fresh, rel, id, o), sm, map, bad, id)
            /\ sections' = P /\ symtab' = added.tab
      <3>1. \E added \in {add_elf_syms(symtab, Converted(sm, id, o), Kept(sm, o))} :
              \E map \in {old_to_new_syms(sm, added, o)} : \E bad \in {Invalids(sm, map, o)} :
                /\ sections' = Patched(MergedSections(sm, Fresh(found, merged),
                                          {i \in Fresh(found, merged) : o.sections[i].type = "rel"},
                                          id, o), sm, map, bad, id)
                /\ symtab' = added.tab
                /\ objects' = Append(objects, bad = {})
        BY <1>1, <1>6, Zenon DEF Passes
      <3> QED
        BY <1>2, <3>1
    <2>2. NamesFrom(P, o, fresh, sm)
      <3>1. PICK M : M = MergedSections(sm, fresh, rel, id, o)
        OBVIOUS
      <3>2. NamesFrom(M, o, fresh, sm)
        BY <1>1, <1>2, <1>3, <1>4, <3>1, MergedNames
      <3> QED
        BY <2>1, <3>1, <3>2, PatchedNames
    <2>3. SecsNamed(P)
      BY <1>3, <1>4, <2>2, NamedStay
    <2>4. PICK syms, these : syms = Converted(sm, id, o) /\ these = Kept(sm, o)
      OBVIOUS
    <2>5. merged = {i \in Handled(o) : ~IsLinkOnce(found, o, i)}
      BY <1>1, <1>6 DEF Merged
    <2>6. /\ these \in SUBSET DOMAIN o.syms
          /\ OneEach(syms, these)
          /\ \A k \in these : syms[k].sec = 0 => syms[k].bind # "local"
          /\ UsedOf(syms, these) = UsedBy(o)
          /\ GivenOf(syms, these) \subseteq GlobalsOf(o)
          /\ \A a \in GlobalsOf(o) : a \in GivenOf(syms, these) \/ Defined(symtab, a)
          /\ \A i \in DOMAIN o.sections : \A a \in Globals(o, i) : sm[i].s # 0 => a \in GivenOf(syms, these)
      BY <1>1, <1>4, <2>4, <2>5, KeptSymbols
    <2>7. PICK m \in Nat : these \in SUBSET (1 .. m)
      <3>1. PICK list : list = o.syms
        OBVIOUS
      <3>2. Sequence(list)
        BY <1>4, <3>1 DEF ObjectOK
      <3>3. Len(list) \in Nat /\ DOMAIN list = 1 .. Len(list)
        BY ONLY <3>2 DEF Sequence
      <3> QED
        BY ONLY <2>6, <3>1, <3>3
    <2>8. Sequence(symtab) /\ added = add_elf_syms(symtab, syms, these)
      BY <1>4, <2>1, <2>4 DEF TableOK
    <2>9. Entered(symtab, syms, these, added.tab, added.map)
      BY <2>7, <2>8, Entering
    <2>10. Takes(symtab, syms, these, added.tab, added.map)
      BY <2>6, <2>7, <2>8, Taking
    <2>11. PICK T : T = added.tab
      OBVIOUS
    <2>12. TableOK(T)
      BY <1>4, <2>6, <2>9, <2>10, <2>11, StaysTable
    <2>13. Tells(symtab, T, UsedOf(syms, these), GivenOf(syms, these))
      BY <1>4, <2>6, <2>9, <2>10, <2>11, EnteringTells
    <2>14. Tells(symtab, T, UsedBy(o), GlobalsOf(o))
      BY <2>6, <2>13 DEF Tells
    <2>15. OnceTells(P, T)
      <3>1. \A a : Defined(symtab, a) => Defined(T, a)
        BY <2>13 DEF Tells
      <3>2. \A i \in fresh : o.sections[i].once => \A a \in Globals(o, i) : sm[i].s # 0 => Defined(T, a)
        BY <1>3, <2>6, <2>13 DEF Tells
      <3> QED
        BY <1>3, <1>4, <2>2, <3>1, <3>2, OnceTellsOn
    <2>16. TellInv'
      BY <2>1, <2>3, <2>11, <2>12, <2>15 DEF TellInv, SecsNamed, OnceTells, TableOK
    <2> QED
      BY <2>1, <2>11, <2>14, <2>16
  <1> QED
    BY <1>5, <1>6

\* tcc_compile.
LEMMA CompileTells ==
  ASSUME OnceFits, TellInv, Sequence(objects), NEW u, u.defines # u.uses, tcc_compile(u)
  PROVE  TellInv'
PROOF
  <1>1. PICK id, at, e, c, sr, secs, P, added :
          /\ id = Len(objects) + 1 /\ at = Len(sections[1].data)
          /\ added = add_elf_syms(symtab, UnitSyms(u, id, at), {1, 2})
          /\ e = UnitEntry(u, id, at, added.map[2]) /\ c = Cells(id, 1, u.size)
          /\ sr = IF sections[1].reloc # 0 THEN sections[1].reloc ELSE Len(sections) + 1
          /\ secs = IF sections[1].reloc # 0 THEN sections
                    ELSE Append([sections EXCEPT ![1].reloc = sr],
                                [new_section(".rel.text", "rel") EXCEPT !.info = 1])
          /\ P = [secs EXCEPT ![1].data = @ \o c, ![sr].data = Append(@, e)]
    OBVIOUS
  <1>2. sections' = P /\ symtab' = added.tab
    BY <1>1 DEF tcc_compile, UnitSyms, UnitEntry
  <1>3. PICK syms, T : syms = UnitSyms(u, id, at) /\ T = added.tab
    OBVIOUS
  <1>4. /\ syms[1].sec = 1 /\ syms[1].bind = "global" /\ syms[1].name = u.defines
        /\ syms[2].sec = 0 /\ syms[2].bind = "global" /\ syms[2].name = u.uses
    BY <1>3 DEF UnitSyms
  <1>5. TableOK(symtab) /\ Sequence(symtab) /\ SecsNamed(sections) /\ OnceTells(sections, symtab)
    BY DEF TellInv, TableOK
  <1>6. {1, 2} \in SUBSET (1 .. 2) /\ OneEach(syms, {1, 2})
    BY <1>4 DEF OneEach
  <1>7. added = add_elf_syms(symtab, syms, {1, 2})
    BY <1>1, <1>3
  <1>8. Entered(symtab, syms, {1, 2}, added.tab, added.map)
    BY <1>5, <1>6, <1>7, Entering
  <1>9. Takes(symtab, syms, {1, 2}, added.tab, added.map)
    BY <1>5, <1>6, <1>7, Taking
  <1>10. TableOK(T)
    BY <1>3, <1>5, <1>6, <1>8, <1>9, StaysTable
  <1>11. \A a : Defined(symtab, a) => Defined(T, a)
    <2>1. \A k \in {1, 2} : syms[k].sec = 0 => syms[k].bind # "local"
      BY <1>4
    <2>2. Tells(symtab, T, UsedOf(syms, {1, 2}), GivenOf(syms, {1, 2}))
      BY <1>3, <1>5, <1>6, <1>8, <1>9, <2>1, EnteringTells
    <2> QED
      BY <2>2 DEF Tells
  <1>12. /\ Sequence(secs) /\ Len(secs) \in Nat
         /\ \A j \in 1 .. Len(secs) :
              /\ IsNamedSec(secs[j])
              /\ \/ /\ j \in 1 .. Len(sections)
                    /\ secs[j].name = sections[j].name /\ secs[j].type = sections[j].type
                 \/ secs[j].name = ".rel.text" /\ secs[j].type = "rel"
    <2>1. Sequence(sections) /\ \A j \in 1 .. Len(sections) : IsNamedSec(sections[j])
      BY <1>5 DEF SecsNamed
    <2>2. Len(sections) \in Nat /\ DOMAIN sections = 1 .. Len(sections)
      BY <2>1 DEF Sequence
    <2>3. CASE sections[1].reloc # 0
      BY <1>1, <2>1, <2>2, <2>3
    <2>4. CASE sections[1].reloc = 0
      <3>1. PICK S, s, n : /\ S = [sections EXCEPT ![1].reloc = sr] /\ n = Len(sections)
                           /\ s = [new_section(".rel.text", "rel") EXCEPT !.info = 1]
        OBVIOUS
      <3>2. secs = Append(S, s)
        BY <1>1, <2>4, <3>1
      <3>3. DOMAIN S = 1 .. n /\ S = [j \in 1 .. n |-> S[j]] /\ n \in Nat
        BY <2>2, <3>1
      <3>4. Sequence(S) /\ Len(S) = n
        BY <3>3, Listed
      <3>5. /\ Sequence(secs) /\ Len(secs) = n + 1
            /\ \A j \in 1 .. n : secs[j] = S[j]
            /\ secs[n + 1] = s
        BY <3>2, <3>4, Appending
      <3>6. s.name = ".rel.text" /\ s.type = "rel" /\ IsNamedSec(s)
        BY <3>1 DEF new_section, IsNamedSec
      <3>7. ASSUME NEW j \in 1 .. n
            PROVE  IsNamedSec(S[j]) /\ S[j].name = sections[j].name /\ S[j].type = sections[j].type
        <4>1. PICK old, new : old = sections[j] /\ new = S[j]
          OBVIOUS
        <4>2. new = old \/ new = [old EXCEPT !.reloc = sr]
          BY <2>2, <3>1, <4>1
        <4>3. IsNamedSec(old)
          BY <2>1, <3>1, <4>1
        <4>4. IsNamedSec(new) /\ new.name = old.name /\ new.type = old.type
          BY ONLY <4>2, <4>3 DEF IsNamedSec
        <4> QED
          BY <4>1, <4>4
      <3>8. ASSUME NEW j \in 1 .. n + 1
            PROVE  /\ IsNamedSec(secs[j])
                   /\ \/ /\ j \in 1 .. n
                         /\ secs[j].name = sections[j].name /\ secs[j].type = sections[j].type
                      \/ secs[j].name = ".rel.text" /\ secs[j].type = "rel"
        <4>1. CASE j \in 1 .. n
          BY <3>5, <3>7, <4>1
        <4>2. CASE j \notin 1 .. n
          <5>1. j = n + 1
            BY <3>3, <4>2
          <5> QED
            BY <3>5, <3>6, <5>1
        <4> QED
          BY <4>1, <4>2
      <3>9. n + 1 \in Nat
        BY <3>3
      <3> QED
        BY <3>1, <3>5, <3>8, <3>9
    <2> QED
      BY <2>3, <2>4
  <1>13. /\ Sequence(P) /\ Len(P) = Len(secs)
         /\ \A j \in 1 .. Len(P) :
              IsNamedSec(P[j]) /\ P[j].name = secs[j].name /\ P[j].type = secs[j].type
    <2>1. DOMAIN secs = 1 .. Len(secs)
      BY <1>12 DEF Sequence
    <2>2. PICK Q : Q = [secs EXCEPT ![1].data = @ \o c]
      OBVIOUS
    <2>3. PICK y : P = [Q EXCEPT ![sr].data = y]
      BY <1>1, <2>2
    <2>4. DOMAIN P = 1 .. Len(secs) /\ P = [j \in 1 .. Len(secs) |-> P[j]]
      BY <2>1, <2>2, <2>3
    <2>5. Sequence(P) /\ Len(P) = Len(secs)
      BY <1>12, <2>4, Listed
    <2>6. ASSUME NEW j \in 1 .. Len(secs)
          PROVE  IsNamedSec(P[j]) /\ P[j].name = secs[j].name /\ P[j].type = secs[j].type
      <3>1. PICK old, mid, new : old = secs[j] /\ mid = Q[j] /\ new = P[j]
        OBVIOUS
      <3>2. mid = old \/ \E x : mid = [old EXCEPT !.data = x]
        BY <2>1, <2>2, <3>1
      <3>3. new = mid \/ \E x : new = [mid EXCEPT !.data = x]
        <4>1. DOMAIN Q = 1 .. Len(secs)
          BY <2>1, <2>2
        <4> QED
          BY <2>3, <3>1, <4>1
      <3>4. IsNamedSec(old)
        BY <1>12, <3>1
      <3>5. IsNamedSec(mid) /\ mid.name = old.name /\ mid.type = old.type
        BY ONLY <3>2, <3>4 DEF IsNamedSec
      <3>6. IsNamedSec(new) /\ new.name = mid.name /\ new.type = mid.type
        BY ONLY <3>3, <3>5 DEF IsNamedSec
      <3> QED
        BY <3>1, <3>5, <3>6
    <2> QED
      BY <2>5, <2>6
  <1>14. \A j \in 1 .. Len(P) :
           \/ j \in 1 .. Len(sections) /\ P[j].name = sections[j].name /\ P[j].type = sections[j].type
           \/ P[j].name = ".rel.text" /\ P[j].type = "rel"
    BY <1>12, <1>13
  <1>15. SecsNamed(P)
    <2>1. <<".rel.text", "rel">> \in NameTypes
      BY DEF NameTypes
    <2>2. \A j \in 1 .. Len(P) : <<P[j].name, P[j].type>> \in NameTypes
      BY <1>5, <1>14, <2>1 DEF SecsNamed
    <2> QED
      BY <1>13, <2>2 DEF SecsNamed
  <1>16. OnceTells(P, T)
    <2> SUFFICES ASSUME NEW p \in ObjectFiles, NEW i \in DOMAIN p.sections, p.sections[i].once,
                        NEW j \in 1 .. Len(P), P[j].name = p.sections[i].name, NEW a \in Globals(p, i)
                 PROVE  Defined(T, a)
      BY DEF OnceTells
    <2>1. P[j].name # ".rel.text"
      BY DEF OnceFits
    <2>2. j \in 1 .. Len(sections) /\ sections[j].name = p.sections[i].name
      BY <1>14, <2>1
    <2>3. Defined(symtab, a)
      BY <1>5, <2>2 DEF OnceTells
    <2> QED
      BY <1>11, <2>3
  <1> QED
    BY <1>2, <1>3, <1>10, <1>15, <1>16 DEF TellInv, SecsNamed, OnceTells, TableOK

\* tcc_add_file_internal, called by what stk holds.
LEMMA AddFileTells ==
  ASSUME FilesWellFormed, ArchivesTell, TellInv, Sequence(objects), NEW path, NEW level, NEW stk,
         tcc_add_file_internal(path, level, stk)
  PROVE  TellInv'
PROOF
  <1>1. ASSUME UNCHANGED <<sections, symtab>> PROVE TellInv'
    BY <1>1 DEF TellInv, SecsNamed, OnceTells, TableOK
  <1>2. PICK f : f = Files[path]
    OBVIOUS
  <1>3. CASE path \notin DOMAIN Files
    BY <1>1, <1>3 DEF tcc_add_file_internal, data
  <1>4. CASE path \in DOMAIN Files
    <2>1. \/ f.kind = "c" /\ tcc_compile(f)
          \/ f.kind = "object" /\ tcc_load_object_file(f)
          \/ tcc_load_dll(f, level, stk)
          \/ UNCHANGED data
      BY <1>2, <1>4 DEF tcc_add_file_internal
    <2>2. CASE f.kind = "c" /\ tcc_compile(f)
      <3>1. f.defines # f.uses /\ OnceFits
        BY <1>2, <1>4, <2>2 DEF FilesWellFormed, ArchivesTell
      <3> QED
        BY <2>2, <3>1, CompileTells
    <2>3. CASE f.kind = "object" /\ tcc_load_object_file(f)
      <3>1. f \in ObjectFiles /\ TellsNames(f)
        BY <1>2, <1>4, <2>3 DEF ObjectFiles, ArchivesTell
      <3> QED
        BY <2>3, <3>1, LoadTells
    <2>4. CASE tcc_load_dll(f, level, stk)
      BY <1>1, <2>4 DEF tcc_load_dll
    <2>5. CASE UNCHANGED data
      BY <1>1, <2>5 DEF data
    <2> QED
      BY <2>1, <2>2, <2>3, <2>4, <2>5
  <1> QED
    BY <1>3, <1>4

\* Every step of the calls.
LEMMA TellStep ==
  ASSUME FilesWellFormed, ArchivesTell, CallsOK(stack), TellInv, Sequence(objects), Step
  PROVE  TellInv'
PROOF
  <1>1. ASSUME UNCHANGED data PROVE TellInv'
    BY <1>1 DEF data, TellInv, SecsNamed, OnceTells, TableOK
  <1>2. ASSUME NEW o \in ObjectFiles, tcc_load_object_file(o) PROVE TellInv'
    <2>1. TellsNames(o)
      BY DEF ArchivesTell
    <2> QED
      BY <1>2, <2>1, LoadTells
  <1>3. ASSUME stack # <<>>, ThroughArchive(Top)
        PROVE  Top.ar \in Archives /\ Top.i \in Nat
    <2>1. IsCall(Top)
      BY <1>3, Popped
    <2> QED
      BY <1>3, <2>1 DEF IsCall
  <1>4. CASE IndexEntry
    <2>1. CASE UNCHANGED data
      BY <1>1, <2>1
    <2>2. CASE tcc_load_object_file(Top.ar.members[Top.ar.index[Top.i + 1].member])
      <3>1. Runs("tcc_load_alacarte") /\ Top.i < Len(Top.ar.index)
        BY <1>4 DEF IndexEntry
      <3>2. PICK ar, i, m, o : /\ ar = Top.ar /\ i = Top.i /\ m = ar.index[i + 1].member
                               /\ o = ar.members[m]
        OBVIOUS
      <3>3. ar \in Archives /\ i \in Nat /\ i < Len(ar.index)
        BY <1>3, <3>1, <3>2 DEF Runs, ThroughArchive
      <3>4. i + 1 \in DOMAIN ar.index
        BY <3>3, MembersAreObjects DEF Sequence
      <3>5. o \in ObjectFiles
        BY <3>2, <3>3, <3>4, MembersAreObjects
      <3>6. tcc_load_object_file(o)
        BY <2>2, <3>2
      <3> QED
        BY <1>2, <3>5, <3>6
    <2> QED
      BY <1>4, <2>1, <2>2 DEF IndexEntry
  <1>5. CASE MemberNext
    <2>1. /\ Runs("tcc_load_archive") /\ Top.i < Len(Top.ar.members)
          /\ tcc_load_object_file(Top.ar.members[Top.i + 1])
      BY <1>5 DEF MemberNext
    <2>2. PICK ar, i, o : ar = Top.ar /\ i = Top.i /\ o = ar.members[i + 1]
      OBVIOUS
    <2>3. ar \in Archives /\ i \in Nat /\ i < Len(ar.members)
      BY <1>3, <2>1, <2>2 DEF Runs, ThroughArchive
    <2>4. i + 1 \in DOMAIN ar.members
      BY <2>3, MembersAreObjects DEF Sequence
    <2>5. o \in ObjectFiles
      BY <2>2, <2>3, <2>4, MembersAreObjects
    <2>6. tcc_load_object_file(o)
      BY <2>1, <2>2
    <2> QED
      BY <1>2, <2>5, <2>6
  <1>6. CASE SearchNext
    BY <1>6, AddFileTells DEF SearchNext
  <1>7. CASE ScriptNext
    <2>1. PICK path, next : UNCHANGED data \/ tcc_add_file_internal(path, 0, next)
      BY <1>7 DEF ScriptNext
    <2> QED
      BY <1>1, <2>1, AddFileTells
  <1>8. CASE IndexEnds
    BY <1>1, <1>8 DEF IndexEnds, Returns
  <1>9. CASE \/ Searched \/ LibraryNext \/ LibraryFound \/ AlacarteFails \/ MembersEnd
             \/ NeededNext \/ NeededEnd \/ ScriptEnds
    BY <1>1, <1>9 DEF Searched, LibraryNext, LibraryFound, AlacarteFails, MembersEnd,
                      NeededNext, NeededEnd, ScriptEnds, Returns
  <1> QED
    BY <1>4, <1>5, <1>6, <1>7, <1>8, <1>9 DEF Step

\* What the user asks for, and steps of others.
LEMMA TellNext ==
  ASSUME FilesWellFormed, ArchivesTell, CallsOK(stack), TellInv, Sequence(objects), [Next]_vars
  PROVE  TellInv'
PROOF
  <1>1. ASSUME UNCHANGED data PROVE TellInv'
    BY <1>1 DEF data, TellInv, SecsNamed, OnceTells, TableOK
  <1>2. CASE Step
    BY <1>2, TellStep
  <1>3. ASSUME NEW p, tcc_add_file(p) PROVE TellInv'
    BY <1>3, AddFileTells DEF tcc_add_file
  <1>4. ASSUME NEW l, tcc_add_library(l) PROVE TellInv'
    BY <1>1, <1>4 DEF tcc_add_library
  <1>5. CASE UNCHANGED vars
    BY <1>1, <1>5 DEF vars, data
  <1> QED
    BY <1>2, <1>3, <1>4, <1>5 DEF Next

\* No link-once section is there at first.
LEMMA TellInit ==
  ASSUME OnceFits, Init
  PROVE  TellInv
PROOF
  <1>1. PICK S : S = sections
    OBVIOUS
  <1>2. /\ S = <<new_section(".text", "progbits"), new_section(".data", "progbits"),
                 new_section(".bss", "nobits")>>
        /\ symtab = <<>>
    BY <1>1 DEF Init
  <1>3. /\ S[1] = [name |-> ".text", type |-> "progbits", align |-> 32, data |-> <<>>,
                   info |-> 0, reloc |-> 0]
        /\ S[2] = [name |-> ".data", type |-> "progbits", align |-> 32, data |-> <<>>,
                   info |-> 0, reloc |-> 0]
        /\ S[3] = [name |-> ".bss", type |-> "nobits", align |-> 32, data |-> <<>>,
                   info |-> 0, reloc |-> 0]
    BY <1>2 DEF new_section
  <1>4. Len(S) = 3 /\ Sequence(S)
    <2>1. S = [j \in 1 .. 3 |-> S[j]]
      BY <1>2
    <2> QED
      BY <2>1, Listed
  <1>5. \A j \in 1 .. 3 : /\ IsNamedSec(S[j]) /\ <<S[j].name, S[j].type>> \in NameTypes
                          /\ S[j].name \in {".text", ".data", ".bss"}
    <2>1. IsNamedSec(S[1]) /\ IsNamedSec(S[2]) /\ IsNamedSec(S[3])
      BY <1>3 DEF IsNamedSec
    <2>2. \A j \in 1 .. 3 : j = 1 \/ j = 2 \/ j = 3
      OBVIOUS
    <2>3. /\ <<".text", "progbits">> \in NameTypes /\ <<".data", "progbits">> \in NameTypes
          /\ <<".bss", "nobits">> \in NameTypes
      BY DEF NameTypes
    <2>4. /\ S[1].name = ".text" /\ S[1].type = "progbits" /\ S[2].name = ".data"
          /\ S[2].type = "progbits" /\ S[3].name = ".bss" /\ S[3].type = "nobits"
      BY <1>3
    <2> QED
      BY <2>1, <2>2, <2>3, <2>4
  <1>6. SecsNamed(S)
    BY <1>4, <1>5 DEF SecsNamed
  <1>7. OnceTells(S, symtab)
    BY <1>4, <1>5 DEF OnceTells, OnceFits
  <1>8. TableOK(symtab)
    <2>1. Sequence(<<>>) /\ Len(<<>>) = 0
      BY DEF Sequence
    <2> QED
      BY <1>2, <2>1 DEF TableOK
  <1> QED
    BY <1>1, <1>6, <1>7, <1>8 DEF TellInv

(***************************************************************************)
(* Archives: what is loaded of one, and why                                *)
(***************************************************************************)
GivenBy(ar, S) == UNION {GlobalsOf(ar.members[k]) : k \in S}

\* With the members C nothing is missing that the index lists.
Follows(ar, before, C) ==
  \A e \in ToSet(ar.index) :
    Undefined(before, e.name) \/ (e.name \in Uses(ar, C) /\ ~Defined(before, e.name)) =>
      e.member \in C

\* At place i of a pass: each member has been loaded once, and only if nothing
\* but loading it would do; the symbols are those that loading them gives; in a
\* pass that loaded none so far nothing is missing up to here.
Looking(ar, i, bound, before, taken, T) ==
  /\ Sequence(taken) /\ \A k \in 1 .. Len(taken) : taken[k] \in DOMAIN ar.members
  /\ \A k, l \in 1 .. Len(taken) : taken[k] = taken[l] => k = l
  /\ \A C \in SUBSET DOMAIN ar.members : Follows(ar, before, C) => ToSet(taken) \subseteq C
  /\ Tells(before, T, Uses(ar, ToSet(taken)), GivenBy(ar, ToSet(taken)))
  /\ ~bound => \A k \in 1 .. i : ~Undefined(T, ar.index[k].name)

\* The names of what members use, and of what they define.
LEMMA UsesGives ==
  ASSUME NEW ar, NEW S, NEW a
  PROVE  /\ a \in Uses(ar, S) <=> \E k \in S : a \in UsedBy(ar.members[k])
         /\ a \in GivenBy(ar, S) <=> \E k \in S : a \in GlobalsOf(ar.members[k])
PROOF
  BY DEF Uses, GivenBy, UsedBy

\* One object after others.
LEMMA TellsTwice ==
  ASSUME NEW A, NEW B, NEW C, NEW u, NEW g, Tells(A, B, u, g), NEW v, NEW h, Tells(B, C, v, h),
         NEW w, NEW k, \A a : a \in w <=> a \in u \/ a \in v, \A a : a \in k <=> a \in g \/ a \in h
  PROVE  Tells(A, C, w, k)
PROOF
  BY DEF Tells

\* Nothing is loaded at first.
LEMMA LookBegins ==
  ASSUME NEW ar, NEW T
  PROVE  Looking(ar, 0, FALSE, T, <<>>, T)
PROOF
  <1>1. Sequence(<<>>) /\ Len(<<>>) = 0 /\ ToSet(<<>>) = {}
    BY DEF Sequence, ToSet
  <1>2. \A a : a \notin Uses(ar, {}) /\ a \notin GivenBy(ar, {})
    BY UsesGives
  <1>3. Tells(T, T, Uses(ar, {}), GivenBy(ar, {}))
    BY <1>2 DEF Tells
  <1>4. \A k \in 1 .. 0 : FALSE
    OBVIOUS
  <1> QED
    BY <1>1, <1>3, <1>4 DEF Looking

\* Nobody wants the next name.
LEMMA LookPasses ==
  ASSUME NEW ar, NEW i \in Nat, NEW bound, NEW before, NEW taken, NEW T, NEW b, ~b => ~bound,
         Looking(ar, i, bound, before, taken, T), ~Undefined(T, ar.index[i + 1].name)
  PROVE  Looking(ar, i + 1, b, before, taken, T)
PROOF
  <1>1. \A k \in 1 .. i + 1 : k \in 1 .. i \/ k = i + 1
    OBVIOUS
  <1>2. ~b => \A k \in 1 .. i + 1 : ~Undefined(T, ar.index[k].name)
    BY <1>1 DEF Looking
  <1> QED
    BY <1>2 DEF Looking

\* Another pass begins.
LEMMA LookAgain ==
  ASSUME NEW ar, NEW i, NEW bound, NEW before, NEW taken, NEW T,
         Looking(ar, i, bound, before, taken, T)
  PROVE  Looking(ar, 0, FALSE, before, taken, T)
PROOF
  <1>1. \A k \in 1 .. 0 : FALSE
    OBVIOUS
  <1> QED
    BY <1>1 DEF Looking

\* The member that defines the next name is loaded.
LEMMA LookTakes ==
  ASSUME NEW ar, ArchiveOK(ar), IndexTells(ar), NEW i \in Nat, i < Len(ar.index),
         NEW bound, NEW before, NEW taken, NEW T, Looking(ar, i, bound, before, taken, T), NEW b, b,
         NEW e, e = ar.index[i + 1], NEW m, m = e.member, Undefined(T, e.name),
         NEW U, Tells(T, U, UsedBy(ar.members[m]), GlobalsOf(ar.members[m])),
         NEW more, more = Append(taken, m)
  PROVE  Looking(ar, i + 1, b, before, more, U)
PROOF
  <1>1. e \in ToSet(ar.index) /\ m \in DOMAIN ar.members
    <2>1. PICK index : index = ar.index
      OBVIOUS
    <2>2. Sequence(index) /\ i < Len(index)
      BY <2>1 DEF ArchiveOK
    <2>3. i + 1 \in DOMAIN index
      BY ONLY <2>2, i \in Nat DEF Sequence
    <2> QED
      BY <2>1, <2>3 DEF ToSet, ArchiveOK
  <1>2. PICK S, n, a : S = ToSet(taken) /\ n = Len(taken) /\ a = e.name
    OBVIOUS
  <1>3. /\ Sequence(taken) /\ \A k \in 1 .. n : taken[k] \in DOMAIN ar.members
        /\ \A k, l \in 1 .. n : taken[k] = taken[l] => k = l
        /\ \A C \in SUBSET DOMAIN ar.members : Follows(ar, before, C) => S \subseteq C
        /\ Tells(before, T, Uses(ar, S), GivenBy(ar, S))
    BY <1>2 DEF Looking
  <1>4. /\ Sequence(more) /\ n \in Nat /\ Len(more) = n + 1
        /\ DOMAIN taken = 1 .. n /\ DOMAIN more = 1 .. n + 1
        /\ \A k \in 1 .. n : more[k] = taken[k]
        /\ more[n + 1] = m
    BY <1>2, <1>3, Appending
  <1>5. \A k \in 1 .. n + 1 : k \in 1 .. n \/ k = n + 1
    BY <1>4
  <1>6. \A k \in 1 .. n : taken[k] \in S
    BY <1>2, <1>4 DEF ToSet
  <1>7. \A x : x \in ToSet(more) <=> x \in S \/ x = m
    <2>1. \A x : x \in S <=> \E k \in 1 .. n : taken[k] = x
      BY <1>2, <1>4 DEF ToSet
    <2>2. \A x : x \in ToSet(more) <=> \E k \in 1 .. n + 1 : more[k] = x
      BY <1>4 DEF ToSet
    <2>3. n + 1 \in 1 .. n + 1 /\ \A k \in 1 .. n : k \in 1 .. n + 1
      BY <1>4
    <2> QED
      BY <1>4, <1>5, <2>1, <2>2, <2>3
  <1>8. m \notin S
    <2>1. a \in GlobalsOf(ar.members[m])
      BY <1>1, <1>2 DEF IndexTells
    <2>2. m \in S => a \in GivenBy(ar, S)
      BY <2>1, UsesGives
    <2>3. m \in S => Defined(T, a)
      BY <1>3, <2>2 DEF Tells
    <2> QED
      BY <1>2, <2>3 DEF Undefined, Defined
  <1>9. \A k \in 1 .. n + 1 : more[k] \in DOMAIN ar.members
    BY <1>1, <1>3, <1>4, <1>5
  <1>10. \A k, l \in 1 .. n + 1 : more[k] = more[l] => k = l
    BY <1>3, <1>4, <1>5, <1>6, <1>8
  <1>11. ASSUME NEW C \in SUBSET DOMAIN ar.members, Follows(ar, before, C)
         PROVE  ToSet(more) \subseteq C
    <2>1. S \subseteq C
      BY <1>3, <1>11
    <2>2. Undefined(before, a) \/ (a \in Uses(ar, S) /\ ~Defined(before, a))
      BY <1>2, <1>3 DEF Tells
    <2>3. a \in Uses(ar, S) => a \in Uses(ar, C)
      BY <2>1, UsesGives
    <2>4. m \in C
      BY <1>1, <1>2, <1>11, <2>2, <2>3 DEF Follows
    <2> QED
      BY <1>7, <2>1, <2>4
  <1>12. Tells(before, U, Uses(ar, ToSet(more)), GivenBy(ar, ToSet(more)))
    <2>1. PICK o, M : o = ar.members[m] /\ M = ToSet(more)
      OBVIOUS
    <2>2. \A x : x \in Uses(ar, M) <=> x \in Uses(ar, S) \/ x \in UsedBy(o)
      BY <1>7, <2>1, UsesGives
    <2>3. \A x : x \in GivenBy(ar, M) <=> x \in GivenBy(ar, S) \/ x \in GlobalsOf(o)
      BY <1>7, <2>1, UsesGives
    <2>4. Tells(T, U, UsedBy(o), GlobalsOf(o))
      BY <2>1
    <2>5. Tells(before, U, Uses(ar, M), GivenBy(ar, M))
      BY <1>3, <2>2, <2>3, <2>4, TellsTwice
    <2> QED
      BY <2>1, <2>5
  <1> QED
    BY <1>4, <1>9, <1>10, <1>11, <1>12 DEF Looking

\* A pass that loaded nothing ends.
LEMMA LookEnds ==
  ASSUME NEW ar, ArchiveOK(ar), IndexTells(ar), NEW before, NEW taken, NEW T,
         Looking(ar, Len(ar.index), FALSE, before, taken, T)
  PROVE  ToSet(taken) = Wanted(ar, before) /\ Len(taken) = Cardinality(ToSet(taken))
PROOF
  <1>1. PICK S, n : S = ToSet(taken) /\ n = Len(taken)
    OBVIOUS
  <1>2. /\ Sequence(taken) /\ \A k \in 1 .. n : taken[k] \in DOMAIN ar.members
        /\ \A k, l \in 1 .. n : taken[k] = taken[l] => k = l
        /\ \A C \in SUBSET DOMAIN ar.members : Follows(ar, before, C) => S \subseteq C
        /\ Tells(before, T, Uses(ar, S), GivenBy(ar, S))
        /\ \A k \in 1 .. Len(ar.index) : ~Undefined(T, ar.index[k].name)
    BY <1>1 DEF Looking
  <1>3. n \in Nat /\ DOMAIN taken = 1 .. n
    BY <1>1, <1>2 DEF Sequence
  <1>4. S \in SUBSET DOMAIN ar.members
    BY <1>1, <1>2, <1>3 DEF ToSet
  <1>5. Follows(ar, before, S)
    <2> SUFFICES ASSUME NEW e \in ToSet(ar.index),
                        Undefined(before, e.name) \/ (e.name \in Uses(ar, S) /\ ~Defined(before, e.name))
                 PROVE  e.member \in S
      BY DEF Follows
    <2>1. PICK a : a = e.name
      OBVIOUS
    <2>2. ~Undefined(T, a)
      <3>1. PICK index : index = ar.index
        OBVIOUS
      <3>2. DOMAIN index = 1 .. Len(index)
        BY <3>1 DEF ArchiveOK, Sequence
      <3>3. PICK k \in DOMAIN index : index[k] = e
        BY <3>1 DEF ToSet
      <3> QED
        BY <1>2, <2>1, <3>1, <3>2, <3>3
    <2>3. find_elf_sym(T, a) # 0
      BY <1>2, <2>1 DEF Tells, Undefined
    <2>4. Defined(T, a)
      BY <2>2, <2>3 DEF Defined, Undefined
    <2>5. ~Defined(before, a)
      BY <2>1 DEF Defined, Undefined
    <2>6. a \in GivenBy(ar, S)
      BY <1>2, <2>4, <2>5 DEF Tells
    <2>7. PICK k \in S : a \in GlobalsOf(ar.members[k])
      BY <2>6, UsesGives
    <2>8. PICK f \in ToSet(ar.index) : f.member = k /\ f.name = a
      <3>1. k \in DOMAIN ar.members
        BY <1>4
      <3>2. GlobalsOf(ar.members[k]) = {f.name : f \in {g \in ToSet(ar.index) : g.member = k}}
        BY <3>1 DEF IndexTells
      <3> QED
        BY <2>7, <3>2
    <2> QED
      BY <2>1, <2>7, <2>8 DEF IndexTells
  <1>6. S = Wanted(ar, before)
    <2> DEFINE Missing(R) == {a \in {e.name : e \in ToSet(ar.index)} :
                                Undefined(before, a) \/ (a \in Uses(ar, R) /\ ~Defined(before, a))}
               Closed(R) == \A e \in ToSet(ar.index) : e.name \in Missing(R) => e.member \in R
               All == {R \in SUBSET DOMAIN ar.members : Closed(R)}
    <2>1. Wanted(ar, before) = CHOOSE R \in All : \A Q \in All : R \subseteq Q
      BY DEF Wanted
    <2>2. ASSUME NEW R PROVE Closed(R) <=> Follows(ar, before, R)
      <3>1. \A e \in ToSet(ar.index) :
              e.name \in Missing(R) <=>
                Undefined(before, e.name) \/ (e.name \in Uses(ar, R) /\ ~Defined(before, e.name))
        OBVIOUS
      <3> HIDE DEF Missing
      <3> QED
        BY <3>1 DEF Follows
    <2> HIDE DEF Closed
    <2>3. S \in All /\ \A Q \in All : S \subseteq Q
      BY <1>2, <1>4, <1>5, <2>2
    <2> HIDE DEF All
    <2>4. PICK W : W = CHOOSE R \in All : \A Q \in All : R \subseteq Q
      OBVIOUS
    <2>5. W \in All /\ \A Q \in All : W \subseteq Q
      BY <2>3, <2>4
    <2> QED
      BY <2>1, <2>3, <2>4, <2>5
  <1>7. n = Cardinality(S)
    <2>1. IsFiniteSet(1 .. n) /\ Cardinality(1 .. n) = n
      BY <1>3, FS_Interval
    <2>2. taken \in Surjection(1 .. n, S)
      BY <1>1, <1>2, <1>3 DEF Surjection, Sequence, ToSet
    <2>3. taken \in Injection(1 .. n, S)
      BY <1>2, <2>2 DEF Injection, Surjection, IsInjective
    <2> QED
      BY <2>1, <2>2, <2>3, FS_Surjection
  <1> QED
    BY <1>1, <1>6, <1>7

\* The running call that goes through an index, if one does, is the innermost.
LookCall(ar, i, bound, before, taken) ==
  [fn |-> "tcc_load_alacarte", ar |-> ar, i |-> i, bound |-> bound, before |-> before, taken |-> taken]
IsLook(c) ==
  /\ c = LookCall(c.ar, c.i, c.bound, c.before, c.taken)
  /\ c.ar.index # <<>>
Looks(c, T) == Looking(c.ar, c.i, c.bound, c.before, c.taken, T)
NoLook(stk) == \A k \in 1 .. Len(stk) : stk[k].fn # "tcc_load_alacarte"
OneLooks(stk, T, r) ==
  stk # <<>> =>
    /\ NoLook(Front(stk))
    /\ stk[Len(stk)].fn = "tcc_load_alacarte" =>
         IsLook(stk[Len(stk)]) /\ (r # "fail" => Looks(stk[Len(stk)], T))

LookInv == OneLooks(stack, symtab, ret)

\* A call is put on calls that go through none.
LEMMA LookPushed ==
  ASSUME NEW stk, Sequence(stk), NoLook(stk), NEW c
  PROVE  /\ c.fn # "tcc_load_alacarte" => NoLook(Append(stk, c))
         /\ \A T, r : (c.fn = "tcc_load_alacarte" => IsLook(c) /\ (r # "fail" => Looks(c, T))) =>
              OneLooks(Append(stk, c), T, r)
PROOF
  <1>1. PICK n, s : n = Len(stk) /\ s = Append(stk, c)
    OBVIOUS
  <1>2. /\ Sequence(s) /\ n \in Nat /\ Len(s) = n + 1
        /\ \A k \in 1 .. n : s[k] = stk[k]
        /\ s[n + 1] = c
    BY <1>1, Appending
  <1>3. s # <<>>
    <2>1. Len(s) # 0
      BY <1>2
    <2> QED
      BY <2>1
  <1>4. /\ Len(Front(s)) = n /\ \A k \in 1 .. n : Front(s)[k] = s[k]
    <2>1. Len(Front(s)) = Len(s) - 1 /\ \A k \in 1 .. Len(s) - 1 : Front(s)[k] = s[k]
      BY <1>2, <1>3, Fronts
    <2>2. Len(s) - 1 = n
      BY <1>2
    <2> QED
      BY <2>1, <2>2
  <1>5. NoLook(Front(s))
    BY <1>1, <1>2, <1>4 DEF NoLook
  <1>6. \A k \in 1 .. n + 1 : k \in 1 .. n \/ k = n + 1
    BY <1>2
  <1>7. c.fn # "tcc_load_alacarte" => NoLook(s)
    BY <1>1, <1>2, <1>6 DEF NoLook
  <1>8. \A T, r : (c.fn = "tcc_load_alacarte" => IsLook(c) /\ (r # "fail" => Looks(c, T))) =>
          OneLooks(s, T, r)
    BY <1>2, <1>5 DEF OneLooks
  <1> QED
    BY <1>1, <1>7, <1>8

\* There may be none.
LEMMA NoneLooks ==
  ASSUME NEW stk, Sequence(stk), NoLook(stk), NEW T, NEW r
  PROVE  OneLooks(stk, T, r)
PROOF
  <1>1. CASE stk = <<>>
    BY <1>1 DEF OneLooks
  <1>2. CASE stk # <<>>
    <2>1. PICK n : n = Len(stk)
      OBVIOUS
    <2>2. /\ n \in Nat \ {0} /\ Len(Front(stk)) = n - 1
          /\ \A k \in 1 .. n - 1 : Front(stk)[k] = stk[k]
      BY <1>2, <2>1, Fronts
    <2>3. n \in 1 .. n /\ \A k \in 1 .. n - 1 : k \in 1 .. n
      BY <2>2
    <2>4. NoLook(Front(stk))
      BY <2>1, <2>2, <2>3 DEF NoLook
    <2>5. stk[n].fn # "tcc_load_alacarte"
      BY <2>1, <2>3 DEF NoLook
    <2> QED
      BY <2>1, <2>4, <2>5 DEF OneLooks
  <1> QED
    BY <1>1, <1>2

\* tcc_add_file_internal, called by what stk holds.
LEMMA AddFileLooks ==
  ASSUME NEW path, NEW level, NEW stk, Sequence(stk), NoLook(stk),
         tcc_add_file_internal(path, level, stk)
  PROVE  LookInv'
PROOF
  <1>1. PICK f : f = Files[path]
    OBVIOUS
  <1>2. \/ stack' = stk
        \/ \E c : stack' = Append(stk, c) /\ c.fn # "tcc_load_alacarte"
        \/ stack' = Append(stk, Alacarte(f)) /\ f.index # <<>> /\ symtab' = symtab
    <2>1. /\ \A d : Needed(d).fn # "tcc_load_alacarte"
          /\ \A d : Script(d).fn # "tcc_load_alacarte"
          /\ \A d : Members(d).fn # "tcc_load_alacarte"
      BY DEF Needed, Script, Members
    <2>2. CASE path \notin DOMAIN Files
      BY <2>2 DEF tcc_add_file_internal
    <2>3. CASE path \in DOMAIN Files
      <3>1. \/ stack' = stk
            \/ tcc_load_dll(f, level, stk)
            \/ /\ stack' = Append(stk, IF f.index # <<>> THEN Alacarte(f) ELSE Members(f))
               /\ symtab' = symtab
            \/ stack' = Append(stk, Script(f.list))
        BY <1>1, <2>3, Zenon DEF tcc_add_file_internal, Below, data
      <3>2. CASE tcc_load_dll(f, level, stk)
        <4>1. stack' = stk \/ stack' = Append(stk, Needed(f))
          BY <3>2, Zenon DEF tcc_load_dll, Below
        <4> QED
          BY <2>1, <4>1
      <3> QED
        BY <2>1, <3>1, <3>2
    <2> QED
      BY <2>2, <2>3
  <1>3. CASE stack' = stk
    BY <1>3, NoneLooks DEF LookInv
  <1>4. ASSUME NEW c, stack' = Append(stk, c), c.fn # "tcc_load_alacarte" PROVE LookInv'
    BY <1>4, LookPushed DEF LookInv
  <1>5. CASE stack' = Append(stk, Alacarte(f)) /\ f.index # <<>> /\ symtab' = symtab
    <2>1. PICK T, c : T = symtab /\ c = Alacarte(f)
      OBVIOUS
    <2>2. c = LookCall(f, 0, FALSE, T, <<>>)
      BY <2>1 DEF Alacarte, LookCall
    <2>3. IsLook(c) /\ Looks(c, T)
      <3>1. Looking(f, 0, FALSE, T, <<>>, T)
        BY LookBegins
      <3> QED
        <4>1. /\ c.ar = f /\ c.i = 0 /\ c.bound = FALSE /\ c.before = T /\ c.taken = <<>>
          BY ONLY <2>2 DEF LookCall
        <4> QED
          BY <1>5, <2>2, <3>1, <4>1, Zenon DEF IsLook, Looks
    <2>4. symtab' = T /\ stack' = Append(stk, c)
      BY <1>5, <2>1
    <2> QED
      BY <2>3, <2>4, LookPushed DEF LookInv
  <1> QED
    BY <1>2, <1>3, <1>4, <1>5

\* What is below the innermost call, and what that is.
LEMMA LookBelow ==
  ASSUME CallsOK(stack), LookInv, stack # <<>>
  PROVE  /\ Sequence(Rest) /\ NoLook(Rest) /\ IsCall(Top)
         /\ Top.fn = "tcc_load_alacarte" => IsLook(Top) /\ (ret # "fail" => Looks(Top, symtab))
PROOF
  <1>1. CallsOK(Rest) /\ IsCall(Top)
    BY Popped
  <1> QED
    BY <1>1 DEF LookInv, OneLooks, CallsOK, Top, Rest

\* A call that goes on stays the call it is.
LEMMA SameCall ==
  ASSUME NEW c, IsCall(c), NEW x
  PROVE  [c EXCEPT !.i = x].fn = c.fn /\ [c EXCEPT !.tried = x].fn = c.fn
PROOF
  BY DEF IsCall

\* The steps of tcc_load_alacarte.
LEMMA IndexLooks ==
  ASSUME FilesWellFormed, ArchivesTell, CallsOK(stack), TellInv, Sequence(objects), LookInv,
         IndexEntry
  PROVE  LookInv'
PROOF
  <1>1. stack # <<>> /\ Top.fn = "tcc_load_alacarte" /\ ret # "fail" /\ Top.i < Len(Top.ar.index)
    BY DEF IndexEntry, Runs
  <1>2. PICK c, rest, T : c = Top /\ rest = Rest /\ T = symtab
    OBVIOUS
  <1>3. Sequence(rest) /\ NoLook(rest) /\ IsCall(c) /\ IsLook(c) /\ Looks(c, T)
    BY <1>1, <1>2, LookBelow
  <1>4. PICK ar, i, bound, before, taken :
          /\ c = LookCall(ar, i, bound, before, taken)
          /\ ar = c.ar /\ i = c.i /\ bound = c.bound /\ before = c.before /\ taken = c.taken
    BY <1>3 DEF IsLook
  <1>5. /\ ar \in Archives /\ i \in Nat /\ i < Len(ar.index) /\ ar.index # <<>>
        /\ Looking(ar, i, bound, before, taken, T)
    BY <1>1, <1>2, <1>3, <1>4 DEF IsCall, ThroughArchive, IsLook, Looks
  <1>6. PICK e, m : e = ar.index[i + 1] /\ m = e.member
    OBVIOUS
  <1>7. PICK b, t, next :
          /\ b = (bound \/ Undefined(T, e.name))
          /\ t = IF Undefined(T, e.name) THEN Append(taken, m) ELSE taken
          /\ next = LookCall(ar, i + 1, b, before, t)
    OBVIOUS
  <1>8. stack' = Append(rest, next)
    <2>1. stack' = Append(Rest, [Top EXCEPT !.i = @ + 1, !.bound = @ \/ Undefined(symtab, e.name),
                                            !.taken = IF Undefined(symtab, e.name)
                                                      THEN Append(@, m) ELSE @])
      BY <1>2, <1>4, <1>6, Zenon DEF IndexEntry
    <2>2. next = [c EXCEPT !.i = i + 1, !.bound = b, !.taken = t]
      <3>1. PICK x, y : /\ x = LookCall(ar, i + 1, bound, before, taken)
                        /\ y = LookCall(ar, i + 1, b, before, taken)
        OBVIOUS
      <3>2. c = LookCall(ar, i, bound, before, taken) /\ next = LookCall(ar, i + 1, b, before, t)
        BY <1>4, <1>7, Zenon
      <3>3. [c EXCEPT !.i = i + 1] = x
        BY ONLY <3>1, <3>2 DEF LookCall
      <3>4. [x EXCEPT !.bound = b] = y
        BY ONLY <3>1 DEF LookCall
      <3>5. [y EXCEPT !.taken = t] = next
        BY ONLY <3>1, <3>2 DEF LookCall
      <3> QED
        BY <3>3, <3>4, <3>5, Zenon
    <2>3. c.i = i /\ c.bound = bound /\ c.taken = taken
      BY <1>4, Zenon
    <2> QED
      BY <1>2, <1>7, <2>1, <2>2, <2>3, Zenon
  <1>9. /\ IsLook(next)
        /\ next.ar = ar /\ next.i = i + 1 /\ next.bound = b /\ next.before = before /\ next.taken = t
    <2>1. /\ next.ar = ar /\ next.i = i + 1 /\ next.bound = b /\ next.before = before
          /\ next.taken = t
      <3>1. next = LookCall(ar, i + 1, b, before, t)
        BY <1>7, Zenon
      <3> QED
        BY ONLY <3>1 DEF LookCall
    <2> QED
      BY <1>5, <1>7, <2>1, Zenon DEF IsLook
  <1>10. CASE ~Undefined(T, e.name)
    <2>1. symtab' = T
      BY <1>2, <1>4, <1>6, <1>10, Zenon DEF IndexEntry, data
    <2>2. ~b => ~bound
      BY <1>7
    <2>3. Looking(ar, i + 1, b, before, taken, T)
      <3>1. ~Undefined(T, ar.index[i + 1].name)
        BY <1>6, <1>10
      <3> QED
        <4>1. \A k \in 1 .. i + 1 : k \in 1 .. i \/ k = i + 1
          BY <1>5
        <4>2. ~b => \A k \in 1 .. i + 1 : ~Undefined(T, ar.index[k].name)
          BY <1>5, <2>2, <3>1, <4>1 DEF Looking
        <4> QED
          BY <1>5, <4>2 DEF Looking
    <2>4. t = taken
      BY <1>7, <1>10
    <2>5. Looks(next, T)
      BY <1>9, <2>3, <2>4 DEF Looks
    <2>6. OneLooks(Append(rest, next), T, ret')
      BY <1>3, <1>9, <2>5, LookPushed
    <2> QED
      BY <1>8, <2>1, <2>6 DEF LookInv
  <1>11. CASE Undefined(T, e.name)
    <2>1. PICK o : o = ar.members[m]
      OBVIOUS
    <2>2. tcc_load_object_file(o) /\ (ret' # "fail" => objects'[Len(objects')])
      <3>1. /\ tcc_load_object_file(Top.ar.members[Top.ar.index[Top.i + 1].member])
            /\ ret' = IF objects'[Len(objects')] THEN ret ELSE "fail"
        BY <1>2, <1>4, <1>6, <1>11, Zenon DEF IndexEntry, Return
      <3> QED
        BY <1>2, <1>4, <1>6, <2>1, <3>1
    <2>3. i + 1 \in DOMAIN ar.index /\ ArchiveOK(ar) /\ IndexTells(ar)
      <3>1. ArchiveOK(ar) /\ IndexTells(ar)
        BY <1>5 DEF FilesWellFormed, ArchivesTell
      <3>2. PICK index : index = ar.index
        OBVIOUS
      <3>3. Sequence(index) /\ i < Len(index) /\ i \in Nat
        BY <1>5, <3>1, <3>2 DEF ArchiveOK
      <3>4. i + 1 \in DOMAIN index
        BY ONLY <3>3 DEF Sequence
      <3> QED
        BY <3>1, <3>2, <3>4
    <2>4. o \in ObjectFiles /\ TellsNames(o)
      BY <1>5, <1>6, <2>1, <2>3, MembersAreObjects DEF ArchivesTell
    <2>5. objects'[Len(objects')] => Tells(symtab, symtab', UsedBy(o), GlobalsOf(o))
      BY <2>2, <2>4, LoadTells
    <2>6. PICK U : U = symtab'
      OBVIOUS
    <2>7. ASSUME ret' # "fail" PROVE Looks(next, U)
      <3>1. Tells(T, U, UsedBy(ar.members[m]), GlobalsOf(ar.members[m]))
        BY <1>2, <2>1, <2>2, <2>5, <2>6, <2>7
      <3>2. b /\ t = Append(taken, m)
        BY <1>7, <1>11
      <3>3. Looking(ar, i + 1, b, before, t, U)
        BY <1>5, <1>6, <1>11, <2>3, <3>1, <3>2, LookTakes
      <3> QED
        BY <1>9, <3>3 DEF Looks
    <2>8. OneLooks(Append(rest, next), U, ret')
      BY <1>3, <1>9, <2>7, LookPushed
    <2> QED
      BY <1>8, <2>6, <2>8 DEF LookInv
  <1> QED
    BY <1>10, <1>11

\* Every step of the calls.
LEMMA LookStep ==
  ASSUME FilesWellFormed, ArchivesTell, CallsOK(stack), TellInv, Sequence(objects), LookInv, Step
  PROVE  LookInv'
PROOF
  <1>1. ASSUME NEW fn, Runs(fn) PROVE stack # <<>> /\ Top.fn = fn
    BY <1>1 DEF Runs
  <1>2. ASSUME stack # <<>>
        PROVE  /\ Sequence(Rest) /\ NoLook(Rest) /\ IsCall(Top)
               /\ Top.fn = "tcc_load_alacarte" => IsLook(Top) /\ (ret # "fail" => Looks(Top, symtab))
    BY <1>2, LookBelow
  <1>3. ASSUME NEW r, stack # <<>>, Returns(r) PROVE LookInv'
    <2>1. stack' = Rest
      BY <1>3 DEF Returns
    <2> QED
      BY <1>2, <1>3, <2>1, NoneLooks DEF LookInv
  <1>4. ASSUME stack # <<>>, Top.fn # "tcc_load_alacarte", NEW c,
               \E x : c = [Top EXCEPT !.i = x] \/ c = [Top EXCEPT !.tried = x]
        PROVE  Sequence(Append(Rest, c)) /\ NoLook(Append(Rest, c))
    <2>1. PICK top, rest : top = Top /\ rest = Rest
      OBVIOUS
    <2>2. Sequence(rest) /\ NoLook(rest) /\ IsCall(top) /\ top.fn # "tcc_load_alacarte"
      BY <1>2, <1>4, <2>1
    <2>3. PICK x : c = [top EXCEPT !.i = x] \/ c = [top EXCEPT !.tried = x]
      BY <1>4, <2>1
    <2>4. c.fn # "tcc_load_alacarte"
      BY <2>2, <2>3, SameCall
    <2>5. Sequence(Append(rest, c)) /\ NoLook(Append(rest, c))
      BY <2>2, <2>4, Appending, LookPushed
    <2> QED
      BY <2>1, <2>5
  <1>5. ASSUME NEW stk, Sequence(stk), NoLook(stk), NEW c,
               stack' = stk \/ (stack' = Append(stk, c) /\ c.fn # "tcc_load_alacarte")
        PROVE  LookInv'
    BY <1>5, NoneLooks, LookPushed DEF LookInv
  <1>6. /\ \A n, l : AddDll(n, l).fn # "tcc_load_alacarte"
        /\ "tcc_add_dll" # "tcc_load_alacarte" /\ "tcc_add_library" # "tcc_load_alacarte"
        /\ "tcc_load_archive" # "tcc_load_alacarte" /\ "tcc_load_dll" # "tcc_load_alacarte"
        /\ "ld_add_file_list" # "tcc_load_alacarte"
    BY DEF AddDll
  <1>7. CASE SearchNext
    <2>1. stack # <<>> /\ Top.fn = "tcc_add_dll"
      BY <1>1, <1>7 DEF SearchNext
    <2>2. PICK level, path, c : /\ level = Top.level
                                /\ path = <<LibraryPaths[Top.i + 1], Top.name>>
                                /\ c = [Top EXCEPT !.i = @ + 1]
      OBVIOUS
    <2>3. Sequence(Append(Rest, c)) /\ NoLook(Append(Rest, c))
      BY <1>4, <1>6, <2>1, <2>2
    <2>4. tcc_add_file_internal(path, level, Append(Rest, c))
      BY <1>7, <2>2 DEF SearchNext
    <2>5. PICK stk : stk = Append(Rest, c)
      OBVIOUS
    <2> QED
      BY <2>3, <2>4, <2>5, AddFileLooks
  <1>8. CASE LibraryNext
    <2>1. stack # <<>> /\ Top.fn = "tcc_add_library"
      BY <1>1, <1>8 DEF LibraryNext
    <2>2. PICK t, n : stack' = Append(Append(Rest, [Top EXCEPT !.tried = t]), AddDll(n, 0))
      BY <1>8 DEF LibraryNext, Below
    <2>3. PICK stk, c : stk = Append(Rest, [Top EXCEPT !.tried = t]) /\ c = AddDll(n, 0)
      OBVIOUS
    <2>4. Sequence(stk) /\ NoLook(stk)
      BY <1>4, <1>6, <2>1, <2>3
    <2> QED
      BY <1>5, <1>6, <2>2, <2>3, <2>4
  <1>9. CASE IndexEntry
    BY <1>9, IndexLooks
  <1>10. CASE IndexEnds
    <2>1. stack # <<>> /\ Top.fn = "tcc_load_alacarte" /\ ret # "fail"
      BY <1>1, <1>10 DEF IndexEnds
    <2>2. CASE Again(Top)
      <3>1. stack' = Append(Rest, NextPass(Top)) /\ symtab' = symtab
        BY <1>10, <2>2 DEF IndexEnds, data
      <3>2. PICK c, rest, T, next : c = Top /\ rest = Rest /\ T = symtab /\ next = NextPass(c)
        OBVIOUS
      <3>3. Sequence(rest) /\ NoLook(rest) /\ IsLook(c) /\ Looks(c, T)
        BY <1>2, <2>1, <3>2
      <3>4. PICK ar, i, bound, before, taken :
              /\ c = LookCall(ar, i, bound, before, taken)
              /\ ar = c.ar /\ i = c.i /\ bound = c.bound /\ before = c.before /\ taken = c.taken
              /\ ar.index # <<>>
        BY <3>3 DEF IsLook
      <3>5. next = LookCall(ar, 0, FALSE, before, taken)
        <4>1. PICK x, f : x = LookCall(ar, 0, bound, before, taken) /\ f = FALSE
          OBVIOUS
        <4>2. c = LookCall(ar, i, bound, before, taken)
          BY <3>4, Zenon
        <4>3. [c EXCEPT !.i = 0] = x
          BY ONLY <4>1, <4>2 DEF LookCall
        <4>4. [x EXCEPT !.bound = f] = LookCall(ar, 0, f, before, taken)
          BY ONLY <4>1 DEF LookCall
        <4> QED
          BY <3>2, <4>1, <4>3, <4>4, Zenon DEF NextPass
      <3>6. Looking(ar, i, bound, before, taken, T)
        BY <3>3, <3>4 DEF Looks
      <3>7. Looking(ar, 0, FALSE, before, taken, T)
        BY <3>6, LookAgain
      <3>8. IsLook(next) /\ Looks(next, T)
        <4>1. /\ next.ar = ar /\ next.i = 0 /\ next.bound = FALSE /\ next.before = before
              /\ next.taken = taken
          BY ONLY <3>5 DEF LookCall
        <4> QED
          BY <3>4, <3>5, <3>7, <4>1, Zenon DEF IsLook, Looks
      <3>9. OneLooks(Append(rest, next), T, ret')
        BY <3>3, <3>8, LookPushed
      <3> QED
        BY <3>1, <3>2, <3>9 DEF LookInv
    <2>3. CASE ~Again(Top)
      BY <1>3, <1>10, <2>1, <2>3 DEF IndexEnds
    <2> QED
      BY <2>2, <2>3
  <1>11. CASE MemberNext
    <2>1. stack # <<>> /\ Top.fn = "tcc_load_archive"
      BY <1>1, <1>11 DEF MemberNext
    <2>2. PICK stk : stk = Append(Rest, [Top EXCEPT !.i = @ + 1])
      OBVIOUS
    <2>3. Sequence(stk) /\ NoLook(stk)
      BY <1>4, <1>6, <2>1, <2>2
    <2>4. stack' = stk
      BY <1>11, <2>2 DEF MemberNext
    <2> QED
      BY <1>5, <2>3, <2>4
  <1>12. CASE NeededNext
    <2>1. stack # <<>> /\ Top.fn = "tcc_load_dll"
      BY <1>1, <1>12 DEF NeededNext
    <2>2. PICK stk, n : /\ stk = Append(Rest, [Top EXCEPT !.i = @ + 1])
                        /\ stack' = stk \/ stack' = Append(stk, AddDll(n, 1))
      BY <1>12 DEF NeededNext, Below
    <2>3. Sequence(stk) /\ NoLook(stk)
      BY <1>4, <1>6, <2>1, <2>2
    <2>4. PICK c : c = AddDll(n, 1)
      OBVIOUS
    <2> QED
      BY <1>5, <1>6, <2>2, <2>3, <2>4
  <1>13. CASE ScriptNext
    <2>1. stack # <<>> /\ Top.fn = "ld_add_file_list"
      BY <1>1, <1>13 DEF ScriptNext
    <2>2. PICK stk, path, n : /\ stk = Append(Rest, [Top EXCEPT !.i = @ + 1])
                              /\ \/ stack' = stk
                                 \/ tcc_add_file_internal(path, 0, stk)
                                 \/ stack' = Append(stk, AddDll(n, 0))
      BY <1>13 DEF ScriptNext, Below
    <2>3. Sequence(stk) /\ NoLook(stk)
      BY <1>4, <1>6, <2>1, <2>2
    <2>4. PICK c : c = AddDll(n, 0)
      OBVIOUS
    <2>5. CASE tcc_add_file_internal(path, 0, stk)
      BY <2>3, <2>5, AddFileLooks
    <2> QED
      BY <1>5, <1>6, <2>2, <2>3, <2>4, <2>5
  <1>14. CASE \/ Searched \/ LibraryFound \/ AlacarteFails \/ MembersEnd \/ NeededEnd \/ ScriptEnds
    <2>1. stack # <<>>
      BY <1>14 DEF Searched, LibraryFound, AlacarteFails, MembersEnd, NeededEnd, ScriptEnds, Runs
    <2>2. \E r : Returns(r)
      BY <1>14 DEF Searched, LibraryFound, AlacarteFails, MembersEnd, NeededEnd, ScriptEnds
    <2> QED
      BY <1>3, <2>1, <2>2
  <1> QED
    BY <1>7, <1>8, <1>9, <1>10, <1>11, <1>12, <1>13, <1>14 DEF Step

\* What the user asks for, and steps of others.
LEMMA LookNext ==
  ASSUME FilesWellFormed, ArchivesTell, CallsOK(stack), TellInv, Sequence(objects), LookInv,
         [Next]_vars
  PROVE  LookInv'
PROOF
  <1>1. Sequence(<<>>) /\ NoLook(<<>>)
    BY DEF Sequence, NoLook
  <1>2. CASE Step
    BY <1>2, LookStep
  <1>3. ASSUME NEW p, tcc_add_file(p) PROVE LookInv'
    <2>1. tcc_add_file_internal(p, 0, <<>>)
      BY <1>3 DEF tcc_add_file
    <2> QED
      BY <1>1, <2>1, AddFileLooks
  <1>4. ASSUME NEW l, tcc_add_library(l) PROVE LookInv'
    <2>1. PICK c : c = AddLibrary(l)
      OBVIOUS
    <2>2. stack' = Append(<<>>, c) /\ c.fn # "tcc_load_alacarte"
      BY <1>4, <2>1 DEF tcc_add_library, Below, AddLibrary
    <2> QED
      BY <1>1, <2>2, LookPushed DEF LookInv
  <1>5. CASE UNCHANGED vars
    BY <1>5 DEF vars, LookInv
  <1> QED
    BY <1>2, <1>3, <1>4, <1>5 DEF Next

\* When an archive is done with, its members are those that were wanted.
LEMMA LookShows ==
  ASSUME FilesWellFormed, ArchivesTell, CallsOK(stack), LookInv, IndexEnds, Len(stack') < Len(stack)
  PROVE  /\ ToSet(Top.taken) = Wanted(Top.ar, Top.before)
         /\ Len(Top.taken) = Cardinality(ToSet(Top.taken))
PROOF
  <1>1. /\ stack # <<>> /\ Top.fn = "tcc_load_alacarte" /\ ret # "fail"
        /\ Top.i = Len(Top.ar.index)
    BY DEF IndexEnds, Runs
  <1>2. PICK c, rest, T : c = Top /\ rest = Rest /\ T = symtab
    OBVIOUS
  <1>3. Sequence(rest) /\ IsCall(c) /\ IsLook(c) /\ Looks(c, T)
    BY <1>1, <1>2, LookBelow
  <1>4. ~Again(c)
    <2> SUFFICES ASSUME Again(Top) PROVE FALSE
      BY <1>2
    <2>1. PICK next : next = NextPass(Top)
      OBVIOUS
    <2>2. stack' = Append(rest, next)
      BY <1>2, <2>1 DEF IndexEnds
    <2>3. Len(stack') = Len(rest) + 1 /\ Len(rest) \in Nat
      BY <1>3, <2>2, Appending
    <2>4. Len(rest) = Len(stack) - 1 /\ Len(stack) \in Nat
      BY <1>1, <1>2, Fronts DEF Rest, CallsOK
    <2> QED
      BY <2>3, <2>4
  <1>5. PICK ar, i, bound, before, taken :
          /\ c = LookCall(ar, i, bound, before, taken)
          /\ ar = c.ar /\ i = c.i /\ bound = c.bound /\ before = c.before /\ taken = c.taken
    BY <1>3 DEF IsLook
  <1>6. /\ ar \in Archives /\ ar.index # <<>> /\ i = Len(ar.index) /\ ~bound
        /\ Looking(ar, i, bound, before, taken, T)
    BY <1>1, <1>2, <1>3, <1>4, <1>5 DEF IsCall, ThroughArchive, IsLook, Looks, Again
  <1>7. Looking(ar, Len(ar.index), FALSE, before, taken, T)
    BY <1>6 DEF Looking
  <1>8. ArchiveOK(ar) /\ IndexTells(ar)
    BY <1>6 DEF FilesWellFormed, ArchivesTell
  <1>9. ToSet(taken) = Wanted(ar, before) /\ Len(taken) = Cardinality(ToSet(taken))
    BY <1>7, <1>8, LookEnds
  <1> QED
    BY <1>2, <1>5, <1>9

\* tcc_load_alacarte: whatever the archives, the order of an index, and what was
\* linked before, when it has gone through an index the last time the members it
\* has loaded are those that the undefined symbols lead to, each once.
THEOREM MembersAreWanted ==
  ASSUME FilesWellFormed, ArchivesTell
  PROVE  Spec => MembersAsWanted
PROOF
  <1> DEFINE Inv == DllInv /\ ImageInv /\ TellInv /\ LookInv
             Loads == IndexEnds /\ Len(stack') < Len(stack) =>
                        /\ ToSet(Top.taken) = Wanted(Top.ar, Top.before)
                        /\ Len(Top.taken) = Cardinality(ToSet(Top.taken))
  <1>1. Init => Inv
    <2> SUFFICES ASSUME Init PROVE Inv
      OBVIOUS
    <2>1. OnceFits /\ NamesFit /\ stack = <<>>
      BY DEF FilesWellFormed, Init
    <2>2. LookInv
      BY <2>1 DEF LookInv, OneLooks
    <2> QED
      BY <2>1, <2>2, DllInit, ImageInit, TellInit
  <1>2. Inv => CallsOK(stack) /\ Sequence(objects)
    BY DEF DllInv, ImageInv
  <1>3. Inv /\ [Next]_vars => Inv'
    BY <1>2, DllNext, ImageNext, TellNext, LookNext
  <1>4. Inv /\ [Next]_vars => [Loads]_vars
    BY <1>2, LookShows
  <1> HIDE DEF Inv, Loads
  <1>5. Spec => [][Loads]_vars
    BY <1>1, <1>3, <1>4, PTL DEF Spec
  <1> QED
    BY <1>5 DEF MembersAsWanted, Loads
=============================================================================

------------------------------ MODULE ElfSymtab ------------------------------
(***************************************************************************)
(* The ELF symbol table (tccelf.c: put_elf_sym, find_elf_sym, rebuild_hash, *)
(* add_elf_sym, sort_syms; tcc.c: put_extern_sym2, greloc).  Compilation    *)
(* units and object files enter their symbols one by one, in any order.    *)
(* Global and weak symbols are found again through a hash table that grows *)
(* while they are entered, so that a name has one entry; relocations refer *)
(* to entries by number, until the table is sorted for the output file.    *)
(***************************************************************************)
EXTENDS Naturals, Sequences, FiniteSets

CONSTANTS
  Function, Variable,  \* names that units use
  Library,             \* names that only objects and tcc_add_symbol use
  Static,              \* names that units may declare static
  FileName,            \* the name of a unit's STT_FILE symbol
  elf_hash,            \* a number for each name
  Objects,             \* the object files that may be loaded
  Redefinitions,       \* which doubtful redefinitions units may contain
  MaxInputs,           \* bound: units, objects and added symbols
  MaxSyms,             \* bound: entries of the table
  MaxRelocs            \* bound: relocation entries

Name == Function \cup Variable \cup Library
SymName == Name \cup {FileName}

Bind == {"local", "global", "weak"}

\* STV_DEFAULT, STV_INTERNAL, STV_HIDDEN, STV_PROTECTED.
Default == 0
Internal == 1
Hidden == 2
Protected == 3
Visibility == Default .. Protected

\* "common": allocated when the program is linked; "undef": defined elsewhere.
Place == {"undef", "common", "abs", "text", "data", "bss"}

\* An entry.  st_value is reduced to the input that set it, 0 for none.
\* `from' is a ghost: the input that made the entry.
Elf32_Sym == [name : SymName, bind : Bind, vis : Visibility, shndx : Place,
              value : Nat, from : Nat]

\* A relocation against symbol number sym.  Ghosts: the name it was made for,
\* and the input if it is for a symbol of that input only.
Elf32_Rel == [sym : Nat, name : Name, from : Nat]

\* What an object file brings: symbols, and those its relocations are for.
ObjectSym == [name : Name, bind : Bind, vis : Visibility, shndx : Place \ {"bss"}]
Object == [syms : Seq(ObjectSym), rels : SUBSET (Nat \ {0})]

ASSUME SymtabAssumption ==
  /\ elf_hash \in [SymName -> Nat]
  /\ FileName \notin Name
  /\ Objects \subseteq Object
  /\ \A o \in Objects : o.rels \subseteq DOMAIN o.syms
  /\ Redefinitions \subseteq {"after use", "tentative"}
  /\ MaxInputs \in Nat
  /\ MaxSyms \in Nat
  /\ MaxRelocs \in Nat

VARIABLES
  tab,       \* symtab_section and its hash section
  rels,      \* the entries of the relocation sections
  unit,      \* the file-scope Sym of each name in the unit being compiled
  loading,   \* the object being loaded, and old_to_new_syms
  phase,     \* "between" inputs, in a "unit" or "object", "linked", "sorted"
  inputs,    \* inputs so far
  reported,  \* names reported as defined twice
  given      \* ghost: the inputs that define each name, for all others to see

vars == <<tab, rels, unit, loading, phase, inputs, reported, given>>

\* A Sym: declared "no", as "extern", or "yes" with storage; static or not;
\* c, the number of its entry, 0 while it has none.
Sym == [declared : {"no", "extern", "yes"}, static : BOOLEAN, c : Nat]
NoSyms == [n \in Name |-> [declared |-> "no", static |-> FALSE, c |-> 0]]
NoObject == [syms |-> <<>>, rels |-> {}]
NothingLoading == [object |-> NoObject, map |-> <<>>]

(***************************************************************************)
(* The hash table: bucket and chain link each global or weak symbol to the *)
(* one entered before it in the same bucket.                               *)
(***************************************************************************)
BucketOf(n, nb) == elf_hash[n] % nb

\* The last of the first k symbols that is hashed to bucket h, or 0.
Hashed(syms, i, h, nb) == syms[i].bind # "local" /\ BucketOf(syms[i].name, nb) = h
Newest(syms, k, h, nb) ==
  LET these == {i \in 1 .. k : Hashed(syms, i, h, nb)}
  IN  IF these = {} THEN 0 ELSE CHOOSE i \in these : \A j \in these : j <= i

\* Mutant: the symbol that made the table grow is not counted in nb_syms.
RebuildForgetsLast(t, nb) ==
  LET syms == t.syms IN
  [t EXCEPT !.nbuckets = nb,
            !.bucket = [h \in 0 .. nb - 1 |-> Newest(syms, Len(syms) - 1, h, nb)],
            !.chain = [i \in 1 .. Len(syms) |->
                         IF syms[i].bind = "local" THEN 0
                         ELSE Newest(syms, i - 1, BucketOf(syms[i].name, nb), nb)]]

\* All symbols are linked again, the oldest first.
rebuild_hash(t, nb) ==
  LET syms == t.syms IN
  [t EXCEPT !.nbuckets = nb,
            !.bucket = [h \in 0 .. nb - 1 |-> Newest(syms, Len(syms), h, nb)],
            !.chain = [i \in 1 .. Len(syms) |->
                         IF syms[i].bind = "local" THEN 0
                         ELSE Newest(syms, i - 1, BucketOf(syms[i].name, nb), nb)]]

\* Mutant: no chain word is added for a local symbol.
PutWithoutChainWord(t, s) ==
  LET i == Len(t.syms) + 1
      h == BucketOf(s.name, t.nbuckets)
  IN IF s.bind = "local" THEN [t EXCEPT !.syms = Append(@, s)]
     ELSE [t EXCEPT !.syms = Append(@, s), !.chain = Append(@, t.bucket[h]),
                    !.bucket[h] = i, !.nb_hashed_syms = @ + 1]

\* The symbol is put in front of its chain; locals only get a chain word.
Linked(t, s) ==
  LET i == Len(t.syms) + 1
      h == BucketOf(s.name, t.nbuckets)
  IN IF s.bind = "local" THEN [t EXCEPT !.syms = Append(@, s), !.chain = Append(@, 0)]
     ELSE [t EXCEPT !.syms = Append(@, s), !.chain = Append(@, t.bucket[h]),
                    !.bucket[h] = i, !.nb_hashed_syms = @ + 1]

put_elf_sym(t, s) ==
  LET u == Linked(t, s)
  IN IF s.bind # "local" /\ u.nb_hashed_syms > 2 * u.nbuckets
     THEN rebuild_hash(u, 2 * u.nbuckets) ELSE u

\* What following the links from the head of bucket h reaches.
OnChain(t, h) ==
  {i \in DOMAIN t.syms :
     \A S \in SUBSET DOMAIN t.syms :
       /\ t.bucket[h] # 0 => t.bucket[h] \in S
       /\ \A j \in S : t.chain[j] # 0 => t.chain[j] \in S
       => i \in S}

\* Links lead to older symbols: the first that bears the name is the newest.
find_elf_sym(t, n) ==
  LET hits == {i \in OnChain(t, BucketOf(n, t.nbuckets)) : t.syms[i].name = n}
  IN  IF hits = {} THEN 0 ELSE CHOOSE i \in hits : \A j \in hits : j <= i

(***************************************************************************)
(* add_elf_sym: what becomes of an entry when its name comes again         *)
(***************************************************************************)
\* The most constraining: internal, hidden, protected, default.
Constrained(v, w) ==
  IF v = Default THEN w ELSE IF w = Default THEN v ELSE IF v < w THEN v ELSE w

\* Mutant: "global overrides weak" forgets to look at what is there.
OverridesAnything(s, e) == s.bind = "global"
Overrides(s, e) == s.bind = "global" /\ e.bind = "weak"

Merged(e, s) ==
  CASE e.shndx = "undef" -> s
    [] e.shndx # "undef" /\ s.shndx # "undef" /\ Overrides(s, e) ->
         [s EXCEPT !.vis = Constrained(e.vis, s.vis)]
    [] OTHER -> [e EXCEPT !.vis = Constrained(e.vis, s.vis)]

\* Mutant: the visibility that was merged (new_vis) is tested, not the new
\* symbol's: one hidden symbol silences every clash that comes after it.
ClashByMergedVis(e, s) ==
  /\ e.shndx # "undef"
  /\ s.shndx # "undef"
  /\ ~Overrides(s, e)
  /\ ~(s.bind = "weak" /\ e.bind = "global")
  /\ Constrained(e.vis, s.vis) \notin {Hidden, Internal}

\* "'%s' defined twice": neither gives way, and the new one is visible.
Clash(e, s) ==
  /\ e.shndx # "undef"
  /\ s.shndx # "undef"
  /\ ~Overrides(s, e)
  /\ ~(s.bind = "weak" /\ e.bind = "global")
  /\ s.vis \notin {Hidden, Internal}

\* The entry add_elf_sym patches, or 0.
Existing(t, s) == IF s.bind = "local" THEN 0 ELSE find_elf_sym(t, s.name)

add_elf_sym(t, s) ==
  LET i == Existing(t, s)
  IN  IF i = 0 THEN put_elf_sym(t, s) ELSE [t EXCEPT !.syms[i] = Merged(@, s)]

NumberOf(t, s) == IF Existing(t, s) = 0 THEN Len(t.syms) + 1 ELSE Existing(t, s)

\* Every symbol that is entered goes through here.
Report(s) ==
  reported' = IF Existing(tab, s) # 0 /\ Clash(tab.syms[Existing(tab, s)], s)
              THEN reported \cup {s.name} ELSE reported

Give(s) ==
  given' = IF /\ s.bind = "global" /\ s.shndx \in {"abs", "text", "data"}
              /\ s.vis \notin {Hidden, Internal}
           THEN [given EXCEPT ![s.name] = @ \cup {inputs'}] ELSE given

Fits == Len(tab'.syms) <= MaxSyms /\ Cardinality(rels') <= MaxRelocs

(***************************************************************************)
(* A compilation unit                                                      *)
(***************************************************************************)
Init ==
  /\ tab = [syms |-> <<>>, nbuckets |-> 1, bucket |-> [h \in {0} |-> 0],
            chain |-> <<>>, nb_hashed_syms |-> 0]
  /\ rels = {}
  /\ unit = NoSyms
  /\ loading = NothingLoading
  /\ phase = "between"
  /\ inputs = 0
  /\ reported = {}
  /\ given = [n \in Name |-> {}]

\* tcc_compile enters the name of the file, "so that STB_LOCAL symbols can be
\* safely used".
StartUnit ==
  /\ phase = "between"
  /\ inputs < MaxInputs
  /\ phase' = "unit"
  /\ inputs' = inputs + 1
  /\ tab' = put_elf_sym(tab, [name |-> FileName, bind |-> "local", vis |-> Default,
                               shndx |-> "abs", value |-> 0, from |-> inputs'])
  /\ UNCHANGED <<rels, unit, loading, reported, given>>
  /\ Fits

\* The unit ends or is abandoned: its Syms are popped.
EndUnit ==
  /\ phase = "unit"
  /\ phase' = "between"
  /\ unit' = NoSyms
  /\ UNCHANGED <<tab, rels, loading, inputs, reported, given>>

\* The symbol of the unit's n.
Symbol(n, static, shndx, value) ==
  [name |-> n, bind |-> IF static THEN "local" ELSE "global", vis |-> Default,
   shndx |-> shndx, value |-> value, from |-> inputs]

\* Once the Sym knows its entry, the entry is overwritten without a look.
put_extern_sym2(n, static, shndx, value) ==
  IF unit[n].c = 0 THEN add_elf_sym(tab, Symbol(n, static, shndx, value))
  ELSE [tab EXCEPT !.syms[unit[n].c] = [@ EXCEPT !.shndx = shndx, !.value = value]]

Number(n, static) ==
  IF unit[n].c = 0 THEN NumberOf(tab, Symbol(n, static, "undef", 0)) ELSE unit[n].c

ReportAdded(n, static, shndx) ==
  IF unit[n].c = 0 THEN Report(Symbol(n, static, shndx, inputs)) ELSE UNCHANGED reported

\* Units are taken to agree on static in all declarations of a name: the
\* binding of a function already used is that of its first declaration, else
\* that of its definition.
DeclaredAs(n, static) == unit[n].declared = "no" \/ unit[n].static = static

\* external_sym, then greloc: the first use enters the name as undefined.
\* A declaration that is not used leaves no trace in the table.
Use(n, static) ==
  /\ phase = "unit"
  /\ DeclaredAs(n, static)
  /\ tab' = IF unit[n].c = 0 THEN put_extern_sym2(n, static, "undef", 0) ELSE tab
  /\ unit' = [unit EXCEPT ![n] =
                [declared |-> IF @.declared = "no" THEN "extern" ELSE @.declared,
                 static |-> static, c |-> Number(n, static)]]
  /\ rels' = rels \cup {[sym |-> Number(n, static), name |-> n,
                        from |-> IF static THEN inputs ELSE 0]}
  /\ Fits
  /\ UNCHANGED <<loading, phase, inputs, reported, given>>

\* The entry a definition of n will touch, if any, is no other input's
\* definition.
Untouched(i) ==
  i # 0 => tab.syms[i].shndx \in {"undef", "common"} \/ tab.syms[i].value = inputs

\* gen_function.
DefineFunction(n, static) ==
  /\ phase = "unit"
  /\ DeclaredAs(n, static)
  /\ "after use" \notin Redefinitions => Untouched(unit[n].c)
  /\ tab' = put_extern_sym2(n, static, "text", inputs)
  /\ unit' = [unit EXCEPT ![n] = [declared |-> "yes", static |-> static, c |-> Number(n, static)]]
  /\ ReportAdded(n, static, "text")
  /\ inputs' = inputs
  /\ Give(Symbol(n, static, "text", inputs))
  /\ UNCHANGED <<rels, loading, phase>>
  /\ Fits

\* decl_initializer_alloc with an initializer.
DefineVariable(n, static) ==
  /\ phase = "unit"
  /\ DeclaredAs(n, static)
  /\ "after use" \notin Redefinitions => Untouched(unit[n].c)
  /\ tab' = put_extern_sym2(n, static, "data", inputs)
  /\ unit' = [unit EXCEPT ![n] = [declared |-> "yes", static |-> static, c |-> Number(n, static)]]
  /\ ReportAdded(n, static, "data")
  /\ inputs' = inputs
  /\ Give(Symbol(n, static, "data", inputs))
  /\ UNCHANGED <<rels, loading, phase>>
  /\ Fits

\* decl_initializer_alloc without one: the name is entered as undefined and
\* then made common, unless the unit has already given it storage.
DefineTentatively(n, static) ==
  LET c == Number(n, static) IN
  /\ phase = "unit"
  /\ DeclaredAs(n, static)
  /\ unit[n].declared # "yes"
  /\ "tentative" \notin Redefinitions /\ c \in DOMAIN tab.syms =>
       tab.syms[c].shndx \in {"undef", "common"}
  /\ tab' = [put_extern_sym2(n, static, "undef", inputs) EXCEPT !.syms[c].shndx = "common"]
  /\ unit' = [unit EXCEPT ![n] = [declared |-> "yes", static |-> static, c |-> c]]
  /\ UNCHANGED <<rels, loading, phase, inputs, reported, given>>
  /\ Fits

(***************************************************************************)
(* Object files and tcc_add_symbol                                         *)
(***************************************************************************)
StartObject(o) ==
  /\ phase = "between"
  /\ inputs < MaxInputs
  /\ phase' = "object"
  /\ inputs' = inputs + 1
  /\ loading' = [object |-> o, map |-> <<>>]
  /\ UNCHANGED <<tab, rels, unit, reported, given>>

\* What the kth symbol of the object becomes: its section is now one of ours.
Renumbered(k) ==
  LET o == loading.object.syms[k]
  IN  [name |-> o.name, bind |-> o.bind, vis |-> o.vis, shndx |-> o.shndx,
       value |-> IF o.shndx = "undef" THEN 0 ELSE inputs, from |-> inputs]

AddObjectSymbol ==
  LET k == Len(loading.map) + 1 IN
  /\ phase = "object"
  /\ k <= Len(loading.object.syms)
  /\ tab' = add_elf_sym(tab, Renumbered(k))
  /\ loading' = [loading EXCEPT !.map = Append(@, NumberOf(tab, Renumbered(k)))]
  /\ Report(Renumbered(k))
  /\ inputs' = inputs
  /\ Give(Renumbered(k))
  /\ UNCHANGED <<rels, unit, phase>>
  /\ Fits

\* Mutant: relocations keep the numbers they have in the object.
EndObjectKeepsNumbers ==
  /\ phase = "object"
  /\ Len(loading.map) = Len(loading.object.syms)
  /\ rels' = rels \cup
       {LET o == loading.object.syms[k]
        IN  [sym |-> k, name |-> o.name,
             from |-> IF o.bind = "local" THEN inputs ELSE 0] : k \in loading.object.rels}
  /\ loading' = NothingLoading
  /\ phase' = "between"
  /\ UNCHANGED <<tab, unit, inputs, reported, given>>
  /\ Fits

\* The relocations of the object are patched with old_to_new_syms.
EndObject ==
  /\ phase = "object"
  /\ Len(loading.map) = Len(loading.object.syms)
  /\ rels' = rels \cup
       {LET o == loading.object.syms[k]
        IN  [sym |-> loading.map[k], name |-> o.name,
             from |-> IF o.bind = "local" THEN inputs ELSE 0] : k \in loading.object.rels}
  /\ loading' = NothingLoading
  /\ phase' = "between"
  /\ UNCHANGED <<tab, unit, inputs, reported, given>>
  /\ Fits

tcc_add_symbol(n) ==
  LET s == [name |-> n, bind |-> "global", vis |-> Default, shndx |-> "abs",
            value |-> inputs + 1, from |-> inputs + 1]
  IN
  /\ phase = "between"
  /\ inputs < MaxInputs
  /\ inputs' = inputs + 1
  /\ tab' = add_elf_sym(tab, s)
  /\ Report(s)
  /\ Give(s)
  /\ UNCHANGED <<rels, unit, loading, phase>>
  /\ Fits

(***************************************************************************)
(* Output                                                                  *)
(***************************************************************************)
relocate_common_syms ==
  /\ phase = "between"
  /\ phase' = "linked"
  /\ tab' = [tab EXCEPT !.syms =
               [i \in DOMAIN @ |-> IF @[i].shndx = "common" THEN [@[i] EXCEPT !.shndx = "bss"]
                                   ELSE @[i]]]
  /\ UNCHANGED <<rels, unit, loading, inputs, reported, given>>

Locals(i) == {j \in 1 .. i : tab.syms[j].bind = "local"}
\* Where symbol i goes: locals first.
OldToNew(i) ==
  IF tab.syms[i].bind = "local" THEN Cardinality(Locals(i))
  ELSE Cardinality(Locals(Len(tab.syms))) + Cardinality(1 .. i \ Locals(i))

\* The hash table, and the Syms, keep the old numbers.
sort_syms ==
  /\ phase \in {"between", "linked"}
  /\ phase' = "sorted"
  /\ tab' = [tab EXCEPT !.syms =
               [k \in DOMAIN @ |-> @[CHOOSE i \in DOMAIN @ : OldToNew(i) = k]]]
  /\ rels' = {[r EXCEPT !.sym = OldToNew(@)] : r \in rels}
  /\ UNCHANGED <<unit, loading, inputs, reported, given>>

Next ==
  \/ StartUnit
  \/ EndUnit
  \/ \E n \in Function \cup Variable, static \in BOOLEAN :
       /\ static => n \in Static
       /\ \/ Use(n, static)
          \/ n \in Function /\ DefineFunction(n, static)
          \/ n \in Variable /\ (DefineVariable(n, static) \/ DefineTentatively(n, static))
  \/ \E o \in Objects : StartObject(o)
  \/ AddObjectSymbol
  \/ EndObject
  \/ \E n \in Name : tcc_add_symbol(n)
  \/ relocate_common_syms
  \/ sort_syms

Spec == Init /\ [][Next]_vars

(***************************************************************************)
(* Properties                                                              *)
(***************************************************************************)
Table == [syms : Seq(Elf32_Sym), nbuckets : Nat \ {0}, bucket : [0 .. tab.nbuckets - 1 -> Nat],
          chain : [1 .. Len(tab.syms) -> Nat], nb_hashed_syms : Nat]

TypeOK ==
  /\ tab \in Table
  /\ rels \subseteq Elf32_Rel
  /\ unit \in [Name -> Sym]
  /\ loading \in [object : Object, map : Seq(Nat)]
  /\ phase \in {"between", "unit", "object", "linked", "sorted"}
  /\ inputs \in 0 .. MaxInputs
  /\ reported \subseteq Name
  /\ given \in [Name -> SUBSET (1 .. MaxInputs)]

\* The entries of a name that other inputs can see.
Entries(n) == {i \in DOMAIN tab.syms : tab.syms[i].bind # "local" /\ tab.syms[i].name = n}

\* find_elf_sym finds the entry of every name that has one, and a name never
\* has two, however often the hash table was rebuilt and whatever locals,
\* other names and redefinitions came between.
LookupIsExact ==
  phase # "sorted" =>
    \A n \in Name : Entries(n) = IF find_elf_sym(tab, n) = 0 THEN {} ELSE {find_elf_sym(tab, n)}

\* Whatever the order of the inputs: if some define a name for all to see,
\* either the name is reported, or there is one such input and the name
\* denotes its definition.
StrongDefinitionWins ==
  \A n \in Name : given[n] # {} /\ n \notin reported =>
    \E i \in Entries(n) :
      /\ tab.syms[i].shndx \in {"abs", "text", "data"}
      /\ given[n] = {tab.syms[i].value}

\* Every relocation refers to the symbol it was made for: the one of its own
\* input if that is static, else the one all inputs share; also when the
\* entry has changed hands, and when the table has been sorted.
RelocationsReach ==
  \A r \in rels :
    /\ r.sym \in DOMAIN tab.syms
    /\ LET s == tab.syms[r.sym] IN
         /\ s.name = r.name
         /\ IF r.from = 0 THEN s.bind # "local" ELSE s.bind = "local" /\ s.from = r.from

\* How much of a definition an entry is.
Strength(e) ==
  CASE e.shndx = "undef" -> 0
    [] e.shndx # "undef" /\ e.bind = "weak" -> 1
    [] e.shndx \in {"common", "bss"} /\ e.bind # "weak" -> 2
    [] OTHER -> 3
Exposure(v) == IF v = Default THEN 4 ELSE v

\* A name that is defined stays defined: only a stronger definition takes its
\* place, other inputs' leave it where it is, and "propagate the most
\* constraining visibility" (add_elf_sym) only ever constrains it more.
DefinitionsOnlyStrengthen ==
  [][phase' # "sorted" =>
       \A i \in DOMAIN tab.syms :
         LET e == tab.syms[i]
             f == tab'.syms[i]
         IN  e.bind # "local" /\ Strength(e) > 0 =>
               /\ f.name = e.name
               /\ Exposure(f.vis) <= Exposure(e.vis)
               /\ Strength(f) >= Strength(e)
               /\ Strength(f) = Strength(e) /\ Strength(e) \in {1, 3} => f.value = e.value]_vars
=============================================================================

--------------------------- MODULE LinkOutputProofs ---------------------------
(***************************************************************************)
(* That the image can be loaded, that a link is refused just when          *)
(* something is missing, and that words reach their symbols without a      *)
(* loader, for all sections, symbols, relocations and modes that are well  *)
(* formed.  Until sections get addresses, the invariant of the image is    *)
(* about the places in .bss and about what the linker's own sections are;  *)
(* from there on it is about how far layout has come: where the sections   *)
(* placed so far end, that they were placed by rank, and that file offsets *)
(* keep step with addresses as long as that matters.                       *)
(***************************************************************************)
EXTENDS LinkOutput, NaturalExtrema

(***************************************************************************)
(* Well-formed inputs                                                      *)
(***************************************************************************)
\* All strings; the provers do not know which of these are strings.
SectionNames ==
  STRING \cup OwnSections \cup {ArrayName(k) : k \in 1 .. 3} \cup {".text", ".data", ".bss"}
Strings ==
  SectionNames \cup {"__start_" \o n : n \in SectionNames} \cup {"__stop_" \o n : n \in SectionNames}
               \cup {"__" \o InitArrays[k] \o "_start" : k \in 1 .. 3}
               \cup {"__" \o InitArrays[k] \o "_end" : k \in 1 .. 3}
               \cup {"", "_etext", "_edata", "_end", "_GLOBAL_OFFSET_TABLE_",
                     "progbits", "nobits", "rel", "dynsym", "strtab", "hash", "dynamic",
                     "global", "notype", "object", "GLOB_DAT", "JMP_SLOT", "COPY"}

SymRec == [name : Strings, bind : Strings, type : Strings, sec : Strings, value : Nat, size : Nat]
Flags == {"alloc", "write", "exec", "cname"}
SecRec == [name : SectionNames, of : Strings, type : Strings, flags : SUBSET Flags, align : Nat \ {0},
           data_offset : Nat, sh_size : Nat]
RelRec == [offset : Nat, type : Strings, sym : Nat]

\* The sections whose relocations are followed.
Relocated_ == {".text", ".data", ".got", ".bss"}

\* What is said of a section by its type or its name.
SectionOK(s) ==
  /\ s.type = "nobits" => s.name # ".interp" /\ ("alloc" \in s.flags => "write" \in s.flags)
  /\ s.type = "rel" => /\ s.of \in Relocated_ /\ s.name # ".interp"
                       /\ s.align = 1 /\ "write" \notin s.flags
  /\ s.name = ".bss" => s.type = "nobits" /\ "alloc" \in s.flags
  /\ s.name = RelName(".bss") => s.type = "rel" /\ s.of = ".bss" /\ "alloc" \in s.flags

NamesDiffer(list) == \A i, j \in DOMAIN list : list[i].name = list[j].name => i = j

SectionsOK(list) ==
  /\ list \in Seq(SecRec)
  /\ \A i \in DOMAIN list : SectionOK(list[i])
  /\ NamesDiffer(list)
  /\ \A n \in {".text", ".data", ".bss"} : \E i \in DOMAIN list : list[i].name = n

\* Places, <<first word, size>>, are between two addresses and apart.
Apart(p, q) == p[1] + p[2] <= q[1] \/ q[1] + q[2] <= p[1]
Fit(S, lo, hi) ==
  /\ S \subseteq Int \X Nat
  /\ \A p \in S : lo <= p[1] /\ p[1] + p[2] <= hi
  /\ \A p, q \in S : p # q => Apart(p, q)

Variables(tab) ==
  {<<tab[i].value, tab[i].size>> : i \in {k \in DOMAIN tab : tab[k].sec = ".bss" /\ tab[k].type = "object"}}

\* The sections, symbols and relocations are such as compilers make them: no
\* two sections have one name, and none is called what the linker calls its
\* own; what has no contents and is loaded is writable; a relocation section
\* is not, nor aligned; .bss is there; common symbols have an alignment;
\* variables in .bss are inside and apart; relocations name symbols, and are
\* not copies, which only the linker makes.
WellFormed ==
  /\ SectionsOK(Sections)
  /\ \A i \in DOMAIN Sections : Sections[i].name \notin OwnSections
  /\ Libs \in Seq(SymRec)
  /\ Sites \in Seq(Strings \X Nat)
  /\ \A tab \in Tables :
       /\ tab \in Seq(SymRec)
       /\ \A i \in DOMAIN tab : tab[i].sec = "common" => tab[i].value # 0
       /\ \A i \in DOMAIN Sections :
            Sections[i].name = ".bss" => Fit(Variables(tab), 0, Sections[i].data_offset)
  /\ \A k \in 1 .. Len(Sites) : \A r \in Relocations[k] :
       /\ r \in [type : Strings \ {"COPY"}, sym : Nat]
       /\ \A tab \in Tables : r.sym \in DOMAIN tab

(***************************************************************************)
(* Before sections have addresses                                          *)
(***************************************************************************)
DynRec(d) ==
  /\ d = [syms |-> d.syms, got |-> d.got, plt |-> d.plt,
          symtab_to_dynsym |-> d.symtab_to_dynsym, got_offsets |-> d.got_offsets]
  /\ d.syms \in Seq(SymRec)
  /\ d.got \in Seq(Nat)
  /\ d.plt \in Seq(Nat)

\* The copies of variables, with their places moved by d.
Copied(list, syms, d) ==
  {<<list[k].offset + d, syms[list[k].sym].size>> : k \in {k \in DOMAIN list : list[k].type = "COPY"}}

HasCopies(list) == \E k \in DOMAIN list : list[k].type = "COPY"

\* The relocations of .bss: a copy is of a symbol in .dynsym, and is in a
\* section of relocations for the loader.
CopiesOK ==
  /\ rels[".bss"] \in Seq(RelRec)
  /\ \A k \in DOMAIN rels[".bss"] : rels[".bss"][k].type = "COPY" => rels[".bss"][k].sym \in DOMAIN dyn.syms
  /\ HasCopies(rels[".bss"]) => \E i \in DOMAIN secs : secs[i].name = RelName(".bss")

PlacesOK ==
  \A i \in DOMAIN secs :
    secs[i].name = ".bss" =>
      Fit(Variables(symtab_section) \cup Copied(rels[".bss"], dyn.syms, 0), 0, secs[i].data_offset)

First == {"commons", "linker symbols", "dynamic sections"}
Second == {"scan", "exports", "export all", "got"}

\* Relocations name symbols of the table.
SymbolsOK ==
  /\ symtab_section \in Seq(SymRec)
  /\ \A k \in 1 .. Len(Sites) : sites[k].type \in Strings /\ sites[k].sym \in DOMAIN symtab_section

\* What is not there yet, by how far linking has come.
NotYet ==
  /\ phase \in First \cup {"export all"} => ~HasCopies(rels[".bss"])
  /\ phase = "commons" => \A i \in Commons : symtab_section[i].value # 0
  /\ phase \in First => \A i \in DOMAIN secs : secs[i].name \notin OwnSections
  /\ phase \in Second => \A i \in DOMAIN secs :
                           /\ secs[i].name # ".shstrtab"
                           /\ dyn.got = <<>> => secs[i].name # ".got"
  /\ phase \in {"dynamic sections", "scan"} => HasDynamic

EarlyInv ==
  /\ SectionsOK(secs)
  /\ SymbolsOK
  /\ DynRec(dyn)
  /\ rels \in [Relocated_ -> Seq(RelRec)]
  /\ next \in Nat \ {0}
  /\ CopiesOK
  /\ PlacesOK
  /\ NotYet

(***************************************************************************)
(* From there on                                                           *)
(***************************************************************************)
Placed(i) == secs[i].name \in DOMAIN addr
InFilePlaced == {i \in InFile : secs[i].name \in DOMAIN off}

\* Everything in the file so far is apart, and ends before what comes.
FileOK ==
  /\ here = [j |-> here.j, addr |-> here.addr, file_offset |-> here.file_offset]
  /\ here.file_offset \in Nat
  /\ \A n \in DOMAIN off : off[n] \in Nat
  /\ \A i \in InFilePlaced : off[secs[i].name] + secs[i].sh_size <= here.file_offset
  /\ \A i, j \in InFilePlaced : i # j => \/ off[secs[i].name] + secs[i].sh_size <= off[secs[j].name]
                                        \/ off[secs[j].name] + secs[j].sh_size <= off[secs[i].name]

End(i) == addr[secs[i].name] + secs[i].sh_size

MemoryOK ==
  /\ here.addr \in Nat
  /\ DOMAIN addr \subseteq DOMAIN off
  /\ \A n \in DOMAIN addr : addr[n] \in Nat
  /\ \A i \in DOMAIN secs : Placed(i) => "alloc" \in secs[i].flags
  /\ \A i \in DOMAIN secs : Placed(i) => End(i) <= here.addr
  /\ \A i, j \in DOMAIN secs : Placed(i) /\ Placed(j) /\ i # j =>
       End(i) <= addr[secs[j].name] \/ End(j) <= addr[secs[i].name]

\* The first segment ends in a page, the second begins in a later one.
Boundary(b) ==
  /\ \A i \in DOMAIN secs : Placed(i) /\ InSegment(secs[i], 0) => End(i) <= b * Page
  /\ \A i \in DOMAIN secs : Placed(i) /\ InSegment(secs[i], 1) => b * Page <= addr[secs[i].name]
  /\ b * Page <= here.addr

PagesOK ==
  /\ here.j = 0 => \A i \in DOMAIN secs : Placed(i) => InSegment(secs[i], 0)
  /\ here.j # 0 => /\ \A i \in DOMAIN secs : InSegment(secs[i], 0) => Placed(i)
                   /\ \E b \in Nat : Boundary(b)

\* Offsets keep step: within what is placed, and with what comes next, unless
\* nothing comes next that has contents.
ToCome(i) == ~Placed(i) /\ InSegment(secs[i], here.j) /\ secs[i].type # "nobits"
StepOK ==
  /\ \A i, j \in InMem \cap InFile : Placed(i) /\ Placed(j) =>
       /\ Distance(i) % Page = 0
       /\ InSegment(secs[i], 0) = InSegment(secs[j], 0) => Distance(i) = Distance(j)
  /\ here.j = 0 \/ (\E i \in DOMAIN secs : ToCome(i)) =>
       /\ (here.addr - here.file_offset) % Page = 0
       /\ \A i \in InMem \cap InFile :
            Placed(i) /\ InSegment(secs[i], here.j) => Distance(i) = here.addr - here.file_offset

RankOK ==
  \A i, j \in DOMAIN secs :
    Placed(i) /\ ~Placed(j) /\ InSegment(secs[i], here.j) /\ InSegment(secs[j], here.j)
      => Rank(secs[i]) <= Rank(secs[j])

\* The relocation sections placed so far fill an interval, and the next one
\* goes behind it.
Filled(lo, hi) ==
  /\ UNION {Span(i) : i \in {k \in RelSections : Placed(k)}} = lo .. hi - 1
  /\ \A i \in RelSections : ~Placed(i) =>
       hi = here.addr \/ \A k \in RelSections : ~Placed(k)
PieceOK == \E lo, hi \in Nat : Filled(lo, hi)

LayoutOK == MemoryOK /\ PagesOK /\ StepOK /\ PieceOK

\* Everything that is loaded is placed when layout is done.
AllPlaced == \A i \in InMem : Placed(i)

\* Symbols and relocations get addresses one after the other.
ImagePlaces ==
  \A i \in DOMAIN secs : secs[i].name = ".bss" =>
    LET size == secs[i].sh_size
        a == addr[".bss"]
        V == Variables(symtab_section)
        C(d) == Copied(rels[".bss"], dyn.syms, d)
    IN CASE phase \in {"segments", "dynamic", "sections", "symbols"} -> Fit(V \cup C(0), 0, size)
         [] phase \in {"relocate", "relocations"} -> Fit(V \cup C(a), a, a + size)
         [] phase = "written" -> Fit(BssPlaces, a, a + size)

Late == {"segments", "dynamic", "sections", "symbols", "relocate", "relocations", "written"}
Image == mode.type # "obj"

LateInv ==
  /\ SectionsOK(secs)
  /\ FileOK
  /\ ".bss" \in DOMAIN rels
  /\ phase \in {"segments", "dynamic"} => DOMAIN off = DOMAIN addr
  /\ phase \in {"segments", "dynamic"} => DynRec(dyn) /\ Image
  /\ phase = "segments" => here.j \in {0, 1} /\ RankOK
  /\ ~Image => DOMAIN addr = {} /\ phase \in {"sections", "written"}
  /\ Image => /\ LayoutOK
              /\ phase # "segments" => AllPlaced /\ here.j = 2
              /\ phase # "written" => CopiesOK
              /\ phase \in {"segments", "dynamic", "sections", "symbols"} =>
                   symtab_section \in Seq(SymRec)
              /\ ImagePlaces
  /\ phase \notin {"segments", "dynamic", "sections"} => InFilePlaced = InFile

ImageInv ==
  /\ InMemory \/ phase \in First \cup Second \cup Late \cup {"refused"}
  /\ phase \in First \cup Second => EarlyInv /\ DOMAIN addr = {} /\ DOMAIN off = {}
  /\ ~InMemory /\ phase \in Late => LateInv

(***************************************************************************)
(* Lemmas about the model's operators                                      *)
(***************************************************************************)
\* Rounding up gives a multiple that is not less; 1 rounds nothing.
LEMMA RoundsUp ==
  ASSUME NEW n \in Nat, NEW a \in Nat \ {0}
  PROVE  /\ AlignedTo(n, a) \in Nat
         /\ n <= AlignedTo(n, a)
         /\ a = 1 => AlignedTo(n, a) = n
PROOF
  <1>1. PICK m \in Nat : m = n + a - 1
    OBVIOUS
  <1>2. PICK q \in Nat : q = m \div a
    OBVIOUS
  <1>3. PICK r \in Nat : r = m % a
    OBVIOUS
  <1>4. m = a * q + r /\ r <= a - 1
    BY <1>2, <1>3
  <1>5. AlignedTo(n, a) = q * a
    BY <1>1, <1>2 DEF AlignedTo
  <1>6. PICK b \in Nat : b = q * a
    OBVIOUS
  <1>7. b = a * q
    BY <1>6
  <1>8. n <= b
    BY <1>1, <1>4, <1>7
  <1>9. a = 1 => b = n
    BY <1>1, <1>4, <1>7
  <1> QED
    BY <1>5, <1>6, <1>8, <1>9

\* What is picked from a sequence: an element for each place, of a place of
\* its own.
Place(T, n) == CHOOSE i \in T : RankIn(T, i) = n

PicksOf(S, s, T, new) ==
  /\ new \in Seq(S)
  /\ Len(new) \in Nat
  /\ \A k \in DOMAIN new : Place(T, k) \in T /\ new[k] = s[Place(T, k)]
  /\ \A j, k \in DOMAIN new : Place(T, j) = Place(T, k) => j = k
  /\ \A i \in T : \E k \in DOMAIN new : Place(T, k) = i

LEMMA PickedIs ==
  ASSUME NEW S, NEW s, NEW T, s \in Seq(S), T \in SUBSET DOMAIN s
  PROVE  PicksOf(S, s, T, Picked(s, T))
PROOF
  <1>1. PICK m \in Nat : m = Len(s)
    OBVIOUS
  <1>2. T \in SUBSET (1 .. m) /\ DOMAIN s = 1 .. m
    BY <1>1
  <1>3. /\ Cardinality(T) \in Nat
        /\ \A r \in 1 .. Cardinality(T) : \E k \in T : RankIn(T, k) = r
        /\ \A k \in T : RankIn(T, k) \in 1 .. Cardinality(T)
        /\ \A k, l \in T : RankIn(T, k) = RankIn(T, l) => k = l
    BY <1>2, Ranks
  <1>4. PICK c \in Nat : c = Cardinality(T)
    BY <1>3
  <1>5. \A r \in 1 .. c : Place(T, r) \in T /\ RankIn(T, Place(T, r)) = r
    BY <1>3, <1>4 DEF Place
  <1>6. Picked(s, T) = [n \in 1 .. c |-> s[Place(T, n)]]
    BY <1>4 DEF Picked, Place, RankIn
  <1>7. \A r \in 1 .. c : s[Place(T, r)] \in S
    BY <1>2, <1>5
  <1>8. Picked(s, T) \in Seq(S) /\ Len(Picked(s, T)) = c /\ DOMAIN Picked(s, T) = 1 .. c
    BY <1>6, <1>7
  <1>9. \A k \in 1 .. c : Picked(s, T)[k] = s[Place(T, k)]
    BY <1>6
  <1>10. \A i \in T : Place(T, RankIn(T, i)) = i /\ RankIn(T, i) \in 1 .. c
    BY <1>3, <1>4, <1>5
  <1> QED
    BY <1>5, <1>8, <1>9, <1>10 DEF PicksOf

\* find_elf_sym returns an entry of the name that is not local, or none.
LEMMA Finds ==
  ASSUME NEW tab \in Seq(SymRec), NEW n
  PROVE  find_elf_sym_in(tab, n) = 0 \/ find_elf_sym_in(tab, n) \in DOMAIN tab
PROOF
  <1> DEFINE hits == {i \in Number(tab, n) : tab[i].bind # "local"}
  <1>1. PICK m \in Nat : m = Len(tab)
    OBVIOUS
  <1>2. hits \in SUBSET Nat /\ hits \subseteq DOMAIN tab /\ \A i \in hits : i <= m
    BY <1>1 DEF Number
  <1>3. find_elf_sym_in(tab, n) = IF hits = {} THEN 0 ELSE CHOOSE i \in hits : \A j \in hits : j <= i
    BY DEF find_elf_sym_in
  <1> HIDE DEF hits
  <1>4. CASE hits # {}
    <2>1. \E i \in hits : \A j \in hits : j <= i
      BY <1>2, <1>4, Greatest
    <2> QED
      BY <1>2, <1>3, <1>4, <2>1
  <1> QED
    BY <1>3, <1>4

(***************************************************************************)
(* Places                                                                  *)
(***************************************************************************)
\* A place behind all others can be added.
LEMMA FitsBehind ==
  ASSUME NEW S, NEW lo \in Int, NEW hi \in Int, Fit(S, lo, hi), lo <= hi,
         NEW a \in Int, NEW n \in Nat, hi <= a
  PROVE  Fit(S \cup {<<a, n>>}, lo, a + n)
PROOF
  <1> DEFINE U == S \cup {<<a, n>>}
  <1>1. /\ S \subseteq Int \X Nat
        /\ \A p \in S : p[1] \in Int /\ p[2] \in Nat /\ lo <= p[1] /\ p[1] + p[2] <= hi
        /\ \A p, q \in S : p # q => Apart(p, q)
    BY DEF Fit
  <1>2. U \subseteq Int \X Nat
    BY <1>1
  <1>3. \A p \in U : lo <= p[1] /\ p[1] + p[2] <= a + n
    BY <1>1
  <1>4. \A p \in S : Apart(p, <<a, n>>) /\ Apart(<<a, n>>, p)
    BY <1>1 DEF Apart
  <1>5. \A p, q \in U : p # q => Apart(p, q)
    BY <1>1, <1>4
  <1> QED
    BY <1>2, <1>3, <1>5 DEF Fit

\* Places that are moved all by the same distance stay apart.
Shifted(S, a) == {<<p[1] + a, p[2]>> : p \in S}

LEMMA FitsShifted ==
  ASSUME NEW S, NEW lo \in Int, NEW hi \in Int, Fit(S, lo, hi), NEW a \in Int
  PROVE  Fit(Shifted(S, a), lo + a, hi + a)
PROOF
  <1>1. /\ S \subseteq Int \X Nat
        /\ \A p \in S : p[1] \in Int /\ p[2] \in Nat /\ lo <= p[1] /\ p[1] + p[2] <= hi
        /\ \A p, q \in S : p # q => Apart(p, q)
    BY DEF Fit
  <1>2. Shifted(S, a) \subseteq Int \X Nat
    BY <1>1 DEF Shifted
  <1>3. \A p \in Shifted(S, a) : lo + a <= p[1] /\ p[1] + p[2] <= hi + a
    BY <1>1 DEF Shifted
  <1>4. ASSUME NEW p \in Shifted(S, a), NEW q \in Shifted(S, a), p # q PROVE Apart(p, q)
    <2>1. PICK x \in S : p = <<x[1] + a, x[2]>>
      BY DEF Shifted
    <2>2. PICK y \in S : q = <<y[1] + a, y[2]>>
      BY DEF Shifted
    <2>3. x # y
      BY <1>4, <2>1, <2>2
    <2>4. Apart(x, y)
      BY <1>1, <2>3
    <2>5. x[1] \in Int /\ y[1] \in Int /\ x[2] \in Nat /\ y[2] \in Nat
      BY <1>1
    <2> QED
      BY <2>1, <2>2, <2>4, <2>5 DEF Apart
  <1> QED
    BY <1>2, <1>3, <1>4 DEF Fit

(***************************************************************************)
(* Lists of sections                                                       *)
(***************************************************************************)
\* One more section.
LEMMA OneMore ==
  ASSUME NEW list, SectionsOK(list), NEW s \in SecRec, SectionOK(s),
         \A i \in DOMAIN list : list[i].name # s.name
  PROVE  /\ SectionsOK(Append(list, s))
         /\ DOMAIN Append(list, s) = DOMAIN list \cup {Len(list) + 1}
         /\ Len(list) \in Nat /\ DOMAIN list = 1 .. Len(list)
         /\ \A i \in DOMAIN list : Append(list, s)[i] = list[i]
         /\ Append(list, s)[Len(list) + 1] = s
PROOF
  <1> DEFINE new == Append(list, s)
  <1>1. list \in Seq(SecRec) /\ Len(list) \in Nat /\ DOMAIN list = 1 .. Len(list)
    BY DEF SectionsOK
  <1>2. /\ new \in Seq(SecRec)
        /\ DOMAIN new = DOMAIN list \cup {Len(list) + 1}
        /\ \A i \in DOMAIN list : new[i] = list[i]
        /\ new[Len(list) + 1] = s
    BY <1>1
  <1> HIDE DEF new
  <1>3. \A i \in DOMAIN new : SectionOK(new[i])
    BY <1>2 DEF SectionsOK
  <1>4. NamesDiffer(new)
    BY <1>2 DEF SectionsOK, NamesDiffer
  <1>5. \A n \in {".text", ".data", ".bss"} : \E i \in DOMAIN new : new[i].name = n
    BY <1>2 DEF SectionsOK
  <1>6. SectionsOK(new)
    BY <1>2, <1>3, <1>4, <1>5 DEF SectionsOK
  <1> QED
    BY <1>1, <1>2, <1>6 DEF new

\* From list to new, sections called one of N are added behind.
Adds(list, new, N) ==
  /\ SectionsOK(new)
  /\ DOMAIN list \subseteq DOMAIN new
  /\ \A i \in DOMAIN list : new[i] = list[i]
  /\ \A i \in DOMAIN new : i \in DOMAIN list \/ new[i].name \in N

\* Adding twice is adding.
LEMMA AddingAgain ==
  ASSUME NEW a, NEW b, NEW c, NEW M, NEW N, Adds(a, b, M), Adds(b, c, N)
  PROVE  Adds(a, c, M \cup N)
PROOF
  BY DEF Adds

\* One section added, or none.
LEMMA AddingOne ==
  ASSUME NEW list, SectionsOK(list), NEW s \in SecRec, SectionOK(s),
         \A i \in DOMAIN list : list[i].name # s.name
  PROVE  /\ Adds(list, Append(list, s), {s.name})
         /\ \E i \in DOMAIN Append(list, s) : Append(list, s)[i].name = s.name
PROOF
  BY OneMore DEF Adds

LEMMA AddingNone ==
  ASSUME NEW list, SectionsOK(list), NEW N
  PROVE  Adds(list, list, N)
PROOF
  BY DEF Adds

\* Several sections added whose names differ from those there and from each other.
LEMMA AddingMany ==
  ASSUME NEW list, SectionsOK(list), NEW more \in Seq(SecRec),
         \A k \in DOMAIN more : SectionOK(more[k]) /\ \A i \in DOMAIN list : list[i].name # more[k].name,
         NamesDiffer(more)
  PROVE  Adds(list, list \o more, {more[k].name : k \in DOMAIN more})
PROOF
  <1> DEFINE new == list \o more
  <1>1. list \in Seq(SecRec) /\ Len(list) \in Nat /\ DOMAIN list = 1 .. Len(list)
    BY DEF SectionsOK
  <1>2. Len(more) \in Nat /\ DOMAIN more = 1 .. Len(more)
    OBVIOUS
  <1>3. /\ new \in Seq(SecRec)
        /\ DOMAIN new = 1 .. Len(list) + Len(more)
        /\ \A i \in DOMAIN list : new[i] = list[i]
        /\ \A k \in DOMAIN more : new[Len(list) + k] = more[k]
    BY <1>1, <1>2
  <1>4. \A i \in DOMAIN new : i \in DOMAIN list \/ \E k \in DOMAIN more : i = Len(list) + k
    <2> TAKE i \in DOMAIN new
    <2>1. i \in Nat /\ (i > Len(list) => i - Len(list) \in DOMAIN more /\ i = Len(list) + (i - Len(list)))
      BY <1>1, <1>2, <1>3
    <2> QED
      BY <1>1, <1>3, <2>1
  <1> HIDE DEF new
  <1>5. \A i \in DOMAIN new : SectionOK(new[i])
    BY <1>3, <1>4 DEF SectionsOK
  <1>6. NamesDiffer(new)
    <2> SUFFICES ASSUME NEW i \in DOMAIN new, NEW j \in DOMAIN new, new[i].name = new[j].name
                 PROVE  i = j
      BY DEF NamesDiffer
    <2>1. CASE i \in DOMAIN list /\ j \in DOMAIN list
      BY <1>3, <2>1 DEF SectionsOK, NamesDiffer
    <2>2. ASSUME NEW k \in DOMAIN more, NEW l \in DOMAIN more, i = Len(list) + k, j = Len(list) + l
          PROVE  i = j
      <3>1. more[k].name = more[l].name
        BY <1>3, <2>2
      <3> QED
        BY <2>2, <3>1 DEF NamesDiffer
    <2> QED
      BY <1>3, <1>4, <2>1, <2>2
  <1>7. \A n \in {".text", ".data", ".bss"} : \E i \in DOMAIN new : new[i].name = n
    <2>1. \A i \in DOMAIN list : i \in DOMAIN new
      BY <1>1, <1>2, <1>3
    <2> QED
      BY <1>3, <2>1 DEF SectionsOK
  <1>8. DOMAIN list \subseteq DOMAIN new
    BY <1>1, <1>2, <1>3
  <1>9. \A i \in DOMAIN new : i \in DOMAIN list \/ new[i].name \in {more[k].name : k \in DOMAIN more}
    BY <1>3, <1>4
  <1> QED
    BY <1>3, <1>5, <1>6, <1>7, <1>8, <1>9 DEF Adds, SectionsOK, new

\* put_elf_reloc adds the relocation section if it is not there.
LEMMA AddingRel ==
  ASSUME NEW list, SectionsOK(list), NEW of \in {".got", ".bss"}
  PROVE  /\ Adds(list, WithRelSection(list, of), {RelName(of)})
         /\ HasDynamic => \E i \in DOMAIN WithRelSection(list, of) :
                            WithRelSection(list, of)[i].name = RelName(of)
PROOF
  <1>1. CASE Number(list, RelName(of)) = {} /\ HasDynamic
    <2>1. WithRelSection(list, of) = Append(list, RelSec(of, {"alloc"}))
      BY <1>1 DEF WithRelSection
    <2>2. RelSec(of, {"alloc"}) = [name |-> RelName(of), of |-> of, type |-> "rel", flags |-> {"alloc"},
                                   align |-> 1, data_offset |-> 0, sh_size |-> 0]
      <3> DEFINE o == [name |-> RelName(of), of |-> "", type |-> "rel", flags |-> {"alloc"},
                       align |-> 1, data_offset |-> 0, sh_size |-> 0]
      <3>1. RelSec(of, {"alloc"}) = [o EXCEPT !.of = of]
        BY DEF RelSec, SecOf
      <3> QED
        BY <3>1
    <2>3. RelName(of) \in OwnSections \ {".got", ".bss", ".interp", ".shstrtab"}
      BY NamesAssumption DEF OwnSections, NamedSections
    <2>4. RelName(".got") # RelName(".bss")
      BY NamesAssumption
    <2> DEFINE s == RelSec(of, {"alloc"})
    <2>5. s \in SecRec /\ s.name = RelName(of)
      <3>1. of \in Strings /\ "rel" \in Strings /\ RelName(of) \in SectionNames
        BY <2>3 DEF Strings, SectionNames, OwnSections, NamedSections
      <3>2. {"alloc"} \in SUBSET Flags
        BY DEF Flags
      <3> QED
        BY <2>2, <3>1, <3>2 DEF SecRec
    <2>6. SectionOK(s)
      BY <2>2, <2>3, <2>4 DEF SectionOK, Relocated_
    <2>7. \A i \in DOMAIN list : list[i].name # s.name
      BY <1>1, <2>5 DEF Number
    <2> HIDE DEF s
    <2>8. /\ Adds(list, Append(list, s), {s.name})
          /\ \E i \in DOMAIN Append(list, s) : Append(list, s)[i].name = s.name
      BY <2>5, <2>6, <2>7, AddingOne
    <2> QED
      BY <2>1, <2>5, <2>8 DEF s
  <1>2. CASE Number(list, RelName(of)) # {} \/ ~HasDynamic
    <2>1. WithRelSection(list, of) = list
      BY <1>2 DEF WithRelSection
    <2> QED
      BY <1>2, <2>1, AddingNone DEF Number
  <1> QED
    BY <1>1, <1>2

\* A section that grows remains the section it is.
LEMMA Grows ==
  ASSUME NEW list, SectionsOK(list), NEW size \in Nat
  PROVE  /\ SectionsOK(Grown(list, ".bss", size))
         /\ DOMAIN Grown(list, ".bss", size) = DOMAIN list
         /\ \A i \in DOMAIN list :
              /\ Grown(list, ".bss", size)[i].name = list[i].name
              /\ list[i].name = ".bss" => Grown(list, ".bss", size)[i].data_offset = size
PROOF
  <1> DEFINE new == Grown(list, ".bss", size)
  <1>1. list \in Seq(SecRec) /\ Len(list) \in Nat /\ DOMAIN list = 1 .. Len(list)
    BY DEF SectionsOK
  <1>2. /\ new = [i \in 1 .. Len(list) |-> IF list[i].name = ".bss" THEN [list[i] EXCEPT !.data_offset = size]
                                                                 ELSE list[i]]
    BY <1>1 DEF Grown
  <1>3. \A i \in 1 .. Len(list) :
          /\ new[i] \in SecRec
          /\ new[i].name = list[i].name
          /\ list[i].name = ".bss" => new[i].data_offset = size
          /\ new[i].type = list[i].type /\ new[i].of = list[i].of /\ new[i].flags = list[i].flags
          /\ new[i].align = list[i].align
    <2> TAKE i \in 1 .. Len(list)
    <2>1. list[i] \in SecRec
      BY <1>1
    <2> QED
      BY <1>2, <2>1 DEF SecRec
  <1>4. new \in Seq(SecRec) /\ DOMAIN new = 1 .. Len(list)
    BY <1>1, <1>2, <1>3
  <1> HIDE DEF new
  <1>5. \A i \in DOMAIN new : SectionOK(new[i])
    BY <1>1, <1>3, <1>4 DEF SectionsOK, SectionOK
  <1>6. NamesDiffer(new) /\ \A n \in {".text", ".data", ".bss"} : \E i \in DOMAIN new : new[i].name = n
    BY <1>1, <1>3, <1>4 DEF SectionsOK, NamesDiffer
  <1> QED
    BY <1>1, <1>3, <1>4, <1>5, <1>6 DEF SectionsOK, new

\* .bss is the section that is called so.
LEMMA BssIs ==
  ASSUME SectionsOK(secs), NEW i \in DOMAIN secs, secs[i].name = ".bss"
  PROVE  Section(".bss") = secs[i] /\ Section(".bss").data_offset \in Nat
PROOF
  <1>1. Number(secs, ".bss") = {i}
    BY DEF Number, SectionsOK, NamesDiffer
  <1>2. Section(".bss") = secs[i]
    BY <1>1 DEF Section
  <1>3. secs[i] \in SecRec
    BY DEF SectionsOK
  <1> QED
    BY <1>2, <1>3 DEF SecRec

(***************************************************************************)
(* Symbols                                                                 *)
(***************************************************************************)
IsVariable(s) == s.sec = ".bss" /\ s.type = "object"

\* What changes no variable in .bss leaves the places as they are.
LEMMA SameVariables ==
  ASSUME NEW tab, NEW new,
         DOMAIN tab \subseteq DOMAIN new,
         \A i \in DOMAIN tab : IsVariable(tab[i]) => new[i].value = tab[i].value /\ new[i].size = tab[i].size,
         \A i \in DOMAIN new : IsVariable(new[i]) <=> i \in DOMAIN tab /\ IsVariable(tab[i])
  PROVE  Variables(new) = Variables(tab)
PROOF
  <1> DEFINE Pl(s) == <<s.value, s.size>>
  <1>1. \A t : Variables(t) = {Pl(t[i]) : i \in {k \in DOMAIN t : IsVariable(t[k])}}
    BY DEF Variables, IsVariable
  <1>2. \A i \in DOMAIN tab : IsVariable(tab[i]) => Pl(new[i]) = Pl(tab[i])
    OBVIOUS
  <1>3. {k \in DOMAIN new : IsVariable(new[k])} = {k \in DOMAIN tab : IsVariable(tab[k])}
    OBVIOUS
  <1> HIDE DEF Pl
  <1> QED
    BY <1>1, <1>2, <1>3

\* Places in Variables are of entries of the table.
LEMMA VariablesAre ==
  ASSUME NEW tab \in Seq(SymRec)
  PROVE  Variables(tab) \subseteq Nat \X Nat
PROOF
  <1>1. \A s \in SymRec : s.value \in Nat /\ s.size \in Nat
    BY DEF SymRec
  <1>2. \A i \in DOMAIN tab : tab[i].value \in Nat /\ tab[i].size \in Nat
    BY <1>1
  <1> QED
    BY <1>2 DEF Variables

\* The linker's own symbols have no type, and are in sections of S.
NotypeIn(S) == [name : Strings, bind : Strings, type : {"notype"}, sec : S, value : Nat, size : Nat]

LEMMA Untyped ==
  ASSUME NEW S, NEW n \in Strings, NEW sec \in S, NEW value \in Nat
  PROVE  Notype(n, sec, value) \in NotypeIn(S)
PROOF
  <1>1. "global" \in Strings
    BY DEF Strings
  <1> QED
    BY <1>1 DEF Notype, NotypeIn

LEMMA NotypeIsSymbol == ASSUME NEW S, S \subseteq Strings PROVE NotypeIn(S) \subseteq SymRec
PROOF
  <1>1. "notype" \in Strings
    BY DEF Strings
  <1> QED
    BY <1>1 DEF NotypeIn, SymRec

\* add_init_array_defines makes the sections that are not there.
LEMMA AddingArrays ==
  ASSUME SectionsOK(secs)
  PROVE  /\ Adds(secs, WithInitArrays, {ArrayName(k) : k \in 1 .. 3})
         /\ \A k \in 1 .. 3 : \E i \in DOMAIN WithInitArrays : WithInitArrays[i].name = ArrayName(k)
         /\ \A i \in DOMAIN WithInitArrays \ DOMAIN secs :
              WithInitArrays[i].type = "progbits" /\ "alloc" \in WithInitArrays[i].flags
PROOF
  <1> DEFINE Arr(k) == SecOf(ArrayName(k), "progbits", {"alloc"}, 8, 0)
             all == [k \in 1 .. 3 |-> Arr(k)]
             T == {k \in 1 .. 3 : ~HasSection(ArrayName(k))}
             more == Picked(all, T)
  <1>1. WithInitArrays = secs \o more
    BY DEF WithInitArrays
  <1>2. PICK none \in Strings : none = ""
    BY DEF Strings
  <1>3. \A k \in 1 .. 3 : Arr(k) = [name |-> ArrayName(k), of |-> none, type |-> "progbits", flags |-> {"alloc"},
                                    align |-> 8, data_offset |-> 0, sh_size |-> 0]
    BY <1>2, Zenon DEF SecOf
  <1>4. \A k \in 1 .. 3 : ArrayName(k) \in SectionNames /\ ArrayName(k) # ".bss" /\ ArrayName(k) \notin OwnSections
    BY NamesAssumption DEF SectionNames
  <1>5. "progbits" \in Strings /\ {"alloc"} \in SUBSET Flags
    BY DEF Strings, Flags
  <1>6. \A n \in SectionNames : [name |-> n, of |-> none, type |-> "progbits", flags |-> {"alloc"},
                               align |-> 8, data_offset |-> 0, sh_size |-> 0] \in SecRec
    BY <1>5 DEF SecRec
  <1>7. \A k \in 1 .. 3 : SectionOK(Arr(k))
    <2>1. RelName(".bss") \in OwnSections
      BY DEF OwnSections, NamedSections
    <2> QED
      BY <1>3, <1>4, <2>1 DEF SectionOK
  <1>8. \A k \in 1 .. 3 : Arr(k).name = ArrayName(k) /\ Arr(k) \in SecRec
    BY <1>3, <1>4, <1>6
  <1> HIDE DEF Arr
  <1>9. all \in Seq(SecRec) /\ T \in SUBSET DOMAIN all /\ DOMAIN all = 1 .. 3
    BY <1>8
  <1>10. \A k \in 1 .. 3 : all[k] = Arr(k)
    OBVIOUS
  <1> HIDE DEF all
  <1>11. \A k \in T : k \in 1 .. 3 /\ \A i \in DOMAIN secs : secs[i].name # ArrayName(k)
    BY DEF HasSection, Number
  <1>12. \A k \in 1 .. 3 : ~HasSection(ArrayName(k)) => k \in T
    OBVIOUS
  <1> HIDE DEF T
  <1>13. PicksOf(SecRec, all, T, Picked(all, T))
    BY ONLY <1>9, PickedIs
  <1>14. /\ more \in Seq(SecRec)
         /\ Len(more) \in Nat
         /\ \A k \in DOMAIN more : Place(T, k) \in T /\ more[k] = all[Place(T, k)]
         /\ \A j, k \in DOMAIN more : Place(T, j) = Place(T, k) => j = k
         /\ \A i \in T : \E k \in DOMAIN more : Place(T, k) = i
    BY <1>13 DEF PicksOf
  <1> HIDE DEF more
  <1>15. \A k \in DOMAIN more : /\ SectionOK(more[k])
                                /\ \A i \in DOMAIN secs : secs[i].name # more[k].name
                                /\ more[k].name = ArrayName(Place(T, k))
    BY <1>7, <1>8, <1>10, <1>14, <1>11
  <1>16. NamesDiffer(more)
    <2>1. \A j, k \in 1 .. 3 : ArrayName(j) = ArrayName(k) => j = k
      BY NamesAssumption
    <2> QED
      BY <1>14, <1>11, <1>15, <2>1 DEF NamesDiffer
  <1>17. Adds(secs, WithInitArrays, {more[k].name : k \in DOMAIN more})
    BY <1>1, <1>14, <1>15, <1>16, AddingMany
  <1>18. {more[k].name : k \in DOMAIN more} \subseteq {ArrayName(k) : k \in 1 .. 3}
    BY <1>14, <1>11, <1>15
  <1>19. Adds(secs, WithInitArrays, {ArrayName(k) : k \in 1 .. 3})
    BY <1>17, <1>18 DEF Adds
  <1>20. ASSUME NEW k \in 1 .. 3
         PROVE  \E i \in DOMAIN WithInitArrays : WithInitArrays[i].name = ArrayName(k)
    <2>1. CASE HasSection(ArrayName(k))
      BY <1>19, <2>1 DEF Adds, HasSection, Number
    <2>2. CASE ~HasSection(ArrayName(k))
      <3>1. PICK n \in DOMAIN more : Place(T, n) = k
        BY <1>12, <1>14, <2>2
      <3>2. more[n].name = ArrayName(k)
        BY <1>15, <3>1
      <3>3. /\ Len(secs) \in Nat
            /\ Len(secs) + n \in DOMAIN WithInitArrays
            /\ WithInitArrays[Len(secs) + n] = more[n]
        <4>1. secs \in Seq(SecRec)
          BY DEF SectionsOK
        <4> QED
          BY <1>1, <1>14, <4>1
      <3> QED
        BY <3>2, <3>3
    <2> QED
      BY <2>1, <2>2
  <1>21. ASSUME NEW i \in DOMAIN WithInitArrays \ DOMAIN secs
         PROVE  WithInitArrays[i].type = "progbits" /\ "alloc" \in WithInitArrays[i].flags
    <2>1. secs \in Seq(SecRec)
      BY DEF SectionsOK
    <2>2. PICK n : n \in DOMAIN more /\ WithInitArrays[i] = more[n]
      <3>1. PICK a, b \in Nat : a = Len(secs) /\ b = Len(more)
        BY <1>14, <2>1
      <3>2. DOMAIN secs = 1 .. a /\ DOMAIN more = 1 .. b /\ DOMAIN (secs \o more) = 1 .. a + b
        BY <1>14, <2>1, <3>1
      <3>3. i - a \in DOMAIN more /\ (secs \o more)[i] = more[i - a]
        BY <1>1, <1>14, <2>1, <3>1, <3>2
      <3> QED
        BY <1>1, <3>3
    <2>3. more[n] = Arr(Place(T, n)) /\ Place(T, n) \in 1 .. 3
      BY <1>10, <1>11, <1>14, <2>2
    <2>4. \A k \in 1 .. 3 : Arr(k).type = "progbits" /\ Arr(k).flags = {"alloc"}
      BY <1>3
    <2>5. WithInitArrays[i].type = "progbits" /\ WithInitArrays[i].flags = {"alloc"}
      BY <2>2, <2>3, <2>4
    <2> QED
      BY <2>5
  <1> QED
    BY <1>19, <1>20, <1>21

\* A section that is there has a size.
LEMMA SizeOf ==
  ASSUME NEW list, SectionsOK(list), NEW n, \E i \in DOMAIN list : list[i].name = n
  PROVE  list[CHOOSE i \in Number(list, n) : TRUE].data_offset \in Nat
PROOF
  <1>1. (CHOOSE i \in Number(list, n) : TRUE) \in DOMAIN list
    BY DEF Number
  <1>2. \A i \in DOMAIN list : list[i] \in SecRec
    BY DEF SectionsOK
  <1>3. \A s \in SecRec : s.data_offset \in Nat
    BY DEF SecRec
  <1> QED
    BY <1>1, <1>2, <1>3

\* The sections whose ends are always marked.
MarkedSections == {".text", ".data", ".bss"} \cup {ArrayName(k) : k \in 1 .. 3}

\* The symbols that mark where sections begin and end are of no type; all of
\* these sections are loaded, if those always marked are.
LEMMA LinkersOwn ==
  ASSUME NEW list, SectionsOK(list),
         \A k \in 1 .. 3 : \E i \in DOMAIN list : list[i].name = ArrayName(k),
         NEW S, MarkedSections \subseteq S,
         \A i \in DOMAIN list : "alloc" \in list[i].flags => list[i].name \in S
  PROVE  LinkerSymbols(list) \in Seq(NotypeIn(S))
PROOF
  <1> DEFINE Size(n) == list[CHOOSE i \in Number(list, n) : TRUE].data_offset
             T == {i \in DOMAIN list : list[i].type = "progbits" /\ {"alloc", "cname"} \subseteq list[i].flags}
             named == Picked(list, T)
             ends == <<Notype("_etext", ".text", Size(".text")), Notype("_edata", ".data", Size(".data")),
                       Notype("_end", ".bss", Size(".bss"))>>
             starts == [k \in 1 .. 3 |-> Notype("__" \o InitArrays[k] \o "_start", ArrayName(k), 0)]
             stops == [k \in 1 .. 3 |-> Notype("__" \o InitArrays[k] \o "_end", ArrayName(k), Size(ArrayName(k)))]
             begins == [k \in DOMAIN named |-> Notype("__start_" \o named[k].name, named[k].name, 0)]
             finishes == [k \in DOMAIN named |-> Notype("__stop_" \o named[k].name, named[k].name,
                                                        named[k].data_offset)]
  <1>1. LinkerSymbols(list) = ends \o starts \o stops \o begins \o finishes
    BY DEF LinkerSymbols
  <1>2. /\ \A n \in {".text", ".data", ".bss"} : Size(n) \in Nat
        /\ \A k \in 1 .. 3 : Size(ArrayName(k)) \in Nat
    <2>1. \A n \in {".text", ".data", ".bss"} : \E i \in DOMAIN list : list[i].name = n
      BY DEF SectionsOK
    <2> QED
      BY <2>1, SizeOf
  <1>3. PicksOf(SecRec, list, T, named)
    <2>1. list \in Seq(SecRec) /\ T \in SUBSET DOMAIN list
      BY DEF SectionsOK
    <2> HIDE DEF T
    <2> QED
      BY <2>1, PickedIs
  <1> HIDE DEF T
  <1>4. named \in Seq(SecRec)
    BY <1>3 DEF PicksOf
  <1> HIDE DEF named, Size
  <1>5. \A k \in DOMAIN named : named[k] \in SecRec /\ named[k].name \in S
    <2>1. \A i \in T : i \in DOMAIN list /\ "alloc" \in list[i].flags
      BY DEF T
    <2> QED
      BY <1>3, <1>4, <2>1 DEF PicksOf
  <1>6. /\ ".text" \in S /\ ".data" \in S /\ ".bss" \in S
         /\ \A k \in 1 .. 3 : ArrayName(k) \in S
    BY DEF MarkedSections
  <1>7. \A s \in SecRec : s.name \in SectionNames /\ s.data_offset \in Nat
    BY DEF SecRec
  <1>8. SectionNames \subseteq Strings /\ \A k \in 1 .. 3 : ArrayName(k) \in SectionNames
    BY DEF Strings, SectionNames
  <1>9. /\ \A n \in SectionNames : "__start_" \o n \in Strings /\ "__stop_" \o n \in Strings
        /\ \A k \in 1 .. 3 : "__" \o InitArrays[k] \o "_start" \in Strings /\ "__" \o InitArrays[k] \o "_end" \in Strings
        /\ {"_etext", "_edata", "_end", ".text", ".data", ".bss"} \subseteq Strings
    BY DEF Strings, SectionNames
  <1>10. \A k \in DOMAIN named : begins[k] \in NotypeIn(S) /\ finishes[k] \in NotypeIn(S)
    BY <1>5, <1>7, <1>8, <1>9, Untyped
  <1>11. \A k \in 1 .. 3 : starts[k] \in NotypeIn(S) /\ stops[k] \in NotypeIn(S)
    BY <1>2, <1>9, <1>6, Untyped
  <1>12. ends \in Seq(NotypeIn(S))
    <2>1. /\ Notype("_etext", ".text", Size(".text")) \in NotypeIn(S)
          /\ Notype("_edata", ".data", Size(".data")) \in NotypeIn(S)
          /\ Notype("_end", ".bss", Size(".bss")) \in NotypeIn(S)
      BY <1>2, <1>9, <1>6, Untyped
    <2> QED
      BY <2>1
  <1>13. starts \in Seq(NotypeIn(S)) /\ stops \in Seq(NotypeIn(S))
    BY <1>11
  <1>14. begins \in Seq(NotypeIn(S)) /\ finishes \in Seq(NotypeIn(S))
    <2>1. DOMAIN named = 1 .. Len(named) /\ Len(named) \in Nat
      BY <1>4
    <2> QED
      BY <1>10, <2>1
  <1> HIDE DEF ends, starts, stops, begins, finishes
  <1> QED
    BY <1>1, <1>12, <1>13, <1>14

(***************************************************************************)
(* .dynsym, the GOT and the PLT                                            *)
(***************************************************************************)
\* Entries are only added to a table.
Extends(old, new) ==
  /\ DOMAIN old \subseteq DOMAIN new
  /\ \A i \in DOMAIN old : new[i] = old[i]

\* A copy stays where it is and what it is when .dynsym is added to.
LEMMA CopiesStay ==
  ASSUME NEW list, NEW old, NEW new,
         DOMAIN old \subseteq DOMAIN new, \A i \in DOMAIN old : new[i].size = old[i].size,
         \A k \in DOMAIN list : list[k].type = "COPY" => list[k].sym \in DOMAIN old
  PROVE  \A d : Copied(list, new, d) = Copied(list, old, d)
PROOF
  <1> DEFINE K == {k \in DOMAIN list : list[k].type = "COPY"}
             P(syms, d, k) == <<list[k].offset + d, syms[list[k].sym].size>>
  <1>1. \A syms, d : Copied(list, syms, d) = {P(syms, d, k) : k \in K}
    BY DEF Copied
  <1>2. \A k \in K : \A d : P(new, d, k) = P(old, d, k)
    OBVIOUS
  <1> HIDE DEF P, K
  <1>3. \A d : {P(new, d, k) : k \in K} = {P(old, d, k) : k \in K}
    <2> TAKE d
    <2>1. \A x : x \in {P(new, d, k) : k \in K} <=> \E k \in K : x = P(new, d, k)
      OBVIOUS
    <2>2. \A x : x \in {P(old, d, k) : k \in K} <=> \E k \in K : x = P(old, d, k)
      OBVIOUS
    <2>3. \A k \in K : P(new, d, k) = P(old, d, k)
      BY <1>2
    <2>4. ASSUME NEW x
          PROVE  x \in {P(new, d, k) : k \in K} <=> x \in {P(old, d, k) : k \in K}
      <3>1. ASSUME x \in {P(new, d, k) : k \in K}
            PROVE  x \in {P(old, d, k) : k \in K}
        <4>1. PICK k \in K : x = P(new, d, k)
          BY <2>1, <3>1
        <4> QED
          BY <2>2, <2>3, <4>1
      <3>2. ASSUME x \in {P(old, d, k) : k \in K}
            PROVE  x \in {P(new, d, k) : k \in K}
        <4>1. PICK k \in K : x = P(old, d, k)
          BY <2>2, <3>2
        <4> QED
          BY <2>1, <2>3, <4>1
      <3> QED
        BY <3>1, <3>2
    <2> QED
      BY <2>4
  <1> QED
    BY <1>1, <1>3

\* put_got_entry adds to .dynsym, to the GOT and to the PLT.
LEMMA GotEntryIs ==
  ASSUME NEW d, DynRec(d), NEW rt \in Strings, NEW info, info.type \in Strings, info.bind \in Strings,
         NEW i \in DOMAIN symtab_section, symtab_section \in Seq(SymRec)
  PROVE  /\ DynRec(put_got_entry(d, rt, info, i))
         /\ Extends(d.syms, put_got_entry(d, rt, info, i).syms)
         /\ put_got_entry(d, rt, info, i).got = <<>> => d.got = <<>>
         /\ GotRel(d, put_got_entry(d, rt, info, i), rt) \in Seq(RelRec)
PROOF
  <1> DEFINE e == put_got_entry(d, rt, info, i)
             at == GotOffset(d)
             plt == IF HasDynamic /\ rt = "JMP_SLOT"
                    THEN Append(IF d.plt = <<>> THEN <<0>> ELSE d.plt, at) ELSE <<>>
             u == [d EXCEPT !.got = Append(@, 0), !.got_offsets[i] = at,
                            !.plt = IF plt = <<>> THEN @ ELSE plt]
             sym == [symtab_section[i] EXCEPT !.value = GotSymbolValue(plt, i), !.type = info.type, !.bind = info.bind]
  <1>1. d.syms \in Seq(SymRec) /\ d.got \in Seq(Nat) /\ d.plt \in Seq(Nat)
    BY DEF DynRec
  <1>2. e = IF d.got_offsets[i] # 0 THEN d ELSE IF HasDynamic THEN put_elf_sym(u, sym) ELSE u
    BY DEF put_got_entry
  <1>3. at \in Nat
    BY <1>1 DEF GotOffset
  <1>4. plt \in Seq(Nat)
    <2>1. <<0>> \in Seq(Nat)
      OBVIOUS
    <2> QED
      BY <1>1, <1>3, <2>1
  <1>5. GotSymbolValue(plt, i) \in Nat
    <2>1. symtab_section[i].value \in Nat
      <3>1. symtab_section[i] \in SymRec
        OBVIOUS
      <3> QED
        BY <3>1 DEF SymRec
    <2>2. plt # <<>> => Len(plt) \in Nat \ {0}
      BY <1>4
    <2> HIDE DEF plt
    <2>3. plt # <<>> => 4 * (Len(plt) - 1) \in Nat
      BY <2>2
    <2> QED
      BY <2>1, <2>3 DEF GotSymbolValue
  <1> HIDE DEF plt
  <1>6. sym \in SymRec
    <2>1. symtab_section[i] \in SymRec
      OBVIOUS
    <2> QED
      BY <1>5, <2>1 DEF SymRec
  <1>7. u = [syms |-> d.syms, got |-> Append(d.got, 0), plt |-> IF plt = <<>> THEN d.plt ELSE plt,
             symtab_to_dynsym |-> d.symtab_to_dynsym, got_offsets |-> [d.got_offsets EXCEPT ![i] = at]]
    <2>1. d = [syms |-> d.syms, got |-> d.got, plt |-> d.plt,
               symtab_to_dynsym |-> d.symtab_to_dynsym, got_offsets |-> d.got_offsets]
      BY DEF DynRec
    <2> HIDE DEF at
    <2>2. PICK a, b, c, f, g : d = [syms |-> a, got |-> b, plt |-> c, symtab_to_dynsym |-> f, got_offsets |-> g]
      BY <2>1
    <2>3. d.syms = a /\ d.got = b /\ d.plt = c /\ d.symtab_to_dynsym = f /\ d.got_offsets = g
      BY <2>2
    <2> DEFINE pl == IF plt = <<>> THEN c ELSE plt
    <2>4. u = [d EXCEPT !.got = Append(b, 0), !.got_offsets = [g EXCEPT ![i] = at], !.plt = pl]
      BY <2>3
    <2> HIDE DEF u, pl
    <2>5. u = [syms |-> a, got |-> Append(b, 0), plt |-> pl, symtab_to_dynsym |-> f,
               got_offsets |-> [g EXCEPT ![i] = at]]
      BY <2>2, <2>4
    <2> QED
      BY <2>3, <2>5 DEF pl
  <1> HIDE DEF u, sym, at
  <1>8. DynRec(u) /\ u.syms = d.syms /\ u.got = Append(d.got, 0)
    BY <1>1, <1>4, <1>7 DEF DynRec
  <1>9. u.got # <<>>
    <2>1. \A s \in Seq(Nat) : Append(s, 0) # <<>>
      OBVIOUS
    <2> QED
      BY <1>1, <1>8, <2>1
  <1> DEFINE v == put_elf_sym(u, sym)
  <1>10. v = [syms |-> Append(u.syms, sym), got |-> u.got, plt |-> u.plt,
              symtab_to_dynsym |-> u.symtab_to_dynsym, got_offsets |-> u.got_offsets]
    <2>1. u = [syms |-> u.syms, got |-> u.got, plt |-> u.plt,
               symtab_to_dynsym |-> u.symtab_to_dynsym, got_offsets |-> u.got_offsets]
      BY <1>8 DEF DynRec
    <2>2. v = [u EXCEPT !.syms = Append(u.syms, sym)]
      BY DEF put_elf_sym
    <2> HIDE DEF v
    <2> QED
      BY <2>1, <2>2
  <1> HIDE DEF v
  <1>11. DynRec(v) /\ v.got = u.got /\ Extends(d.syms, v.syms)
    <2>1. Append(u.syms, sym) \in Seq(SymRec) /\ v.syms = Append(u.syms, sym) /\ v.got = u.got /\ v.plt = u.plt
      BY <1>1, <1>6, <1>8, <1>10
    <2>2. DynRec(v)
      BY <1>8, <1>10, <2>1 DEF DynRec
    <2>3. Extends(d.syms, v.syms)
      BY <1>1, <1>6, <1>8, <2>1 DEF Extends
    <2> QED
      BY <2>1, <2>2, <2>3
  <1>12. e = d \/ e = u \/ e = v
    BY <1>2 DEF v
  <1> HIDE DEF e
  <1>13. Extends(d.syms, d.syms)
    BY DEF Extends
  <1>14. DynRec(e) /\ Extends(d.syms, e.syms) /\ (e.got = <<>> => d.got = <<>>)
    BY <1>8, <1>9, <1>11, <1>12, <1>13
  <1>15. GotRel(d, e, rt) \in Seq(RelRec)
    <2>1. e.syms \in Seq(SymRec) /\ Len(e.syms) \in Nat /\ Len(d.got) \in Nat
      BY <1>1, <1>14 DEF DynRec
    <2>2. [offset |-> Len(d.got), type |-> rt, sym |-> Len(e.syms)] \in RelRec
      BY <2>1 DEF RelRec
    <2> QED
      BY <2>2 DEF GotRel
  <1> QED
    BY <1>14, <1>15 DEF e

(***************************************************************************)
(* Storage for common symbols                                              *)
(***************************************************************************)
\* Where .bss ends is a number for each symbol, as the loop computes it.
NextEnd(i, x) ==
  IF i \in Commons THEN AlignedTo(x, symtab_section[i].value) + symtab_section[i].size ELSE x

LEMMA StorageEnds ==
  ASSUME symtab_section \in Seq(SymRec), Section(".bss").data_offset \in Nat,
         \A i \in Commons : symtab_section[i].value # 0
  PROVE  /\ StorageEnd \in [0 .. Len(symtab_section) -> Nat]
         /\ StorageEnd[0] = Section(".bss").data_offset
         /\ \A i \in 1 .. Len(symtab_section) : StorageEnd[i] = NextEnd(i, StorageEnd[i - 1])
PROOF
  <1>1. PICK m \in Nat : m = Len(symtab_section)
    OBVIOUS
  <1>2. PICK b \in Nat : b = Section(".bss").data_offset
    OBVIOUS
  <1>3. \A i \in 1 .. m, x \in Nat : NextEnd(i, x) \in Nat /\ x <= NextEnd(i, x)
    <2> TAKE i \in 1 .. m, x \in Nat
    <2>1. symtab_section[i] \in SymRec
      BY <1>1
    <2>2. symtab_section[i].value \in Nat /\ symtab_section[i].size \in Nat
      BY <2>1 DEF SymRec
    <2>3. CASE i \in Commons
      <3>1. PICK v \in Nat \ {0} : v = symtab_section[i].value
        BY <2>2, <2>3
      <3>2. PICK s \in Nat : s = symtab_section[i].size
        BY <2>2
      <3>3. AlignedTo(x, v) \in Nat /\ x <= AlignedTo(x, v)
        BY <3>1, RoundsUp
      <3> QED
        BY <2>3, <3>1, <3>2, <3>3 DEF NextEnd
    <2>4. CASE i \notin Commons
      BY <2>4 DEF NextEnd
    <2> QED
      BY <2>3, <2>4
  <1> DEFINE Upto(n, f) == /\ f \in [0 .. n -> Nat]
                           /\ f[0] = b
                           /\ \A i \in 1 .. n : f[i] = NextEnd(i, f[i - 1])
             Good(n) == \E f : Upto(n, f)
             Bad == {n \in 0 .. m : ~Good(n)}
  <1>4. Bad = {}
    <2> SUFFICES ASSUME Bad # {} PROVE FALSE
      OBVIOUS
    <2>1. PICK n \in Bad : \A k \in Bad : n <= k
      <3>1. Bad \in SUBSET Nat
        OBVIOUS
      <3> HIDE DEF Bad
      <3> QED
        BY <3>1, Least
    <2>2. n \in 0 .. m /\ ~\E f : Upto(n, f)
      OBVIOUS
    <2> HIDE DEF Good
    <2>3. CASE n = 0
      <3>1. Upto(0, [i \in 0 .. 0 |-> b])
        OBVIOUS
      <3> HIDE DEF Upto
      <3> QED
        BY <2>2, <2>3, <3>1
    <2>4. CASE n # 0
      <3>1. n - 1 \in 0 .. m /\ n - 1 \notin Bad
        BY <2>1, <2>2, <2>4
      <3>2. PICK f : Upto(n - 1, f)
        <4> HIDE DEF Upto
        <4>1. Good(n - 1)
          BY <3>1
        <4> QED
          BY <4>1 DEF Good
      <3> DEFINE g == [i \in 0 .. n |-> IF i = n THEN NextEnd(n, f[n - 1]) ELSE f[i]]
      <3>3. n \in 1 .. m /\ f[n - 1] \in Nat
        BY <2>2, <2>4, <3>2
      <3>4. g \in [0 .. n -> Nat]
        <4>1. \A i \in 0 .. n : i # n => f[i] \in Nat
          BY <3>2, <3>3
        <4> QED
          BY <1>3, <3>3, <4>1
      <3>5. \A i \in 1 .. n : g[i] = NextEnd(i, g[i - 1])
        <4> TAKE i \in 1 .. n
        <4>1. g[i - 1] = f[i - 1]
          BY <3>3
        <4>2. i # n => f[i] = NextEnd(i, f[i - 1]) /\ g[i] = f[i]
          BY <3>2, <3>3
        <4>3. i = n => g[i] = NextEnd(i, f[i - 1])
          BY <3>3
        <4> QED
          BY <4>1, <4>2, <4>3
      <3>6. g[0] = b
        BY <3>2, <3>3
      <3>7. Upto(n, g)
        BY <3>4, <3>5, <3>6
      <3> QED
        BY <2>2, <3>7
    <2> QED
      BY <2>3, <2>4
  <1>5. PICK f : Upto(m, f)
    <2> HIDE DEF Upto
    <2>1. m \in 0 .. m
      OBVIOUS
    <2> HIDE DEF Good
    <2>2. Good(m)
      BY <1>4, <2>1
    <2> QED
      BY <2>2 DEF Good
  <1> DEFINE Whole(h) == [i \in 0 .. Len(symtab_section) |->
               IF i = 0 THEN Section(".bss").data_offset
               ELSE IF i \in Commons
                    THEN AlignedTo(h[i - 1], symtab_section[i].value) + symtab_section[i].size
               ELSE h[i - 1]]
  <1>6. f = Whole(f)
    <2>1. \A i \in 0 .. m : f[i] = IF i = 0 THEN b ELSE NextEnd(i, f[i - 1])
      BY <1>5
    <2>2. f = [i \in 0 .. m |-> f[i]]
      BY <1>5
    <2>3. f = [i \in 0 .. m |-> IF i = 0 THEN b ELSE NextEnd(i, f[i - 1])]
      BY <2>1, <2>2
    <2> QED
      BY <1>1, <1>2, <2>3 DEF NextEnd
  <1>7. StorageEnd = CHOOSE h : h = Whole(h)
    BY DEF StorageEnd
  <1> HIDE DEF Upto
  <1>8. StorageEnd = Whole(StorageEnd)
    <2> HIDE DEF Whole
    <2> QED
      BY <1>6, <1>7
  <1>9. StorageEnd = [i \in 0 .. m |-> IF i = 0 THEN b ELSE NextEnd(i, StorageEnd[i - 1])]
    BY <1>1, <1>2, <1>8 DEF NextEnd
  <1>10. \A i \in 0 .. m : StorageEnd[i] = IF i = 0 THEN b ELSE NextEnd(i, StorageEnd[i - 1])
    BY <1>9
  <1> DEFINE Odd == {n \in 0 .. m : StorageEnd[n] \notin Nat}
  <1>11. Odd = {}
    <2> SUFFICES ASSUME Odd # {} PROVE FALSE
      OBVIOUS
    <2>1. PICK n \in Odd : \A k \in Odd : n <= k
      <3>1. Odd \in SUBSET Nat
        OBVIOUS
      <3> HIDE DEF Odd
      <3> QED
        BY <3>1, Least
    <2>2. n \in 0 .. m /\ StorageEnd[n] \notin Nat
      OBVIOUS
    <2>3. n # 0
      BY <1>10, <2>2
    <2>4. n \in 1 .. m /\ n - 1 \in 0 .. m /\ n - 1 \notin Odd
      BY <2>1, <2>2, <2>3
    <2>5. StorageEnd[n - 1] \in Nat
      BY <2>4
    <2> QED
      BY <1>3, <1>10, <2>2, <2>3, <2>4, <2>5
  <1>12. StorageEnd \in [0 .. m -> Nat]
    <2>1. \A i \in 0 .. m : StorageEnd[i] \in Nat
      BY <1>11
    <2>2. StorageEnd = [i \in 0 .. m |-> StorageEnd[i]]
      BY <1>9, <1>10
    <2> QED
      BY <2>1, <2>2
  <1> QED
    BY <1>1, <1>2, <1>10, <1>12

\* .bss never shrinks on the way.
LEMMA StorageGrows ==
  ASSUME symtab_section \in Seq(SymRec), Section(".bss").data_offset \in Nat,
         \A i \in Commons : symtab_section[i].value # 0
  PROVE  /\ \A i, j \in 0 .. Len(symtab_section) : i <= j => StorageEnd[i] <= StorageEnd[j]
         /\ \A i \in Commons : /\ i \in 1 .. Len(symtab_section)
                               /\ symtab_section[i].size \in Nat
                               /\ StorageEnd[i - 1] <= StorageEnd[i] - symtab_section[i].size
PROOF
  <1>1. PICK m \in Nat : m = Len(symtab_section)
    OBVIOUS
  <1>2. /\ StorageEnd \in [0 .. m -> Nat]
        /\ \A i \in 1 .. m : StorageEnd[i] = NextEnd(i, StorageEnd[i - 1])
    BY <1>1, StorageEnds
  <1>3. ASSUME NEW i \in Commons
        PROVE  /\ i \in 1 .. m
               /\ symtab_section[i].size \in Nat
               /\ StorageEnd[i - 1] <= StorageEnd[i] - symtab_section[i].size
    <2>1. i \in 1 .. m /\ symtab_section[i] \in SymRec
      BY <1>1 DEF Commons
    <2>2. symtab_section[i].size \in Nat /\ symtab_section[i].value \in Nat
      BY <2>1 DEF SymRec
    <2>3. PICK v \in Nat \ {0} : v = symtab_section[i].value
      BY <2>2
    <2>4. PICK s \in Nat : s = symtab_section[i].size
      BY <2>2
    <2>5. PICK x \in Nat : x = StorageEnd[i - 1]
      BY <1>2, <2>1
    <2>6. AlignedTo(x, v) \in Nat /\ x <= AlignedTo(x, v)
      BY <2>3, RoundsUp
    <2>7. StorageEnd[i] = AlignedTo(x, v) + s
      BY <1>2, <2>1, <2>3, <2>4, <2>5 DEF NextEnd
    <2> QED
      BY <2>1, <2>4, <2>5, <2>6, <2>7
  <1>4. \A i \in 1 .. m : StorageEnd[i - 1] <= StorageEnd[i]
    <2> TAKE i \in 1 .. m
    <2>1. StorageEnd[i - 1] \in Nat /\ StorageEnd[i] \in Nat
      BY <1>2
    <2>2. CASE i \in Commons
      BY <1>3, <2>1, <2>2
    <2>3. CASE i \notin Commons
      BY <1>2, <2>1, <2>3 DEF NextEnd
    <2> QED
      BY <2>2, <2>3
  <1>5. ASSUME NEW i \in 0 .. m PROVE \A j \in 0 .. m : i <= j => StorageEnd[i] <= StorageEnd[j]
    <2> DEFINE Bad == {j \in 0 .. m : i <= j /\ ~(StorageEnd[i] <= StorageEnd[j])}
    <2> SUFFICES ASSUME Bad # {} PROVE FALSE
      OBVIOUS
    <2>1. PICK j \in Bad : \A k \in Bad : j <= k
      <3>1. Bad \in SUBSET Nat
        OBVIOUS
      <3> HIDE DEF Bad
      <3> QED
        BY <3>1, Least
    <2>2. j \in 0 .. m /\ i <= j /\ ~(StorageEnd[i] <= StorageEnd[j])
      OBVIOUS
    <2>3. j # i
      BY <1>2, <2>2
    <2>4. j \in 1 .. m /\ j - 1 \in 0 .. m /\ i <= j - 1
      BY <2>2, <2>3
    <2>5. j - 1 \notin Bad
      BY <2>1, <2>4
    <2>6. StorageEnd[i] <= StorageEnd[j - 1]
      BY <2>4, <2>5
    <2> QED
      BY <1>2, <1>4, <2>2, <2>4, <2>6
  <1> QED
    BY <1>1, <1>3, <1>5

\* The symbol table when common symbols have storage.
WithStorage ==
  [i \in DOMAIN symtab_section |->
     IF i \in Commons
     THEN [symtab_section[i] EXCEPT !.sec = ".bss", !.value = StorageEnd[i] - symtab_section[i].size]
     ELSE symtab_section[i]]

\* Common symbols get places behind those there, and apart.
LEMMA CommonsFit ==
  ASSUME symtab_section \in Seq(SymRec), Section(".bss").data_offset \in Nat,
         \A i \in Commons : symtab_section[i].value # 0,
         NEW C, Fit(Variables(symtab_section) \cup C, 0, Section(".bss").data_offset)
  PROVE  /\ WithStorage \in Seq(SymRec)
         /\ DOMAIN WithStorage = DOMAIN symtab_section
         /\ Fit(Variables(WithStorage) \cup C, 0, StorageEnd[Len(symtab_section)])
PROOF
  <1> DEFINE new == WithStorage
  <1>1. PICK m \in Nat : m = Len(symtab_section)
    OBVIOUS
  <1>2. PICK b \in Nat : b = Section(".bss").data_offset
    OBVIOUS
  <1>3. /\ StorageEnd \in [0 .. m -> Nat]
        /\ StorageEnd[0] = b
    BY <1>1, <1>2, StorageEnds
  <1>4. /\ \A i, j \in 0 .. m : i <= j => StorageEnd[i] <= StorageEnd[j]
        /\ \A i \in Commons : /\ i \in 1 .. m
                              /\ symtab_section[i].size \in Nat
                              /\ StorageEnd[i - 1] <= StorageEnd[i] - symtab_section[i].size
    BY <1>1, StorageGrows
  <1>5. DOMAIN symtab_section = 1 .. m /\ \A i \in 1 .. m : symtab_section[i] \in SymRec
    BY <1>1
  <1> DEFINE P(i) == <<StorageEnd[i] - symtab_section[i].size, symtab_section[i].size>>
             S == Variables(symtab_section) \cup C
             U == Variables(new) \cup C
             N == {P(i) : i \in Commons}
  <1>6. \A i \in Commons : /\ StorageEnd[i] \in Nat /\ StorageEnd[i - 1] \in Nat
                           /\ P(i) \in Int \X Nat
                           /\ P(i)[1] = StorageEnd[i] - symtab_section[i].size
                           /\ P(i)[2] = symtab_section[i].size
                           /\ StorageEnd[i - 1] <= P(i)[1]
                           /\ P(i)[1] + P(i)[2] = StorageEnd[i]
                           /\ StorageEnd[i] - symtab_section[i].size \in Nat
    <2> TAKE i \in Commons
    <2>1. PICK s \in Nat : s = symtab_section[i].size
      BY <1>4
    <2>2. PICK e \in Nat : e = StorageEnd[i]
      BY <1>3, <1>4
    <2>3. PICK f \in Nat : f = StorageEnd[i - 1]
      BY <1>3, <1>4
    <2>4. f <= e - s
      BY <1>4, <2>1, <2>2, <2>3
    <2>5. P(i) = <<e - s, s>>
      BY <2>1, <2>2
    <2> HIDE DEF P
    <2> QED
      BY <2>1, <2>2, <2>3, <2>4, <2>5
  <1>7. \A i \in 1 .. m :
          /\ new[i] \in SymRec
          /\ i \in Commons => new[i].value = StorageEnd[i] - symtab_section[i].size
                              /\ new[i].size = symtab_section[i].size
          /\ i \notin Commons => new[i] = symtab_section[i]
    <2> TAKE i \in 1 .. m
    <2>1. CASE i \in Commons
      <3>1. new[i] = [symtab_section[i] EXCEPT !.sec = ".bss", !.value = StorageEnd[i] - symtab_section[i].size]
        BY <1>5, <2>1 DEF WithStorage
      <3>2. StorageEnd[i] - symtab_section[i].size \in Nat
        BY <1>6, <2>1
      <3>3. ".bss" \in Strings
        BY DEF Strings, SectionNames
      <3>4. PICK v \in Nat : v = StorageEnd[i] - symtab_section[i].size
        BY <3>2
      <3>5. symtab_section[i] \in SymRec /\ new[i] = [symtab_section[i] EXCEPT !.sec = ".bss", !.value = v]
        BY <1>5, <3>1, <3>4
      <3>6. new[i] \in SymRec /\ new[i].value = v /\ new[i].size = symtab_section[i].size
        BY <3>3, <3>5 DEF SymRec
      <3> QED
        BY <2>1, <3>4, <3>6
    <2>2. CASE i \notin Commons
      BY <1>5, <2>2 DEF WithStorage
    <2> QED
      BY <2>1, <2>2
  <1>8. new \in Seq(SymRec) /\ DOMAIN new = 1 .. m
    <2>1. new = [i \in 1 .. m |-> new[i]]
      BY <1>5 DEF WithStorage
    <2> QED
      BY <1>7, <2>1
  <1>9. U \subseteq S \cup N
    <2> SUFFICES ASSUME NEW p \in Variables(new) PROVE p \in S \cup N
      OBVIOUS
    <2>1. PICK i \in DOMAIN new : new[i].sec = ".bss" /\ new[i].type = "object" /\ p = <<new[i].value, new[i].size>>
      BY DEF Variables
    <2>2. CASE i \in Commons
      <3>1. p = P(i)
        BY <1>7, <1>8, <2>1, <2>2
      <3> QED
        BY <2>2, <3>1
    <2>3. CASE i \notin Commons
      <3>1. new[i] = symtab_section[i] /\ i \in DOMAIN symtab_section
        BY <1>5, <1>7, <1>8, <2>1, <2>3
      <3>2. p \in Variables(symtab_section)
        BY <2>1, <3>1 DEF Variables
      <3> QED
        BY <3>2
    <2> QED
      BY <2>2, <2>3
  <1>10. /\ S \subseteq Int \X Nat
         /\ \A p \in S : p[1] \in Int /\ p[2] \in Nat /\ 0 <= p[1] /\ p[1] + p[2] <= b
         /\ \A p, q \in S : p # q => Apart(p, q)
    BY <1>2 DEF Fit
  <1> HIDE DEF S, U, P
  <1>11. \A i \in Commons : b <= StorageEnd[i - 1] /\ StorageEnd[i] <= StorageEnd[m]
    <2> TAKE i \in Commons
    <2>1. i \in 1 .. m /\ i - 1 \in 0 .. m /\ 0 \in 0 .. m /\ m \in 0 .. m /\ i \in 0 .. m
      BY <1>4
    <2> QED
      BY <1>3, <1>4, <2>1
  <1>12. b <= StorageEnd[m] /\ StorageEnd[m] \in Nat
    <2>1. 0 \in 0 .. m /\ m \in 0 .. m
      OBVIOUS
    <2> QED
      BY <1>3, <1>4, <2>1
  <1>13. \A p \in S, i \in Commons : Apart(p, P(i)) /\ Apart(P(i), p)
    <2> TAKE p \in S, i \in Commons
    <2>1. p[1] \in Int /\ p[2] \in Nat /\ p[1] + p[2] <= b
      BY <1>10
    <2>2. P(i)[1] \in Int /\ b <= P(i)[1]
      BY <1>6, <1>11
    <2> QED
      BY <2>1, <2>2 DEF Apart
  <1>14. \A i, j \in Commons : i < j => Apart(P(i), P(j)) /\ Apart(P(j), P(i))
    <2> SUFFICES ASSUME NEW i \in Commons, NEW j \in Commons, i < j
                 PROVE  P(i)[1] + P(i)[2] <= P(j)[1]
      BY DEF Apart
    <2>1. i \in 0 .. m /\ j - 1 \in 0 .. m /\ i <= j - 1
      BY <1>4
    <2>2. StorageEnd[i] <= StorageEnd[j - 1]
      BY <1>4, <2>1
    <2>3. P(i)[1] + P(i)[2] = StorageEnd[i] /\ StorageEnd[j - 1] <= P(j)[1]
      BY <1>6
    <2>4. StorageEnd[i] \in Nat /\ StorageEnd[j - 1] \in Nat /\ P(j)[1] \in Int
      BY <1>6
    <2> QED
      BY <2>2, <2>3, <2>4
  <1>15. \A p, q \in S \cup N : p # q => Apart(p, q)
    <2> TAKE p, q \in S \cup N
    <2>1. CASE p \in S /\ q \in S
      BY <1>10, <2>1
    <2>2. CASE p \in S /\ q \in N
      BY <1>13, <2>2
    <2>3. CASE p \in N /\ q \in S
      BY <1>13, <2>3
    <2>4. ASSUME NEW i \in Commons, NEW j \in Commons, p = P(i), q = P(j)
          PROVE  p # q => Apart(p, q)
      <3>1. i \in 1 .. m /\ j \in 1 .. m
        BY <1>4
      <3>2. i < j \/ j < i \/ i = j
        BY <3>1
      <3> QED
        BY <1>14, <2>4, <3>2
    <2> QED
      BY <2>1, <2>2, <2>3, <2>4
  <1>16. \A p \in S \cup N : p \in Int \X Nat /\ 0 <= p[1] /\ p[1] + p[2] <= StorageEnd[m]
    <2>1. \A p \in S : p \in Int \X Nat /\ 0 <= p[1] /\ p[1] + p[2] <= StorageEnd[m]
      BY <1>10, <1>12
    <2>2. \A i \in Commons : P(i) \in Int \X Nat /\ 0 <= P(i)[1] /\ P(i)[1] + P(i)[2] <= StorageEnd[m]
      BY <1>3, <1>6, <1>11
    <2> QED
      BY <2>1, <2>2
  <1>17. Fit(U, 0, StorageEnd[m])
    BY <1>9, <1>15, <1>16 DEF Fit
  <1> QED
    BY <1>1, <1>5, <1>8, <1>17 DEF U

(***************************************************************************)
(* Each step until sections get addresses                                  *)
(***************************************************************************)
\* What is in .bss is inside it and apart, and .bss is there.
LEMMA BssFits ==
  ASSUME EarlyInv
  PROVE  \E i \in DOMAIN secs :
           /\ secs[i].name = ".bss"
           /\ Section(".bss") = secs[i]
           /\ Section(".bss").data_offset \in Nat
           /\ Fit(Variables(symtab_section) \cup Copied(rels[".bss"], dyn.syms, 0),
                  0, Section(".bss").data_offset)
PROOF
  <1>1. SectionsOK(secs)
    BY DEF EarlyInv
  <1>2. PICK i \in DOMAIN secs : secs[i].name = ".bss"
    BY <1>1 DEF SectionsOK
  <1>3. Section(".bss") = secs[i] /\ Section(".bss").data_offset \in Nat
    BY <1>1, <1>2, BssIs
  <1>4. Fit(Variables(symtab_section) \cup Copied(rels[".bss"], dyn.syms, 0), 0, secs[i].data_offset)
    BY <1>2 DEF EarlyInv, PlacesOK
  <1> QED
    BY <1>2, <1>3, <1>4

\* Common symbols get storage.
LEMMA CommonsStep ==
  ASSUME EarlyInv, relocate_common_syms
  PROVE  EarlyInv'
PROOF
  <1>1. PICK b \in DOMAIN secs :
          /\ secs[b].name = ".bss"
          /\ Section(".bss") = secs[b]
          /\ Section(".bss").data_offset \in Nat
          /\ Fit(Variables(symtab_section) \cup Copied(rels[".bss"], dyn.syms, 0),
                 0, Section(".bss").data_offset)
    BY BssFits
  <1>2. phase = "commons" /\ symtab_section \in Seq(SymRec) /\ \A i \in Commons : symtab_section[i].value # 0
    BY DEF EarlyInv, SymbolsOK, NotYet, relocate_common_syms
  <1>3. /\ WithStorage \in Seq(SymRec)
        /\ DOMAIN WithStorage = DOMAIN symtab_section
        /\ Fit(Variables(WithStorage) \cup Copied(rels[".bss"], dyn.syms, 0),
               0, StorageEnd[Len(symtab_section)])
    BY <1>1, <1>2, CommonsFit
  <1>4. PICK size \in Nat : size = StorageEnd[Len(symtab_section)]
    <2>1. StorageEnd \in [0 .. Len(symtab_section) -> Nat] /\ Len(symtab_section) \in Nat
      BY <1>1, <1>2, StorageEnds
    <2> QED
      BY <2>1
  <1>5. /\ symtab_section' = WithStorage
        /\ secs' = Grown(secs, ".bss", size)
        /\ phase' = "linker symbols"
        /\ UNCHANGED <<mode, sites, next, dyn, rels>>
    BY <1>4 DEF relocate_common_syms, WithStorage
  <1>6. /\ SectionsOK(secs')
        /\ DOMAIN secs' = DOMAIN secs
        /\ \A i \in DOMAIN secs : /\ secs'[i].name = secs[i].name
                                  /\ secs[i].name = ".bss" => secs'[i].data_offset = size
    BY <1>5, Grows DEF EarlyInv
  <1>7. SymbolsOK'
    BY <1>3, <1>5 DEF EarlyInv, SymbolsOK
  <1>8. CopiesOK'
    BY <1>5, <1>6 DEF EarlyInv, CopiesOK
  <1>9. PlacesOK'
    BY <1>3, <1>4, <1>5, <1>6 DEF PlacesOK
  <1>10. NotYet'
    BY <1>2, <1>5, <1>6 DEF EarlyInv, NotYet, First, Second
  <1> QED
    BY <1>5, <1>6, <1>7, <1>8, <1>9, <1>10 DEF EarlyInv

\* Sections, symbols and relocations that are added elsewhere leave .bss alone.
LEMMA PlacesStay ==
  ASSUME SectionsOK(secs), PlacesOK, CopiesOK,
         NEW N, Adds(secs, secs', N), ".bss" \notin N,
         Variables(symtab_section') = Variables(symtab_section),
         rels'[".bss"] = rels[".bss"],
         DOMAIN dyn.syms \subseteq DOMAIN dyn'.syms,
         \A i \in DOMAIN dyn.syms : dyn'.syms[i].size = dyn.syms[i].size
  PROVE  SectionsOK(secs') /\ PlacesOK' /\ CopiesOK'
PROOF
  <1>1. /\ SectionsOK(secs')
        /\ DOMAIN secs \subseteq DOMAIN secs'
        /\ \A i \in DOMAIN secs : secs'[i] = secs[i]
        /\ \A i \in DOMAIN secs' : i \in DOMAIN secs \/ secs'[i].name \in N
    BY DEF Adds
  <1>2. \A k \in DOMAIN rels[".bss"] : rels[".bss"][k].type = "COPY" => rels[".bss"][k].sym \in DOMAIN dyn.syms
    BY DEF CopiesOK
  <1>3. Copied(rels[".bss"], dyn'.syms, 0) = Copied(rels[".bss"], dyn.syms, 0)
    <2>1. PICK list : list = rels[".bss"]
      OBVIOUS
    <2>2. PICK old : old = dyn.syms
      OBVIOUS
    <2>3. PICK new : new = dyn'.syms
      OBVIOUS
    <2>4. /\ DOMAIN old \subseteq DOMAIN new /\ \A i \in DOMAIN old : new[i].size = old[i].size
          /\ \A k \in DOMAIN list : list[k].type = "COPY" => list[k].sym \in DOMAIN old
      BY <1>2, <2>1, <2>2, <2>3
    <2>5. \A d : Copied(list, new, d) = Copied(list, old, d)
      BY ONLY <2>4, CopiesStay
    <2> QED
      BY <2>1, <2>2, <2>3, <2>5
  <1>4. \A i \in DOMAIN secs' : secs'[i].name = ".bss" => i \in DOMAIN secs /\ secs[i] = secs'[i]
    BY <1>1
  <1>5. PlacesOK'
    BY <1>3, <1>4 DEF PlacesOK
  <1>6. CopiesOK'
    <2>1. rels'[".bss"] \in Seq(RelRec)
      BY DEF CopiesOK
    <2>2. \A k \in DOMAIN rels'[".bss"] :
             rels'[".bss"][k].type = "COPY" => rels'[".bss"][k].sym \in DOMAIN dyn'.syms
      BY <1>2
    <2>3. HasCopies(rels[".bss"]) => \E i \in DOMAIN secs : secs[i].name = RelName(".bss")
      BY DEF CopiesOK
    <2>4. HasCopies(rels'[".bss"]) => \E i \in DOMAIN secs' : secs'[i].name = RelName(".bss")
      BY <1>1, <2>3
    <2> QED
      BY <2>1, <2>2, <2>4 DEF CopiesOK
  <1> QED
    BY <1>1, <1>5, <1>6

\* What the linker's own symbols do to the table: some that were undefined are
\* replaced, the others are put behind.
LEMMA LinkerTableIn ==
  ASSUME EarlyInv, tcc_add_linker_symbols,
         NEW S, S \subseteq Strings, MarkedSections \subseteq S,
         \A i \in DOMAIN secs' : "alloc" \in secs'[i].flags => secs'[i].name \in S
  PROVE  /\ symtab_section' \in Seq(SymRec)
         /\ DOMAIN symtab_section \subseteq DOMAIN symtab_section'
         /\ \A i \in DOMAIN symtab_section :
              \/ symtab_section'[i] \in NotypeIn(S) /\ symtab_section[i].sec = "undef"
              \/ symtab_section'[i] = symtab_section[i]
         /\ \A i \in DOMAIN symtab_section' \ DOMAIN symtab_section : symtab_section'[i] \in NotypeIn(S)
PROOF
  <1> DEFINE added == LinkerSymbols(WithInitArrays)
             Given(i) == {k \in DOMAIN added : /\ added[k].name = symtab_section[i].name
                                               /\ find_elf_sym_in(symtab_section, added[k].name) = i}
             front == [i \in DOMAIN symtab_section |->
                         IF Given(i) # {} /\ IsUndef(symtab_section[i])
                         THEN added[CHOOSE k \in Given(i) : TRUE] ELSE symtab_section[i]]
             absent == {k \in DOMAIN added : find_elf_sym_in(symtab_section, added[k].name) = 0}
             back == Picked(added, absent)
             N == {ArrayName(k) : k \in 1 .. 3}
  <1>1. /\ phase = "linker symbols"
        /\ secs' = WithInitArrays
        /\ symtab_section' = front \o back
        /\ phase' = IF HasDynamic THEN "dynamic sections" ELSE "got"
        /\ next' = 1
        /\ UNCHANGED <<mode, sites, dyn, rels>>
    BY DEF tcc_add_linker_symbols
  <1>2. /\ Adds(secs, secs', N)
        /\ \A k \in 1 .. 3 : \E i \in DOMAIN secs' : secs'[i].name = ArrayName(k)
    BY <1>1, AddingArrays DEF EarlyInv
  <1>3. added \in Seq(NotypeIn(S))
    <2>1. /\ SectionsOK(WithInitArrays)
          /\ \A i \in DOMAIN WithInitArrays : "alloc" \in WithInitArrays[i].flags => WithInitArrays[i].name \in S
      BY <1>1, <1>2 DEF Adds
    <2> QED
      BY <1>1, <1>2, <2>1, LinkersOwn
  <1> HIDE DEF added
  <1>4. back \in Seq(NotypeIn(S))
    <2>1. absent \in SUBSET DOMAIN added
      OBVIOUS
    <2> HIDE DEF absent
    <2> QED
      BY <1>3, <2>1, PickedIs DEF PicksOf
  <1> HIDE DEF back
  <1>5. symtab_section \in Seq(SymRec)
    BY DEF EarlyInv, SymbolsOK
  <1>6. PICK m \in Nat : m = Len(symtab_section)
    BY <1>5
  <1>7. DOMAIN symtab_section = 1 .. m /\ \A i \in 1 .. m : symtab_section[i] \in SymRec
    BY <1>5, <1>6
  <1>8. \A i \in 1 .. m :
          \/ front[i] \in NotypeIn(S) /\ symtab_section[i].sec = "undef"
          \/ front[i] = symtab_section[i]
    <2> TAKE i \in 1 .. m
    <2>1. CASE Given(i) # {} /\ IsUndef(symtab_section[i])
      <3>1. (CHOOSE k \in Given(i) : TRUE) \in DOMAIN added
        BY <2>1
      <3>2. added[CHOOSE k \in Given(i) : TRUE] \in NotypeIn(S)
        BY <1>3, <3>1
      <3>3. symtab_section[i].sec = "undef"
        BY <2>1 DEF IsUndef
      <3> HIDE DEF Given
      <3> QED
        BY <1>7, <2>1, <3>2, <3>3
    <2>2. CASE ~(Given(i) # {} /\ IsUndef(symtab_section[i]))
      <3> HIDE DEF Given
      <3> QED
        BY <1>7, <2>2
    <2> QED
      BY <2>1, <2>2
  <1>9. DOMAIN front = 1 .. m
    BY <1>7
  <1>10. front = [i \in 1 .. m |-> front[i]]
    BY <1>7
  <1> HIDE DEF front
  <1>11. front \in Seq(SymRec) /\ Len(front) = m
    <2>1. \A i \in 1 .. m : front[i] \in SymRec
      BY <1>7, <1>8, NotypeIsSymbol
    <2>2. PICK f : f = front
      OBVIOUS
    <2>3. f = [i \in 1 .. m |-> f[i]] /\ \A i \in 1 .. m : f[i] \in SymRec
      BY <1>10, <2>1, <2>2
    <2>4. f \in Seq(SymRec) /\ Len(f) = m
      BY <2>3
    <2> QED
      BY <2>2, <2>4
  <1>12. PICK n \in Nat : n = Len(back)
    BY <1>4
  <1>13. back \in Seq(SymRec)
    BY <1>4, NotypeIsSymbol
  <1>14. PICK new : new = symtab_section'
    OBVIOUS
  <1>15. /\ new \in Seq(SymRec)
         /\ DOMAIN new = 1 .. m + n
         /\ \A i \in 1 .. m : new[i] = front[i]
         /\ \A i \in m + 1 .. m + n : new[i] \in NotypeIn(S)
    <2>1. PICK f \in Seq(SymRec) : f = front
      BY <1>11
    <2>2. PICK g \in Seq(SymRec) : g = back
      BY <1>13
    <2>3. Len(f) = m /\ Len(g) = n
      BY <1>11, <1>12, <2>1, <2>2
    <2>4. DOMAIN f = 1 .. m /\ DOMAIN g = 1 .. n
      BY <2>3
    <2>5. new = f \o g
      BY <1>1, <1>14, <2>1, <2>2
    <2>6. /\ new \in Seq(SymRec) /\ DOMAIN new = 1 .. m + n
          /\ \A i \in DOMAIN f : new[i] = f[i]
          /\ \A k \in DOMAIN g : new[m + k] = g[k]
      <3>1. f \o g \in Seq(SymRec)
        OBVIOUS
      <3>2. DOMAIN (f \o g) = 1 .. m + n
        BY <2>3
      <3>3. \A i \in DOMAIN f : (f \o g)[i] = f[i]
        BY <2>3, <2>4
      <3>4. \A k \in DOMAIN g : (f \o g)[m + k] = g[k]
        BY <2>3, <2>4
      <3> QED
        BY <2>5, <3>1, <3>2, <3>3, <3>4
    <2>7. \A i \in m + 1 .. m + n : i - m \in 1 .. n /\ m + (i - m) = i
      OBVIOUS
    <2>8. \A k \in 1 .. n : g[k] \in NotypeIn(S)
      BY <1>4, <1>12, <2>2
    <2> QED
      BY <2>1, <2>4, <2>6, <2>7, <2>8
  <1>16. DOMAIN new \ DOMAIN symtab_section = m + 1 .. m + n /\ DOMAIN symtab_section \subseteq DOMAIN new
    BY <1>7, <1>15
  <1> QED
    BY <1>7, <1>8, <1>14, <1>15, <1>16

LEMMA LinkerTable ==
  ASSUME EarlyInv, tcc_add_linker_symbols,
         NEW S, S \subseteq Strings, \A i \in DOMAIN secs' : secs'[i].name \in S
  PROVE  /\ symtab_section' \in Seq(SymRec)
         /\ DOMAIN symtab_section \subseteq DOMAIN symtab_section'
         /\ \A i \in DOMAIN symtab_section :
              \/ symtab_section'[i] \in NotypeIn(S) /\ symtab_section[i].sec = "undef"
              \/ symtab_section'[i] = symtab_section[i]
         /\ \A i \in DOMAIN symtab_section' \ DOMAIN symtab_section : symtab_section'[i] \in NotypeIn(S)
PROOF
  <1>1. secs' = WithInitArrays
    BY DEF tcc_add_linker_symbols
  <1>2. /\ SectionsOK(secs')
        /\ \A k \in 1 .. 3 : \E i \in DOMAIN secs' : secs'[i].name = ArrayName(k)
    BY <1>1, AddingArrays DEF EarlyInv, Adds
  <1>3. MarkedSections \subseteq S
    BY <1>2 DEF MarkedSections, SectionsOK
  <1> QED
    BY <1>3, LinkerTableIn

\* The linker's own symbols are defined, and the sections they are for made.
LEMMA LinkerSymbolsStep ==
  ASSUME EarlyInv, tcc_add_linker_symbols
  PROVE  EarlyInv'
PROOF
  <1> DEFINE N == {ArrayName(k) : k \in 1 .. 3}
  <1>1. /\ phase = "linker symbols"
        /\ secs' = WithInitArrays
        /\ phase' = IF HasDynamic THEN "dynamic sections" ELSE "got"
        /\ next' = 1
        /\ UNCHANGED <<mode, sites, dyn, rels>>
    BY DEF tcc_add_linker_symbols
  <1>2. Adds(secs, secs', N)
    BY <1>1, AddingArrays DEF EarlyInv
  <1>3. PICK new : new = symtab_section'
    OBVIOUS
  <1>4. /\ new \in Seq(SymRec)
        /\ DOMAIN symtab_section \subseteq DOMAIN new
        /\ \A i \in DOMAIN symtab_section :
             \/ new[i] \in NotypeIn(Strings) /\ symtab_section[i].sec = "undef"
             \/ new[i] = symtab_section[i]
        /\ \A i \in DOMAIN new \ DOMAIN symtab_section : new[i] \in NotypeIn(Strings)
    <2>1. \A i \in DOMAIN secs' : secs'[i].name \in Strings
      <3>1. \A i \in DOMAIN secs' : secs'[i] \in SecRec
        BY <1>2 DEF Adds, SectionsOK
      <3>2. \A q \in SecRec : q.name \in Strings
        BY DEF SecRec, Strings
      <3> QED
        BY <3>1, <3>2
    <2> QED
      BY <1>3, <2>1, LinkerTable
  <1>5. Variables(new) = Variables(symtab_section)
    <2>1. \A s \in NotypeIn(Strings) : ~IsVariable(s)
      BY DEF NotypeIn, IsVariable
    <2>2. \A i \in DOMAIN symtab_section : symtab_section[i].sec = "undef" => ~IsVariable(symtab_section[i])
      BY DEF IsVariable
    <2>3. \A i \in DOMAIN symtab_section : IsVariable(symtab_section[i]) => new[i] = symtab_section[i]
      BY <1>4, <2>2
    <2>4. \A i \in DOMAIN new : IsVariable(new[i]) <=> i \in DOMAIN symtab_section /\ IsVariable(symtab_section[i])
      BY <1>4, <2>1, <2>2
    <2> QED
      BY <1>4, <2>3, <2>4, SameVariables
  <1>6. ".bss" \notin N /\ N \cap OwnSections = {}
    BY NamesAssumption
  <1>7. SectionsOK(secs') /\ PlacesOK' /\ CopiesOK'
    BY <1>1, <1>2, <1>3, <1>5, <1>6, PlacesStay DEF EarlyInv
  <1>8. SymbolsOK'
    <2>1. \A k \in 1 .. Len(Sites) : sites[k].type \in Strings /\ sites[k].sym \in DOMAIN symtab_section
      BY DEF EarlyInv, SymbolsOK
    <2> QED
      BY <1>1, <1>3, <1>4, <2>1 DEF SymbolsOK
  <1>9. \A i \in DOMAIN secs' : secs'[i].name \notin OwnSections
    <2>1. \A i \in DOMAIN secs : secs[i].name \notin OwnSections
      BY <1>1 DEF EarlyInv, NotYet, First
    <2> QED
      BY <1>2, <1>6, <2>1 DEF Adds
  <1>10. NotYet'
    <2>1. ~HasCopies(rels'[".bss"])
      BY <1>1 DEF EarlyInv, NotYet, First
    <2>2. \A i \in DOMAIN secs' : secs'[i].name # ".shstrtab" /\ secs'[i].name # ".got"
      BY <1>9 DEF OwnSections, NamedSections
    <2>3. phase' = "dynamic sections" => HasDynamic'
      BY <1>1 DEF HasDynamic, InMemory
    <2> QED
      BY <1>1, <1>9, <2>1, <2>2, <2>3 DEF NotYet, First, Second
  <1>11. dyn' = dyn /\ rels' = rels /\ next' = 1
    BY <1>1
  <1> QED
    BY <1>7, <1>8, <1>10, <1>11 DEF EarlyInv

\* A section the linker makes, other than .bss and those for relocations.
LEMMA MadeIsOK ==
  ASSUME NEW n \in SectionNames, n # ".bss", n # RelName(".bss"),
         NEW t \in Strings, t # "nobits", t # "rel",
         NEW F \in SUBSET Flags, NEW a \in Nat \ {0}, NEW size \in Nat
  PROVE  /\ SecOf(n, t, F, a, size) \in SecRec
         /\ SectionOK(SecOf(n, t, F, a, size))
         /\ SecOf(n, t, F, a, size).name = n
PROOF
  <1>1. PICK none \in Strings : none = ""
    BY DEF Strings
  <1>2. PICK s : s = SecOf(n, t, F, a, size)
    OBVIOUS
  <1>3. s = [name |-> n, of |-> none, type |-> t, flags |-> F, align |-> a, data_offset |-> size, sh_size |-> 0]
    BY <1>1, <1>2, Zenon DEF SecOf
  <1>4. s \in SecRec /\ s.name = n /\ s.type = t
    BY <1>3 DEF SecRec
  <1>5. SectionOK(s)
    BY <1>4 DEF SectionOK
  <1> QED
    BY <1>2, <1>4, <1>5

\* The GOT is begun: .dynsym and the PLT stay as they are.
LEMMA BuildGotIs ==
  ASSUME NEW d, DynRec(d)
  PROVE  /\ DynRec(build_got(d))
         /\ build_got(d).syms = d.syms
         /\ build_got(d).got # <<>>
PROOF
  <1>1. /\ d = [syms |-> d.syms, got |-> d.got, plt |-> d.plt,
                symtab_to_dynsym |-> d.symtab_to_dynsym, got_offsets |-> d.got_offsets]
        /\ d.syms \in Seq(SymRec) /\ d.got \in Seq(Nat) /\ d.plt \in Seq(Nat)
    BY DEF DynRec
  <1>2. PICK g : g = <<0, 0, 0>>
    OBVIOUS
  <1>3. g \in Seq(Nat) /\ g # <<>>
    BY <1>2
  <1>4. PICK e : e = build_got(d)
    OBVIOUS
  <1>5. e = [syms |-> d.syms, got |-> g, plt |-> d.plt,
             symtab_to_dynsym |-> d.symtab_to_dynsym, got_offsets |-> d.got_offsets]
    BY <1>1, <1>2, <1>4 DEF build_got
  <1>6. DynRec(e) /\ e.syms = d.syms /\ e.got # <<>>
    BY <1>1, <1>3, <1>5 DEF DynRec
  <1> QED
    BY <1>4, <1>6

\* _GLOBAL_OFFSET_TABLE_ is not in .bss.
LEMMA GotSymbolAdds ==
  ASSUME NEW tab \in Seq(SymRec)
  PROVE  /\ WithGotSymbol(tab) \in Seq(SymRec)
         /\ DOMAIN tab \subseteq DOMAIN WithGotSymbol(tab)
         /\ Variables(WithGotSymbol(tab)) = Variables(tab)
PROOF
  <1>1. CASE find_elf_sym_in(tab, "_GLOBAL_OFFSET_TABLE_") # 0
    BY <1>1 DEF WithGotSymbol
  <1>2. CASE find_elf_sym_in(tab, "_GLOBAL_OFFSET_TABLE_") = 0
    <2> DEFINE s == [Notype("_GLOBAL_OFFSET_TABLE_", ".got", 0) EXCEPT !.type = "object"]
    <2>1. WithGotSymbol(tab) = Append(tab, s)
      BY <1>2 DEF WithGotSymbol
    <2>2. s = [name |-> "_GLOBAL_OFFSET_TABLE_", bind |-> "global", type |-> "object", sec |-> ".got",
               value |-> 0, size |-> 0]
      BY DEF Notype
    <2>3. s \in SymRec
      <3>1. /\ "_GLOBAL_OFFSET_TABLE_" \in Strings /\ "global" \in Strings /\ "object" \in Strings
            /\ ".got" \in Strings
        BY DEF Strings, SectionNames, OwnSections, NamedSections
      <3> QED
        BY <2>2, <3>1 DEF SymRec
    <2>4. ~IsVariable(s)
      BY <2>2 DEF IsVariable
    <2> HIDE DEF s
    <2>5. PICK new : new = Append(tab, s)
      OBVIOUS
    <2>6. /\ new \in Seq(SymRec)
          /\ DOMAIN tab \subseteq DOMAIN new
          /\ \A i \in DOMAIN tab : new[i] = tab[i]
          /\ \A i \in DOMAIN new : i \in DOMAIN tab \/ new[i] = s
      BY <2>3, <2>5
    <2>7. \A i \in DOMAIN new : IsVariable(new[i]) <=> i \in DOMAIN tab /\ IsVariable(tab[i])
      BY <2>4, <2>6
    <2>8. Variables(new) = Variables(tab)
      BY <2>6, <2>7, SameVariables
    <2> QED
      BY <2>1, <2>5, <2>6, <2>8
  <1> QED
    BY <1>1, <1>2

\* The names of what new_dynamic_sections makes.
DynamicNames == {".interp", ".dynsym", ".dynstr", ".hash", ".dynamic", ".plt", ".got"}

\* .interp, if there is a program to interpret, and the six after it.
LEMMA AddingDynamic ==
  ASSUME NEW list, SectionsOK(list), \A i \in DOMAIN list : list[i].name \notin OwnSections,
         NEW own,
         own = list \o (IF Exe THEN <<SecOf(".interp", "progbits", {"alloc"}, 1, 5)>> ELSE <<>>)
                    \o <<SecOf(".dynsym", "dynsym", {"alloc"}, 1, 4),
                         SecOf(".dynstr", "strtab", {"alloc"}, 1, 1),
                         SecOf(".hash", "hash", {"alloc"}, 1, 4),
                         SecOf(".dynamic", "dynamic", {"alloc", "write"}, 1, 0),
                         SecOf(".plt", "progbits", {"alloc", "exec"}, 8, 0),
                         GotSection>>
  PROVE  Adds(list, own, DynamicNames)
PROOF
  <1>1. PICK s0 : s0 = SecOf(".interp", "progbits", {"alloc"}, 1, 5)
    OBVIOUS
  <1>2. PICK s1 : s1 = SecOf(".dynsym", "dynsym", {"alloc"}, 1, 4)
    OBVIOUS
  <1>3. PICK s2 : s2 = SecOf(".dynstr", "strtab", {"alloc"}, 1, 1)
    OBVIOUS
  <1>4. PICK s3 : s3 = SecOf(".hash", "hash", {"alloc"}, 1, 4)
    OBVIOUS
  <1>5. PICK s4 : s4 = SecOf(".dynamic", "dynamic", {"alloc", "write"}, 1, 0)
    OBVIOUS
  <1>6. PICK s5 : s5 = SecOf(".plt", "progbits", {"alloc", "exec"}, 8, 0)
    OBVIOUS
  <1>7. PICK s6 : s6 = SecOf(".got", "progbits", {"alloc", "write"}, 8, 3)
    OBVIOUS
  <1>8. DynamicNames \subseteq SectionNames
    BY DEF DynamicNames, SectionNames, OwnSections, NamedSections
  <1>9. /\ {"alloc"} \in SUBSET Flags /\ {"alloc", "write"} \in SUBSET Flags /\ {"alloc", "exec"} \in SUBSET Flags
        /\ "progbits" \in Strings /\ "dynsym" \in Strings /\ "strtab" \in Strings
        /\ "hash" \in Strings /\ "dynamic" \in Strings
    BY DEF Flags, Strings
  <1>10. own = list \o (IF Exe THEN <<s0>> ELSE <<>>) \o <<s1, s2, s3, s4, s5, s6>>
    BY <1>1, <1>2, <1>3, <1>4, <1>5, <1>6, <1>7, Zenon DEF GotSection
  <1>11. RelName(".bss") \notin DynamicNames
    BY NamesAssumption DEF DynamicNames, NamedSections
  <1>12. \A n \in DynamicNames, t \in {"progbits", "dynsym", "strtab", "hash", "dynamic"},
            F \in SUBSET Flags, a \in Nat \ {0}, size \in Nat :
           /\ SecOf(n, t, F, a, size) \in SecRec
           /\ SectionOK(SecOf(n, t, F, a, size))
           /\ SecOf(n, t, F, a, size).name = n
    <2> TAKE n \in DynamicNames, t \in {"progbits", "dynsym", "strtab", "hash", "dynamic"},
             F \in SUBSET Flags, a \in Nat \ {0}, size \in Nat
    <2>1. n \in SectionNames /\ n # ".bss" /\ n # RelName(".bss")
      BY <1>8, <1>11 DEF DynamicNames
    <2>2. t \in Strings /\ t # "nobits" /\ t # "rel"
      BY <1>9
    <2> QED
      BY <2>1, <2>2, MadeIsOK
  <1>13. /\ s0 \in SecRec /\ SectionOK(s0) /\ s0.name = ".interp"
         /\ s1 \in SecRec /\ SectionOK(s1) /\ s1.name = ".dynsym"
         /\ s2 \in SecRec /\ SectionOK(s2) /\ s2.name = ".dynstr"
         /\ s3 \in SecRec /\ SectionOK(s3) /\ s3.name = ".hash"
         /\ s4 \in SecRec /\ SectionOK(s4) /\ s4.name = ".dynamic"
         /\ s5 \in SecRec /\ SectionOK(s5) /\ s5.name = ".plt"
         /\ s6 \in SecRec /\ SectionOK(s6) /\ s6.name = ".got"
    <2> USE DEF DynamicNames
    <2>1. s0 \in SecRec /\ SectionOK(s0) /\ s0.name = ".interp"
      BY <1>1, <1>9, <1>12
    <2>2. s1 \in SecRec /\ SectionOK(s1) /\ s1.name = ".dynsym"
      BY <1>2, <1>9, <1>12
    <2>3. s2 \in SecRec /\ SectionOK(s2) /\ s2.name = ".dynstr"
      BY <1>3, <1>9, <1>12
    <2>4. s3 \in SecRec /\ SectionOK(s3) /\ s3.name = ".hash"
      BY <1>4, <1>9, <1>12
    <2>5. s4 \in SecRec /\ SectionOK(s4) /\ s4.name = ".dynamic"
      <3>1. PICK F \in SUBSET Flags : F = {"alloc", "write"}
        BY <1>9
      <3>2. s4 = SecOf(".dynamic", "dynamic", F, 1, 0)
        BY <1>5, <3>1
      <3> QED
        BY <1>12, <3>2
    <2>6. s5 \in SecRec /\ SectionOK(s5) /\ s5.name = ".plt"
      <3>1. PICK F \in SUBSET Flags : F = {"alloc", "exec"}
        BY <1>9
      <3>2. s5 = SecOf(".plt", "progbits", F, 8, 0)
        BY <1>6, <3>1
      <3> QED
        BY <1>12, <3>2
    <2>7. s6 \in SecRec /\ SectionOK(s6) /\ s6.name = ".got"
      BY <1>7, <1>9, <1>12
    <2> QED
      BY <2>1, <2>2, <2>3, <2>4, <2>5, <2>6, <2>7
  <1>14. PICK mid : mid = list \o (IF Exe THEN <<s0>> ELSE <<>>)
    OBVIOUS
  <1>15. Adds(list, mid, {".interp"})
    <2>1. PICK more : more = IF Exe THEN <<s0>> ELSE <<>>
      OBVIOUS
    <2>2. more \in Seq(SecRec) /\ \A k \in DOMAIN more : k = 1 /\ more[k] = s0
      BY <1>13, <2>1
    <2>3. \A k \in DOMAIN more : SectionOK(more[k]) /\ \A i \in DOMAIN list : list[i].name # more[k].name
      BY <1>13, <2>2 DEF OwnSections, NamedSections
    <2>4. NamesDiffer(more)
      BY <2>2 DEF NamesDiffer
    <2>5. Adds(list, list \o more, {more[k].name : k \in DOMAIN more})
      BY <2>2, <2>3, <2>4, AddingMany
    <2>6. {more[k].name : k \in DOMAIN more} \subseteq {".interp"}
      BY <1>13, <2>2
    <2>7. mid = list \o more
      BY <1>14, <2>1
    <2> QED
      BY <2>5, <2>6, <2>7 DEF Adds
  <1>16. PICK six : six = <<s1, s2, s3, s4, s5, s6>>
    OBVIOUS
  <1>17. /\ six \in Seq(SecRec) /\ DOMAIN six = 1 .. 6
         /\ six[1] = s1 /\ six[2] = s2 /\ six[3] = s3 /\ six[4] = s4 /\ six[5] = s5 /\ six[6] = s6
    BY <1>13, <1>16
  <1>18. \A k \in 1 .. 6 : k = 1 \/ k = 2 \/ k = 3 \/ k = 4 \/ k = 5 \/ k = 6
    OBVIOUS
  <1>19. \A k \in DOMAIN six : SectionOK(six[k]) /\ six[k].name \in DynamicNames \ {".interp"}
    BY <1>13, <1>17, <1>18 DEF DynamicNames
  <1>20. \A i \in DOMAIN mid : mid[i].name \notin DynamicNames \ {".interp"}
    <2>1. \A i \in DOMAIN list : list[i].name \notin DynamicNames
      BY DEF OwnSections, NamedSections, DynamicNames
    <2> QED
      BY <1>15, <2>1 DEF Adds
  <1>21. NamesDiffer(six)
    <2>1. \A j, k \in 1 .. 6 : six[j].name = six[k].name => j = k
      BY <1>13, <1>17, <1>18
    <2> QED
      BY <1>17, <2>1 DEF NamesDiffer
  <1>22. Adds(mid, mid \o six, {six[k].name : k \in DOMAIN six})
    <2>1. SectionsOK(mid)
      BY <1>15 DEF Adds
    <2>2. \A k \in DOMAIN six : SectionOK(six[k]) /\ \A i \in DOMAIN mid : mid[i].name # six[k].name
      BY <1>19, <1>20
    <2> QED
      BY <1>17, <1>21, <2>1, <2>2, AddingMany
  <1>23. own = mid \o six
    BY <1>10, <1>14, <1>16
  <1>24. Adds(list, own, {".interp"} \cup {six[k].name : k \in DOMAIN six})
    BY <1>15, <1>22, <1>23, AddingAgain
  <1>25. {".interp"} \cup {six[k].name : k \in DOMAIN six} \subseteq DynamicNames
    BY <1>19 DEF DynamicNames
  <1> QED
    BY <1>24, <1>25 DEF Adds

\* The dynamic sections are made.
LEMMA DynamicStep ==
  ASSUME EarlyInv, new_dynamic_sections
  PROVE  EarlyInv'
PROOF
  <1>1. /\ phase = "dynamic sections"
        /\ dyn' = build_got(dyn)
        /\ symtab_section' = WithGotSymbol(symtab_section)
        /\ phase' = IF Exe THEN "scan" ELSE "export all"
        /\ next' = 1
        /\ UNCHANGED <<mode, sites, rels>>
    BY DEF new_dynamic_sections
  <1>2. /\ SectionsOK(secs) /\ SymbolsOK /\ DynRec(dyn) /\ CopiesOK /\ PlacesOK
        /\ symtab_section \in Seq(SymRec)
        /\ \A i \in DOMAIN secs : secs[i].name \notin OwnSections
        /\ ~HasCopies(rels[".bss"])
        /\ HasDynamic
    BY <1>1 DEF EarlyInv, SymbolsOK, NotYet, First
  <1>3. Adds(secs, secs', DynamicNames)
    <2>1. PICK own : own = secs'
      OBVIOUS
    <2>2. own = secs \o (IF Exe THEN <<SecOf(".interp", "progbits", {"alloc"}, 1, 5)>> ELSE <<>>)
                    \o <<SecOf(".dynsym", "dynsym", {"alloc"}, 1, 4),
                         SecOf(".dynstr", "strtab", {"alloc"}, 1, 1),
                         SecOf(".hash", "hash", {"alloc"}, 1, 4),
                         SecOf(".dynamic", "dynamic", {"alloc", "write"}, 1, 0),
                         SecOf(".plt", "progbits", {"alloc", "exec"}, 8, 0),
                         GotSection>>
      BY <2>1, Zenon DEF new_dynamic_sections
    <2> QED
      BY <1>2, <2>1, <2>2, AddingDynamic
  <1>4. DynRec(dyn') /\ dyn'.syms = dyn.syms /\ dyn'.got # <<>>
    BY <1>1, <1>2, BuildGotIs
  <1>5. /\ symtab_section' \in Seq(SymRec)
        /\ DOMAIN symtab_section \subseteq DOMAIN symtab_section'
        /\ Variables(symtab_section') = Variables(symtab_section)
    BY <1>1, <1>2, GotSymbolAdds
  <1>6. ".bss" \notin DynamicNames
    BY DEF DynamicNames
  <1>7. SectionsOK(secs') /\ PlacesOK' /\ CopiesOK'
    BY <1>1, <1>2, <1>3, <1>4, <1>5, <1>6, PlacesStay
  <1>8. SymbolsOK'
    BY <1>1, <1>2, <1>5 DEF SymbolsOK
  <1>9. NotYet'
    <2>1. \A i \in DOMAIN secs' : secs'[i].name # ".shstrtab"
      BY <1>2, <1>3 DEF Adds, DynamicNames, OwnSections, NamedSections
    <2>2. HasDynamic' /\ ~HasCopies(rels'[".bss"])
      BY <1>1, <1>2 DEF HasDynamic, InMemory
    <2>3. phase' \in {"scan", "export all"}
      BY <1>1
    <2> QED
      BY <1>4, <2>1, <2>2, <2>3 DEF NotYet, First, Second
  <1>10. rels' = rels /\ next' = 1
    BY <1>1
  <1> QED
    BY <1>4, <1>7, <1>8, <1>9, <1>10 DEF EarlyInv

\* put_elf_sym adds to .dynsym and to nothing else.
LEMMA PutSymIs ==
  ASSUME NEW d, DynRec(d), NEW s \in SymRec
  PROVE  /\ DynRec(put_elf_sym(d, s))
         /\ put_elf_sym(d, s).got = d.got
         /\ Len(d.syms) \in Nat
         /\ DOMAIN put_elf_sym(d, s).syms = DOMAIN d.syms \cup {Len(d.syms) + 1}
         /\ \A i \in DOMAIN d.syms : put_elf_sym(d, s).syms[i] = d.syms[i]
         /\ put_elf_sym(d, s).syms[Len(d.syms) + 1] = s
PROOF
  <1>1. /\ d = [syms |-> d.syms, got |-> d.got, plt |-> d.plt,
                symtab_to_dynsym |-> d.symtab_to_dynsym, got_offsets |-> d.got_offsets]
        /\ d.syms \in Seq(SymRec) /\ d.got \in Seq(Nat) /\ d.plt \in Seq(Nat)
    BY DEF DynRec
  <1>2. PICK old \in Seq(SymRec) : old = d.syms
    BY <1>1
  <1>3. PICK new : new = Append(old, s)
    OBVIOUS
  <1>4. /\ new \in Seq(SymRec) /\ Len(old) \in Nat
        /\ DOMAIN new = DOMAIN old \cup {Len(old) + 1}
        /\ \A i \in DOMAIN old : new[i] = old[i]
        /\ new[Len(old) + 1] = s
    BY <1>3
  <1>5. PICK e : e = put_elf_sym(d, s)
    OBVIOUS
  <1>6. e = [syms |-> new, got |-> d.got, plt |-> d.plt,
             symtab_to_dynsym |-> d.symtab_to_dynsym, got_offsets |-> d.got_offsets]
    BY <1>1, <1>2, <1>3, <1>5 DEF put_elf_sym
  <1>7. DynRec(e) /\ e.syms = new /\ e.got = d.got
    BY <1>1, <1>4, <1>6 DEF DynRec
  <1> QED
    BY <1>2, <1>4, <1>5, <1>7

\* The symbol's place in the GOT is added where .bss is not concerned.
LEMMA GotEntryStep ==
  ASSUME DynRec(dyn), rels \in [Relocated_ -> Seq(RelRec)],
         NEW d, DynRec(d), d.syms = dyn.syms,
         NEW list, Adds(secs, list, {".got"}),
         NEW rt \in Strings, NEW info, info.type \in Strings, info.bind \in Strings,
         NEW i \in DOMAIN symtab_section, symtab_section \in Seq(SymRec),
         PutGotEntry(d, list, rt, info, i)
  PROVE  /\ Adds(secs, secs', {".got", RelName(".got")})
         /\ \A k \in DOMAIN secs' : secs'[k].name = ".got" => \E m \in DOMAIN list : list[m].name = ".got"
         /\ DynRec(dyn')
         /\ rels' \in [Relocated_ -> Seq(RelRec)]
         /\ rels'[".bss"] = rels[".bss"]
         /\ DOMAIN dyn.syms \subseteq DOMAIN dyn'.syms
         /\ \A k \in DOMAIN dyn.syms : dyn'.syms[k] = dyn.syms[k]
         /\ dyn'.got = <<>> => d.got = <<>>
PROOF
  <1>1. PICK e : e = put_got_entry(d, rt, info, i)
    OBVIOUS
  <1>2. /\ DynRec(e)
        /\ Extends(d.syms, e.syms)
        /\ e.got = <<>> => d.got = <<>>
        /\ GotRel(d, e, rt) \in Seq(RelRec)
    BY <1>1, GotEntryIs
  <1>3. /\ dyn' = e
        /\ rels' = [rels EXCEPT ![".got"] = @ \o GotRel(d, e, rt)]
        /\ secs' = WithRelSection(list, ".got")
    BY <1>1 DEF PutGotEntry
  <1>4. SectionsOK(list)
    BY DEF Adds
  <1>5. Adds(list, secs', {RelName(".got")})
    BY <1>3, <1>4, AddingRel
  <1>6. Adds(secs, secs', {".got"} \cup {RelName(".got")})
    BY <1>5, AddingAgain
  <1>7. {".got"} \cup {RelName(".got")} = {".got", RelName(".got")}
    OBVIOUS
  <1>8. PICK more \in Seq(RelRec) : more = GotRel(d, e, rt)
    BY <1>2
  <1>9. rels[".got"] \in Seq(RelRec) /\ ".got" \in Relocated_ /\ ".bss" \in Relocated_
    BY DEF Relocated_
  <1>10. PICK r \in Seq(RelRec) : r = rels[".got"] \o more
    <2>1. PICK g \in Seq(RelRec) : g = rels[".got"]
      BY <1>9
    <2>2. g \o more \in Seq(RelRec)
      OBVIOUS
    <2> QED
      BY <2>1, <2>2
  <1>11. rels' = [rels EXCEPT ![".got"] = r]
    BY <1>3, <1>8, <1>10
  <1>12. rels' \in [Relocated_ -> Seq(RelRec)] /\ rels'[".bss"] = rels[".bss"]
    BY <1>9, <1>11
  <1>13. RelName(".got") # ".got"
    BY NamesAssumption DEF NamedSections
  <1>14. \A k \in DOMAIN secs' : secs'[k].name = ".got" => \E m \in DOMAIN list : list[m].name = ".got"
    BY <1>5, <1>13 DEF Adds
  <1> QED
    BY <1>2, <1>3, <1>6, <1>7, <1>12, <1>14 DEF Extends

\* The same for the places in .bss.
LEMMA GotEntryKeeps ==
  ASSUME EarlyInv,
         NEW d, DynRec(d), d.syms = dyn.syms,
         NEW list, Adds(secs, list, {".got"}),
         NEW rt \in Strings, NEW info, info.type \in Strings, info.bind \in Strings,
         NEW i \in DOMAIN symtab_section,
         PutGotEntry(d, list, rt, info, i),
         Variables(symtab_section') = Variables(symtab_section)
  PROVE  /\ SectionsOK(secs') /\ PlacesOK' /\ CopiesOK'
         /\ Adds(secs, secs', {".got", RelName(".got")})
         /\ \A k \in DOMAIN secs' : secs'[k].name = ".got" => \E m \in DOMAIN list : list[m].name = ".got"
         /\ DynRec(dyn')
         /\ rels' \in [Relocated_ -> Seq(RelRec)]
         /\ dyn'.got = <<>> => d.got = <<>>
PROOF
  <1>1. /\ Adds(secs, secs', {".got", RelName(".got")})
        /\ \A k \in DOMAIN secs' : secs'[k].name = ".got" => \E m \in DOMAIN list : list[m].name = ".got"
        /\ DynRec(dyn')
        /\ rels' \in [Relocated_ -> Seq(RelRec)]
        /\ rels'[".bss"] = rels[".bss"]
        /\ DOMAIN dyn.syms \subseteq DOMAIN dyn'.syms
        /\ \A k \in DOMAIN dyn.syms : dyn'.syms[k] = dyn.syms[k]
        /\ dyn'.got = <<>> => d.got = <<>>
    BY GotEntryStep DEF EarlyInv, SymbolsOK
  <1>2. ".bss" \notin {".got", RelName(".got")}
    BY NamesAssumption
  <1>3. \A k \in DOMAIN dyn.syms : dyn'.syms[k].size = dyn.syms[k].size
    BY <1>1
  <1>4. SectionsOK(secs) /\ PlacesOK /\ CopiesOK
    BY DEF EarlyInv
  <1>5. SectionsOK(secs') /\ PlacesOK' /\ CopiesOK'
    BY <1>1, <1>2, <1>3, <1>4, PlacesStay
  <1> QED
    BY <1>1, <1>5

\* A copy, named last in the relocations of .bss and in .dynsym.
LEMMA OneMoreCopy ==
  ASSUME NEW list \in Seq(RelRec), NEW old, NEW new,
         \A k \in DOMAIN list : list[k].type = "COPY" => list[k].sym \in DOMAIN old,
         DOMAIN old \subseteq DOMAIN new, \A i \in DOMAIN old : new[i] = old[i],
         NEW r \in RelRec, r.type = "COPY"
  PROVE  Copied(Append(list, r), new, 0) = Copied(list, old, 0) \cup {<<r.offset, new[r.sym].size>>}
PROOF
  <1>1. PICK both : both = Append(list, r)
    OBVIOUS
  <1>2. /\ DOMAIN both = DOMAIN list \cup {Len(list) + 1}
        /\ \A k \in DOMAIN list : both[k] = list[k]
        /\ both[Len(list) + 1] = r
    BY <1>1
  <1>3. \A d : Copied(list, new, d) = Copied(list, old, d)
    <2>1. \A i \in DOMAIN old : new[i].size = old[i].size
      OBVIOUS
    <2> QED
      BY <2>1, CopiesStay
  <1>4. \A k \in DOMAIN list : list[k].offset \in Nat
    <2>1. \A k \in DOMAIN list : list[k] \in RelRec
      OBVIOUS
    <2>2. \A x \in RelRec : x.offset \in Nat
      BY DEF RelRec
    <2> QED
      BY <2>1, <2>2
  <1>5. r.offset \in Nat
    BY DEF RelRec
  <1>6. Copied(both, new, 0) \subseteq Copied(list, new, 0) \cup {<<r.offset, new[r.sym].size>>}
    <2> SUFFICES ASSUME NEW p \in Copied(both, new, 0)
                 PROVE  p \in Copied(list, new, 0) \cup {<<r.offset, new[r.sym].size>>}
      OBVIOUS
    <2>1. PICK k \in DOMAIN both : both[k].type = "COPY" /\ p = <<both[k].offset + 0, new[both[k].sym].size>>
      BY DEF Copied
    <2>2. CASE k \in DOMAIN list
      BY <1>2, <2>1, <2>2 DEF Copied
    <2>3. CASE k = Len(list) + 1
      BY <1>2, <1>5, <2>1, <2>3
    <2> QED
      BY <1>2, <2>2, <2>3
  <1>7. Copied(list, new, 0) \cup {<<r.offset, new[r.sym].size>>} \subseteq Copied(both, new, 0)
    <2>1. \A k \in DOMAIN list : k \in DOMAIN both /\ both[k] = list[k]
      BY <1>2
    <2>2. Copied(list, new, 0) \subseteq Copied(both, new, 0)
      BY <2>1 DEF Copied
    <2>3. Len(list) + 1 \in DOMAIN both /\ both[Len(list) + 1].type = "COPY"
      BY <1>2
    <2>4. <<r.offset + 0, new[r.sym].size>> \in Copied(both, new, 0)
      BY <1>2, <2>3 DEF Copied
    <2>5. r.offset + 0 = r.offset
      BY <1>5
    <2> QED
      BY <2>2, <2>4, <2>5
  <1> QED
    BY <1>1, <1>3, <1>6, <1>7

\* A copy gets a place in .bss behind all others.
LEMMA CopyKeeps ==
  ASSUME EarlyInv, HasDynamic, NEW s \in SymRec, NEW esym \in SymRec, PutCopy(s, esym),
         symtab_section' = symtab_section
  PROVE  /\ SectionsOK(secs') /\ PlacesOK' /\ CopiesOK'
         /\ \A k \in DOMAIN secs' : \/ k \in DOMAIN secs /\ secs'[k].name = secs[k].name
                                    \/ secs'[k].name = RelName(".bss")
         /\ DynRec(dyn')
         /\ rels' \in [Relocated_ -> Seq(RelRec)]
         /\ dyn'.got = dyn.got
PROOF
  <1>1. PICK b \in DOMAIN secs :
          /\ secs[b].name = ".bss"
          /\ Section(".bss") = secs[b]
          /\ Section(".bss").data_offset \in Nat
          /\ Fit(Variables(symtab_section) \cup Copied(rels[".bss"], dyn.syms, 0),
                 0, Section(".bss").data_offset)
    BY BssFits
  <1>2. PICK hi \in Nat : hi = Section(".bss").data_offset
    BY <1>1
  <1>3. PICK at \in Nat : at = AlignedTo(hi, 4) /\ hi <= at
    BY RoundsUp
  <1>4. PICK n \in Nat : n = esym.size
    BY DEF SymRec
  <1>5. PICK old \in Seq(SymRec) : old = dyn.syms
    BY DEF EarlyInv, DynRec
  <1>6. PICK list \in Seq(RelRec) : list = rels[".bss"]
    BY DEF EarlyInv, CopiesOK
  <1>7. PICK sym \in SymRec :
          /\ sym = [s EXCEPT !.value = at, !.size = esym.size, !.type = "object",
                             !.bind = esym.bind, !.sec = ".bss"]
          /\ sym.size = n
    <2>1. PICK x : x = [s EXCEPT !.value = at, !.size = esym.size, !.type = "object",
                                 !.bind = esym.bind, !.sec = ".bss"]
      OBVIOUS
    <2>2. PICK bind \in Strings : bind = esym.bind
      BY DEF SymRec
    <2>3. PICK object \in Strings : object = "object"
      BY DEF Strings
    <2>4. PICK bss \in Strings : bss = ".bss"
      BY DEF Strings, SectionNames
    <2>5. x = [s EXCEPT !.value = at, !.size = n, !.type = object, !.bind = bind, !.sec = bss]
      BY <1>4, <2>1, <2>2, <2>3, <2>4
    <2>6. x \in SymRec /\ x.size = n
      BY ONLY s \in SymRec, <2>5, at \in Nat, n \in Nat, bind \in Strings, object \in Strings, bss \in Strings
         DEF SymRec
    <2> QED
      BY <2>1, <2>6
  <1>8. PICK r : r = [offset |-> at, type |-> "COPY", sym |-> Len(dyn.syms) + 1]
    OBVIOUS
  <1>9. /\ dyn' = put_elf_sym(dyn, sym)
        /\ rels' = [rels EXCEPT ![".bss"] = Append(@, r)]
        /\ secs' = WithRelSection(Grown(secs, ".bss", at + n), ".bss")
    <2>1. at = AlignedTo(Section(".bss").data_offset, 4)
      BY <1>2, <1>3
    <2>2. /\ dyn' = put_elf_sym(dyn, [s EXCEPT !.value = at, !.size = esym.size, !.type = "object",
                                               !.bind = esym.bind, !.sec = ".bss"])
          /\ rels' = [rels EXCEPT ![".bss"] = Append(@, [offset |-> at, type |-> "COPY",
                                                          sym |-> Len(dyn.syms) + 1])]
          /\ secs' = WithRelSection(Grown(secs, ".bss", at + esym.size), ".bss")
      BY <2>1, Zenon DEF PutCopy
    <2> QED
      BY <1>4, <1>7, <1>8, <2>2, Zenon
  <1>10. PICK new : new = dyn'.syms
    OBVIOUS
  <1>11. /\ DynRec(dyn') /\ dyn'.got = dyn.got
         /\ Len(old) \in Nat
         /\ DOMAIN new = DOMAIN old \cup {Len(old) + 1}
         /\ \A i \in DOMAIN old : new[i] = old[i]
         /\ new[Len(old) + 1] = sym
    <2>1. DynRec(dyn)
      BY DEF EarlyInv
    <2> QED
      BY <1>5, <1>9, <1>10, <2>1, PutSymIs
  <1>12. r \in RelRec /\ r.type = "COPY" /\ r.offset = at /\ r.sym = Len(old) + 1
    <2>1. "COPY" \in Strings
      BY DEF Strings
    <2> QED
      BY <1>5, <1>8, <1>11, <2>1 DEF RelRec
  <1>13. \A k \in DOMAIN list : list[k].type = "COPY" => list[k].sym \in DOMAIN old
    BY <1>5, <1>6 DEF EarlyInv, CopiesOK
  <1>14. PICK both : both = Append(list, r)
    OBVIOUS
  <1>15. Copied(both, new, 0) = Copied(list, old, 0) \cup {<<at, n>>}
    <2>1. Copied(Append(list, r), new, 0) = Copied(list, old, 0) \cup {<<r.offset, new[r.sym].size>>}
      BY <1>11, <1>12, <1>13, OneMoreCopy
    <2> QED
      BY <1>7, <1>11, <1>12, <1>14, <2>1
  <1>16. /\ both \in Seq(RelRec)
         /\ \A k \in DOMAIN both : (k \in DOMAIN list /\ both[k] = list[k]) \/ both[k] = r
    BY <1>12, <1>14
  <1>17. /\ rels \in [Relocated_ -> Seq(RelRec)] /\ ".bss" \in Relocated_
         /\ rels' = [rels EXCEPT ![".bss"] = both]
    BY <1>6, <1>9, <1>14 DEF EarlyInv, Relocated_
  <1>18. rels' \in [Relocated_ -> Seq(RelRec)] /\ rels'[".bss"] = both
    BY <1>16, <1>17
  <1>19. PICK grown : grown = Grown(secs, ".bss", at + n)
    OBVIOUS
  <1>20. /\ SectionsOK(grown)
         /\ DOMAIN grown = DOMAIN secs
         /\ \A i \in DOMAIN secs : /\ grown[i].name = secs[i].name
                                   /\ secs[i].name = ".bss" => grown[i].data_offset = at + n
    <2>1. SectionsOK(secs) /\ at + n \in Nat
      BY DEF EarlyInv
    <2> QED
      BY <1>19, <2>1, Grows
  <1>21. /\ Adds(grown, secs', {RelName(".bss")})
         /\ \E i \in DOMAIN secs' : secs'[i].name = RelName(".bss")
    BY <1>9, <1>19, <1>20, AddingRel
  <1>22. RelName(".bss") # ".bss"
    BY NamesAssumption
  <1>23. \A i \in DOMAIN secs' : secs'[i].name = ".bss" => secs'[i].data_offset = at + n
    BY <1>20, <1>21, <1>22 DEF Adds
  <1>24. PlacesOK'
    <2>1. PICK S : S = Variables(symtab_section) \cup Copied(list, old, 0)
      OBVIOUS
    <2>2. Fit(S, 0, hi)
      BY <1>1, <1>2, <1>5, <1>6, <2>1
    <2>3. Fit(S \cup {<<at, n>>}, 0, at + n)
      BY <1>3, <2>2, FitsBehind
    <2>4. S \cup {<<at, n>>} = Variables(symtab_section') \cup Copied(rels'[".bss"], dyn'.syms, 0)
      BY <1>10, <1>15, <1>18, <2>1
    <2> QED
      BY <1>23, <2>3, <2>4 DEF PlacesOK
  <1>25. CopiesOK'
    <2>1. \A k \in DOMAIN both : both[k].type = "COPY" => both[k].sym \in DOMAIN new
      BY <1>11, <1>12, <1>13, <1>16
    <2> QED
      BY <1>10, <1>16, <1>18, <1>21, <2>1 DEF CopiesOK
  <1> QED
    BY <1>11, <1>18, <1>20, <1>21, <1>24, <1>25 DEF Adds

\* .dynsym may be added to where .bss is not concerned.
LEMMA DynsymKeeps ==
  ASSUME EarlyInv, DynRec(dyn'), UNCHANGED <<secs, symtab_section, rels>>,
         DOMAIN dyn.syms \subseteq DOMAIN dyn'.syms,
         \A k \in DOMAIN dyn.syms : dyn'.syms[k] = dyn.syms[k]
  PROVE  /\ SectionsOK(secs') /\ PlacesOK' /\ CopiesOK'
         /\ rels' \in [Relocated_ -> Seq(RelRec)]
PROOF
  <1>1. SectionsOK(secs) /\ PlacesOK /\ CopiesOK /\ rels \in [Relocated_ -> Seq(RelRec)]
    BY DEF EarlyInv
  <1>2. Adds(secs, secs', {})
    BY <1>1, AddingNone
  <1>3. \A k \in DOMAIN dyn.syms : dyn'.syms[k].size = dyn.syms[k].size
    OBVIOUS
  <1>4. rels'[".bss"] = rels[".bss"] /\ Variables(symtab_section') = Variables(symtab_section) /\ ".bss" \notin {}
    OBVIOUS
  <1> QED
    BY <1>1, <1>2, <1>3, <1>4, PlacesStay

\* What is not there yet is not there after sections for relocations, or the
\* GOT with its contents, are added.
LEMMA NotYetKeeps ==
  ASSUME NotYet, phase \in Second, phase' \in Second \ {"export all"}, mode' = mode,
         phase' = "scan" => phase = "scan",
         dyn'.got = <<>> => dyn.got = <<>>,
         \A k \in DOMAIN secs' :
           \/ \E i \in DOMAIN secs : secs[i].name = secs'[k].name
           \/ secs'[k].name \in {RelName(".got"), RelName(".bss")}
           \/ secs'[k].name = ".got" /\ dyn'.got # <<>>
  PROVE  NotYet'
PROOF
  <1>1. \A i \in DOMAIN secs : secs[i].name # ".shstrtab" /\ (dyn.got = <<>> => secs[i].name # ".got")
    BY DEF NotYet
  <1>2. \A n \in {RelName(".got"), RelName(".bss")} : n # ".shstrtab" /\ n # ".got"
    BY NamesAssumption DEF NamedSections
  <1>3. \A k \in DOMAIN secs' : secs'[k].name # ".shstrtab" /\ (dyn'.got = <<>> => secs'[k].name # ".got")
    BY <1>1, <1>2
  <1>4. phase' = "scan" => HasDynamic'
    BY DEF NotYet, HasDynamic, InMemory
  <1> QED
    BY <1>3, <1>4 DEF NotYet, First, Second

\* One symbol of the executable is looked at.
LEMMA ScanStep ==
  ASSUME WellFormed, EarlyInv, ScanSymbol
  PROVE  phase' = "refused" \/ EarlyInv'
PROOF
  <1> DEFINE s == symtab_section[next]
             esym == Libs[InLibs(s)]
  <1>1. /\ phase = "scan"
        /\ next <= Len(symtab_section)
        /\ next' = next + 1
        /\ UNCHANGED <<mode, sites, symtab_section>>
    BY DEF ScanSymbol
  <1>2. /\ symtab_section \in Seq(SymRec)
        /\ SymbolsOK /\ DynRec(dyn) /\ NotYet /\ SectionsOK(secs)
        /\ rels \in [Relocated_ -> Seq(RelRec)]
        /\ next \in Nat \ {0}
        /\ HasDynamic
    BY <1>1 DEF EarlyInv, SymbolsOK, NotYet
  <1>3. next \in DOMAIN symtab_section /\ s \in SymRec /\ next' \in Nat \ {0}
    BY <1>1, <1>2
  <1>4. Libs \in Seq(SymRec)
    BY DEF WellFormed
  <1>5. InLibs(s) # 0 => esym \in SymRec
    <2>1. InLibs(s) = 0 \/ InLibs(s) \in DOMAIN Libs
      BY <1>4, Finds DEF InLibs
    <2> QED
      BY <1>4, <2>1
  <1>6. SymbolsOK'
    BY <1>1, <1>2 DEF SymbolsOK
  <1>7. \/ InLibs(s) # 0 /\ PutGotEntry(dyn, secs, "JMP_SLOT", esym, next) /\ UNCHANGED phase
        \/ InLibs(s) # 0 /\ PutCopy(s, esym) /\ UNCHANGED phase
        \/ phase' = "refused"
        \/ dyn' = put_elf_sym(dyn, s) /\ UNCHANGED <<rels, secs, phase>>
        \/ UNCHANGED <<dyn, rels, secs, phase>>
    BY Zenon DEF ScanSymbol
  <1> HIDE DEF s, esym
  <1>8. phase \in Second /\ (phase' = phase => phase' \in Second \ {"export all"})
    BY <1>1 DEF Second
  <1>9. ASSUME phase' = phase, SectionsOK(secs'), PlacesOK', CopiesOK', DynRec(dyn'),
               rels' \in [Relocated_ -> Seq(RelRec)], NotYet'
        PROVE  EarlyInv'
    BY <1>3, <1>6, <1>9 DEF EarlyInv
  <1>10. CASE InLibs(s) # 0 /\ PutGotEntry(dyn, secs, "JMP_SLOT", esym, next) /\ UNCHANGED phase
    <2>1. esym.type \in Strings /\ esym.bind \in Strings
      BY <1>5, <1>10 DEF SymRec
    <2>2. "JMP_SLOT" \in Strings
      BY DEF Strings
    <2>3. Adds(secs, secs, {".got"})
      BY <1>2, AddingNone
    <2>4. Variables(symtab_section') = Variables(symtab_section)
      BY <1>1
    <2>5. /\ SectionsOK(secs') /\ PlacesOK' /\ CopiesOK'
          /\ Adds(secs, secs', {".got", RelName(".got")})
          /\ \A k \in DOMAIN secs' : secs'[k].name = ".got" => \E m \in DOMAIN secs : secs[m].name = ".got"
          /\ DynRec(dyn')
          /\ rels' \in [Relocated_ -> Seq(RelRec)]
          /\ dyn'.got = <<>> => dyn.got = <<>>
      BY <1>2, <1>3, <1>10, <2>1, <2>2, <2>3, <2>4, GotEntryKeeps
    <2>6. \A k \in DOMAIN secs' : \/ \E i \in DOMAIN secs : secs[i].name = secs'[k].name
                                  \/ secs'[k].name \in {RelName(".got"), RelName(".bss")}
      BY <2>5 DEF Adds
    <2>7. NotYet'
      BY <1>1, <1>2, <1>8, <1>10, <2>5, <2>6, NotYetKeeps
    <2> QED
      BY <1>9, <1>10, <2>5, <2>7
  <1>11. CASE InLibs(s) # 0 /\ PutCopy(s, esym) /\ UNCHANGED phase
    <2>1. /\ SectionsOK(secs') /\ PlacesOK' /\ CopiesOK'
          /\ \A k \in DOMAIN secs' : \/ k \in DOMAIN secs /\ secs'[k].name = secs[k].name
                                     \/ secs'[k].name = RelName(".bss")
          /\ DynRec(dyn')
          /\ rels' \in [Relocated_ -> Seq(RelRec)]
          /\ dyn'.got = dyn.got
      BY <1>1, <1>2, <1>3, <1>5, <1>11, CopyKeeps
    <2>2. \A k \in DOMAIN secs' : \/ \E i \in DOMAIN secs : secs[i].name = secs'[k].name
                                  \/ secs'[k].name \in {RelName(".got"), RelName(".bss")}
      BY <2>1
    <2>3. NotYet'
      BY <1>1, <1>2, <1>8, <1>11, <2>1, <2>2, NotYetKeeps
    <2> QED
      BY <1>9, <1>11, <2>1, <2>3
  <1>12. CASE dyn' = put_elf_sym(dyn, s) /\ UNCHANGED <<rels, secs, phase>>
    <2>1. /\ DynRec(dyn') /\ dyn'.got = dyn.got
          /\ DOMAIN dyn.syms \subseteq DOMAIN dyn'.syms
          /\ \A k \in DOMAIN dyn.syms : dyn'.syms[k] = dyn.syms[k]
      <3>1. PICK e : e = put_elf_sym(dyn, s)
        OBVIOUS
      <3>2. /\ DynRec(e) /\ e.got = dyn.got
            /\ DOMAIN e.syms = DOMAIN dyn.syms \cup {Len(dyn.syms) + 1}
            /\ \A k \in DOMAIN dyn.syms : e.syms[k] = dyn.syms[k]
        BY <1>2, <1>3, <3>1, PutSymIs
      <3> QED
        BY <1>12, <3>1, <3>2
    <2>2. /\ SectionsOK(secs') /\ PlacesOK' /\ CopiesOK'
          /\ rels' \in [Relocated_ -> Seq(RelRec)]
      BY <1>1, <1>12, <2>1, DynsymKeeps
    <2>3. \A k \in DOMAIN secs' : \E i \in DOMAIN secs : secs[i].name = secs'[k].name
      BY <1>12
    <2>4. NotYet'
      BY <1>1, <1>2, <1>8, <1>12, <2>1, <2>3, NotYetKeeps
    <2> QED
      BY <1>9, <1>12, <2>1, <2>2, <2>4
  <1>13. CASE UNCHANGED <<dyn, rels, secs, phase>>
    <2>1. /\ SectionsOK(secs') /\ PlacesOK' /\ CopiesOK'
          /\ rels' \in [Relocated_ -> Seq(RelRec)] /\ DynRec(dyn')
      BY <1>1, <1>2, <1>13, DynsymKeeps
    <2>2. \A k \in DOMAIN secs' : \E i \in DOMAIN secs : secs[i].name = secs'[k].name
      BY <1>13
    <2>3. NotYet'
      BY <1>1, <1>2, <1>8, <1>13, <2>2, NotYetKeeps
    <2> QED
      BY <1>9, <1>13, <2>1, <2>3
  <1> QED
    BY <1>7, <1>10, <1>11, <1>12, <1>13

\* All are looked at.
LEMMA ScannedStep ==
  ASSUME EarlyInv, Scanned
  PROVE  EarlyInv'
PROOF
  <1>1. /\ phase = "scan" /\ phase' = "exports"
        /\ UNCHANGED <<mode, sites, next, secs, symtab_section, dyn, rels>>
    BY DEF Scanned
  <1>2. /\ SectionsOK(secs) /\ SymbolsOK /\ DynRec(dyn) /\ NotYet /\ next \in Nat \ {0}
    BY DEF EarlyInv
  <1>3. SectionsOK(secs') /\ PlacesOK' /\ CopiesOK' /\ rels' \in [Relocated_ -> Seq(RelRec)] /\ DynRec(dyn')
    BY <1>1, <1>2, DynsymKeeps
  <1>4. \A k \in DOMAIN secs' : \E i \in DOMAIN secs : secs[i].name = secs'[k].name
    BY <1>1
  <1>5. phase \in Second /\ phase' \in Second \ {"export all"}
    BY <1>1 DEF Second
  <1>6. NotYet'
    BY <1>1, <1>2, <1>4, <1>5, NotYetKeeps
  <1>7. SymbolsOK'
    BY <1>1, <1>2 DEF SymbolsOK
  <1> QED
    BY <1>1, <1>2, <1>3, <1>6, <1>7 DEF EarlyInv

\* .dynsym is replaced by a longer one.
LEMMA SymsReplaced ==
  ASSUME NEW d, DynRec(d), NEW syms \in Seq(SymRec),
         NEW e, e = [d EXCEPT !.syms = syms]
  PROVE  DynRec(e) /\ e.syms = syms /\ e.got = d.got
PROOF
  <1>1. /\ d = [syms |-> d.syms, got |-> d.got, plt |-> d.plt,
                symtab_to_dynsym |-> d.symtab_to_dynsym, got_offsets |-> d.got_offsets]
        /\ d.syms \in Seq(SymRec) /\ d.got \in Seq(Nat) /\ d.plt \in Seq(Nat)
    BY DEF DynRec
  <1>2. e = [syms |-> syms, got |-> d.got, plt |-> d.plt,
             symtab_to_dynsym |-> d.symtab_to_dynsym, got_offsets |-> d.got_offsets]
    BY <1>1
  <1> QED
    BY <1>1, <1>2 DEF DynRec

\* What the DLLs use of the executable is exported.
LEMMA ExportStep ==
  ASSUME WellFormed, EarlyInv, ExportToLibs
  PROVE  EarlyInv' /\ Extends(dyn.syms, dyn'.syms)
PROOF
  <1> DEFINE T == {k \in DOMAIN Libs : /\ UsedByLibs(Libs[k])
                                       /\ find_elf_sym_in(symtab_section, Libs[k].name) # 0}
             used == Picked(Libs, T)
             more == [k \in DOMAIN used |-> symtab_section[find_elf_sym_in(symtab_section, used[k].name)]]
  <1>1. /\ phase = "exports" /\ phase' = "got" /\ next' = 1
        /\ dyn' = [dyn EXCEPT !.syms = @ \o more]
        /\ UNCHANGED <<mode, sites, secs, symtab_section, rels>>
    BY DEF ExportToLibs
  <1>2. /\ symtab_section \in Seq(SymRec)
        /\ SectionsOK(secs) /\ SymbolsOK /\ DynRec(dyn) /\ NotYet
    BY DEF EarlyInv, SymbolsOK
  <1>3. Libs \in Seq(SymRec)
    BY DEF WellFormed
  <1>4. \A k \in T : find_elf_sym_in(symtab_section, Libs[k].name) \in DOMAIN symtab_section
    BY <1>2, Finds
  <1>5. T \in SUBSET DOMAIN Libs
    OBVIOUS
  <1> HIDE DEF T
  <1>6. /\ used \in Seq(SymRec) /\ Len(used) \in Nat
        /\ \A k \in DOMAIN used : Place(T, k) \in T /\ used[k] = Libs[Place(T, k)]
    BY <1>3, <1>5, PickedIs DEF PicksOf
  <1> HIDE DEF used
  <1>7. \A k \in DOMAIN used : more[k] \in SymRec
    <2> TAKE k \in DOMAIN used
    <2>1. find_elf_sym_in(symtab_section, used[k].name) \in DOMAIN symtab_section
      BY <1>4, <1>6
    <2>2. more[k] = symtab_section[find_elf_sym_in(symtab_section, used[k].name)]
      OBVIOUS
    <2> HIDE DEF more
    <2> QED
      BY <1>2, <2>1, <2>2
  <1>8. more \in Seq(SymRec)
    <2>1. more = [k \in DOMAIN used |-> more[k]] /\ DOMAIN used = 1 .. Len(used)
      BY <1>6
    <2> HIDE DEF more
    <2>2. PICK n \in Nat : n = Len(used)
      BY <1>6
    <2>3. PICK f : f = more
      OBVIOUS
    <2>4. f = [k \in 1 .. n |-> f[k]] /\ \A k \in 1 .. n : f[k] \in SymRec
      BY <1>7, <2>1, <2>2, <2>3
    <2>5. f \in Seq(SymRec)
      BY <2>4
    <2> QED
      BY <2>3, <2>5
  <1> HIDE DEF more
  <1>9. PICK old \in Seq(SymRec) : old = dyn.syms
    BY <1>2 DEF DynRec
  <1>10. PICK g \in Seq(SymRec) : g = more
    BY <1>8
  <1>11. PICK syms \in Seq(SymRec) : syms = old \o g /\ DOMAIN old \subseteq DOMAIN syms
                                     /\ \A k \in DOMAIN old : syms[k] = old[k]
    <2>1. old \o g \in Seq(SymRec)
      OBVIOUS
    <2>2. DOMAIN old \subseteq DOMAIN (old \o g)
      OBVIOUS
    <2>3. \A k \in DOMAIN old : (old \o g)[k] = old[k]
      OBVIOUS
    <2> QED
      BY <2>1, <2>2, <2>3
  <1>12. dyn' = [dyn EXCEPT !.syms = syms]
    BY <1>1, <1>9, <1>10, <1>11
  <1>13. DynRec(dyn') /\ dyn'.syms = syms /\ dyn'.got = dyn.got
    BY <1>2, <1>12, SymsReplaced
  <1>14. SectionsOK(secs') /\ PlacesOK' /\ CopiesOK' /\ rels' \in [Relocated_ -> Seq(RelRec)]
    BY <1>1, <1>9, <1>11, <1>13, DynsymKeeps
  <1>15. \A k \in DOMAIN secs' : \E i \in DOMAIN secs : secs[i].name = secs'[k].name
    BY <1>1
  <1>16. NotYet'
    <2>1. phase \in Second /\ phase' \in Second \ {"export all"}
      BY <1>1 DEF Second
    <2> QED
      BY <1>1, <1>2, <1>13, <1>15, <2>1, NotYetKeeps
  <1>17. SymbolsOK'
    BY <1>1, <1>2 DEF SymbolsOK
  <1>18. next' \in Nat \ {0}
    BY <1>1
  <1>19. Extends(dyn.syms, dyn'.syms)
    BY <1>9, <1>11, <1>13 DEF Extends
  <1> QED
    BY <1>13, <1>14, <1>16, <1>17, <1>18, <1>19 DEF EarlyInv

\* A DLL exports its symbols, before anything is copied.
LEMMA ExportAllStep ==
  ASSUME EarlyInv, ExportAll
  PROVE  EarlyInv'
PROOF
  <1> DEFINE nonlocal == {i \in DOMAIN symtab_section : symtab_section[i].bind # "local"}
             Nth(i) == Cardinality({j \in nonlocal : j <= i})
             back == [i \in DOMAIN symtab_section |-> IF i \in nonlocal THEN Nth(i) ELSE 0]
  <1>1. /\ phase = "export all" /\ phase' = "got" /\ next' = 1
        /\ dyn' = [dyn EXCEPT !.syms = Picked(symtab_section, nonlocal), !.symtab_to_dynsym = back]
        /\ UNCHANGED <<mode, sites, secs, symtab_section, rels>>
    BY DEF ExportAll
  <1>2. /\ symtab_section \in Seq(SymRec)
        /\ SectionsOK(secs) /\ SymbolsOK /\ DynRec(dyn) /\ NotYet
        /\ rels \in [Relocated_ -> Seq(RelRec)]
        /\ CopiesOK /\ PlacesOK
    BY DEF EarlyInv, SymbolsOK
  <1>3. nonlocal \in SUBSET DOMAIN symtab_section
    OBVIOUS
  <1> HIDE DEF nonlocal, back
  <1>4. PICK syms \in Seq(SymRec) : syms = Picked(symtab_section, nonlocal)
    BY <1>2, <1>3, PickedIs DEF PicksOf
  <1>5. dyn' = [dyn EXCEPT !.syms = syms, !.symtab_to_dynsym = back]
    BY <1>1, <1>4
  <1>6. DynRec(dyn') /\ dyn'.got = dyn.got
    <2>1. PICK e : e = dyn'
      OBVIOUS
    <2>2. /\ dyn = [syms |-> dyn.syms, got |-> dyn.got, plt |-> dyn.plt,
                    symtab_to_dynsym |-> dyn.symtab_to_dynsym, got_offsets |-> dyn.got_offsets]
          /\ dyn.got \in Seq(Nat) /\ dyn.plt \in Seq(Nat)
      BY <1>2 DEF DynRec
    <2>3. e = [syms |-> syms, got |-> dyn.got, plt |-> dyn.plt,
               symtab_to_dynsym |-> back, got_offsets |-> dyn.got_offsets]
      BY <1>5, <2>1, <2>2
    <2>4. DynRec(e) /\ e.got = dyn.got
      BY <2>2, <2>3 DEF DynRec
    <2> QED
      BY <2>1, <2>4
  <1>7. ~HasCopies(rels[".bss"])
    BY <1>1, <1>2 DEF NotYet
  <1>8. \A syms_ : Copied(rels[".bss"], syms_, 0) = {}
    BY <1>7 DEF Copied, HasCopies
  <1>9. PlacesOK'
    <2>1. Copied(rels'[".bss"], dyn'.syms, 0) = Copied(rels[".bss"], dyn.syms, 0)
      BY <1>1, <1>8
    <2> QED
      BY <1>1, <1>2, <2>1 DEF PlacesOK
  <1>10. CopiesOK'
    BY <1>1, <1>2, <1>7 DEF CopiesOK, HasCopies
  <1>11. NotYet'
    <2>1. phase \in Second /\ phase' \in Second \ {"export all"}
      BY <1>1 DEF Second
    <2>2. \A k \in DOMAIN secs' : \E i \in DOMAIN secs : secs[i].name = secs'[k].name
      BY <1>1
    <2> QED
      BY <1>1, <1>2, <1>6, <2>1, <2>2, NotYetKeeps
  <1>12. SymbolsOK'
    BY <1>1, <1>2 DEF SymbolsOK
  <1>13. next' = 1 /\ secs' = secs /\ rels' = rels
    BY <1>1
  <1> QED
    BY <1>2, <1>6, <1>9, <1>10, <1>11, <1>12, <1>13 DEF EarlyInv

\* One relocation is looked at: the GOT may have to be begun, or added to.
LEMMA BuildGotStep ==
  ASSUME EarlyInv, BuildGotEntry
  PROVE  EarlyInv'
PROOF
  <1> DEFINE r == sites[next]
             got == r.type \in {"GOT32", "PLT32", "GOTOFF", "GOTPC"} /\ dyn.got = <<>>
             d == IF got THEN build_got(dyn) ELSE dyn
             list == IF got THEN Append(secs, GotSection) ELSE secs
             rt == IF r.type = "GOT32" THEN "GLOB_DAT" ELSE "JMP_SLOT"
  <1>1. /\ phase = "got" /\ phase' = "got"
        /\ next <= Len(Sites)
        /\ next' = next + 1
        /\ symtab_section' = IF got THEN WithGotSymbol(symtab_section) ELSE symtab_section
        /\ \/ PutGotEntry(d, list, rt, symtab_section[r.sym], r.sym)
           \/ dyn' = d /\ secs' = list /\ UNCHANGED rels
        /\ UNCHANGED <<mode, sites>>
    BY Zenon DEF BuildGotEntry
  <1>2. /\ symtab_section \in Seq(SymRec)
        /\ SectionsOK(secs) /\ SymbolsOK /\ DynRec(dyn) /\ NotYet
        /\ rels \in [Relocated_ -> Seq(RelRec)]
        /\ CopiesOK /\ PlacesOK
        /\ next \in Nat \ {0}
    BY DEF EarlyInv, SymbolsOK
  <1>3. /\ symtab_section' \in Seq(SymRec)
        /\ DOMAIN symtab_section \subseteq DOMAIN symtab_section'
        /\ Variables(symtab_section') = Variables(symtab_section)
    <2> HIDE DEF got
    <2> QED
      BY <1>1, <1>2, GotSymbolAdds
  <1>4. DynRec(d) /\ d.syms = dyn.syms /\ (got => d.got # <<>>) /\ (~got => d = dyn)
    <2> HIDE DEF got
    <2> QED
      BY <1>2, BuildGotIs
  <1>5. Adds(secs, list, {".got"}) /\ (~got => list = secs)
    <2>1. CASE got
      <3>1. \A i \in DOMAIN secs : secs[i].name # ".got"
        BY <1>1, <1>2, <2>1 DEF NotYet, Second
      <3>2. PICK s : s = GotSection
        OBVIOUS
      <3>3. s \in SecRec /\ SectionOK(s) /\ s.name = ".got"
        <4>1. /\ ".got" \in SectionNames /\ ".got" # RelName(".bss")
              /\ "progbits" \in Strings /\ {"alloc", "write"} \in SUBSET Flags
          BY NamesAssumption DEF SectionNames, OwnSections, NamedSections, Strings, Flags
        <4>2. PICK F \in SUBSET Flags : F = {"alloc", "write"}
          BY <4>1
        <4>3. s = SecOf(".got", "progbits", F, 8, 3)
          BY <3>2, <4>2 DEF GotSection
        <4> QED
          BY <4>1, <4>3, MadeIsOK
      <3>4. Adds(secs, Append(secs, s), {s.name})
        BY <1>2, <3>1, <3>3, AddingOne
      <3>5. list = Append(secs, s)
        BY <2>1, <3>2
      <3> QED
        BY <2>1, <3>3, <3>4, <3>5
    <2>2. CASE ~got
      BY <1>2, <2>2, AddingNone
    <2> QED
      BY <2>1, <2>2
  <1>6. r.sym \in DOMAIN symtab_section /\ rt \in Strings
    <2>1. next \in 1 .. Len(Sites)
      BY <1>1, <1>2
    <2>2. "GLOB_DAT" \in Strings /\ "JMP_SLOT" \in Strings
      BY DEF Strings
    <2> QED
      BY <1>2, <2>1, <2>2 DEF SymbolsOK
  <1>7. got => dyn.got = <<>>
    OBVIOUS
  <1> HIDE DEF got, d, list, rt, r
  <1>8. /\ SectionsOK(secs') /\ PlacesOK' /\ CopiesOK'
        /\ DynRec(dyn')
        /\ rels' \in [Relocated_ -> Seq(RelRec)]
        /\ dyn'.got = <<>> => d.got = <<>>
        /\ \A k \in DOMAIN secs' : \/ \E i \in DOMAIN list : list[i].name = secs'[k].name
                                   \/ secs'[k].name = RelName(".got")
    <2>1. CASE PutGotEntry(d, list, rt, symtab_section[r.sym], r.sym)
      <3>1. PICK info : info = symtab_section[r.sym]
        OBVIOUS
      <3>2. info.type \in Strings /\ info.bind \in Strings
        <4>1. info \in SymRec
          BY <1>2, <1>6, <3>1
        <4> QED
          BY <4>1 DEF SymRec
      <3>3. PutGotEntry(d, list, rt, info, r.sym)
        BY <2>1, <3>1
      <3>4. /\ SectionsOK(secs') /\ PlacesOK' /\ CopiesOK'
            /\ Adds(secs, secs', {".got", RelName(".got")})
            /\ \A k \in DOMAIN secs' : secs'[k].name = ".got" => \E m \in DOMAIN list : list[m].name = ".got"
            /\ DynRec(dyn')
            /\ rels' \in [Relocated_ -> Seq(RelRec)]
            /\ dyn'.got = <<>> => d.got = <<>>
        BY <1>3, <1>4, <1>5, <1>6, <3>2, <3>3, GotEntryKeeps
      <3>5. \A k \in DOMAIN secs : k \in DOMAIN list /\ list[k] = secs[k] /\ secs'[k] = secs[k]
        BY <1>5, <3>4 DEF Adds
      <3>6. \A k \in DOMAIN secs' : k \in DOMAIN secs \/ secs'[k].name \in {".got", RelName(".got")}
        BY <3>4 DEF Adds
      <3>7. \A k \in DOMAIN secs' : \/ \E i \in DOMAIN list : list[i].name = secs'[k].name
                                    \/ secs'[k].name = RelName(".got")
        BY <3>4, <3>5, <3>6
      <3> QED
        BY <3>4, <3>7
    <2>2. CASE dyn' = d /\ secs' = list /\ UNCHANGED rels
      <3>1. ".bss" \notin {".got"}
        OBVIOUS
      <3>2. /\ Adds(secs, secs', {".got"})
            /\ rels'[".bss"] = rels[".bss"]
            /\ DOMAIN dyn.syms \subseteq DOMAIN dyn'.syms
            /\ \A i \in DOMAIN dyn.syms : dyn'.syms[i].size = dyn.syms[i].size
        BY <1>4, <1>5, <2>2
      <3>3. SectionsOK(secs') /\ PlacesOK' /\ CopiesOK'
        BY <1>2, <1>3, <3>1, <3>2, PlacesStay
      <3> QED
        BY <1>2, <1>4, <2>2, <3>3
    <2> QED
      BY <1>1, <2>1, <2>2
  <1>9. \A i \in DOMAIN list : (i \in DOMAIN secs /\ list[i] = secs[i]) \/ (list[i].name = ".got" /\ got)
    <2>1. CASE got
      <3>1. /\ \A i \in DOMAIN secs : list[i] = secs[i]
            /\ \A i \in DOMAIN list : i \in DOMAIN secs \/ list[i].name = ".got"
        BY <1>5 DEF Adds
      <3> QED
        BY <2>1, <3>1
    <2>2. CASE ~got
      <3>1. list = secs
        BY <1>5, <2>2
      <3>2. \A i \in DOMAIN list : i \in DOMAIN secs /\ list[i] = secs[i]
        BY ONLY <3>1
      <3> QED
        BY <3>2
    <2> QED
      BY <2>1, <2>2
  <1>10. \A k \in DOMAIN secs' :
           \/ \E i \in DOMAIN secs : secs[i].name = secs'[k].name
           \/ secs'[k].name \in {RelName(".got"), RelName(".bss")}
           \/ secs'[k].name = ".got" /\ dyn'.got # <<>>
    BY <1>4, <1>8, <1>9
  <1>11. dyn'.got = <<>> => dyn.got = <<>>
    BY <1>4, <1>7, <1>8
  <1>12. NotYet'
    <2>1. phase \in Second /\ phase' \in Second \ {"export all"}
      BY <1>1 DEF Second
    <2> QED
      BY <1>1, <1>2, <1>10, <1>11, <2>1, NotYetKeeps
  <1>13. SymbolsOK'
    BY <1>1, <1>2, <1>3 DEF SymbolsOK
  <1>14. next' \in Nat \ {0}
    BY <1>1, <1>2
  <1> QED
    BY <1>8, <1>12, <1>13, <1>14 DEF EarlyInv

(***************************************************************************)
(* Sizes                                                                   *)
(***************************************************************************)
\* The sections' sizes are numbers.
LEMMA Sizes ==
  ASSUME DynRec(dyn), rels \in [Relocated_ -> Seq(RelRec)], NEW s \in SecRec, SectionOK(s)
  PROVE  /\ DataOffset(s) \in Nat
         /\ s.name = ".bss" => DataOffset(s) = s.data_offset
         /\ s.type = "rel" => Len(Prepared(s.of)) \in Nat
PROOF
  <1>1. s.data_offset \in Nat
    BY DEF SecRec
  <1>2. s.type = "rel" => s.of \in Relocated_
    BY DEF SectionOK
  <1>3. s.type = "rel" => Len(rels[s.of]) \in Nat
    BY <1>2
  <1>4. Len(dyn.syms) \in Nat /\ Len(dyn.got) \in Nat /\ Len(dyn.plt) \in Nat
    BY DEF DynRec
  <1>5. s.name = ".bss" => s.type = "nobits"
    BY DEF SectionOK
  <1>6. DataOffset(s) \in Nat
    BY <1>1, <1>3, <1>4 DEF DataOffset
  <1>7. s.name = ".bss" => DataOffset(s) = s.data_offset
    BY <1>5 DEF DataOffset
  <1>8. ASSUME s.type = "rel" PROVE Len(Prepared(s.of)) \in Nat
    <2> DEFINE T == {k \in DOMAIN rels[s.of] :
            \/ rels[s.of][k].type = "32"
            \/ rels[s.of][k].type = "PC32" /\ dyn.symtab_to_dynsym[rels[s.of][k].sym] # 0}
    <2>1. Prepared(s.of) = Picked(rels[s.of], T)
      BY DEF Prepared
    <2>2. T \in SUBSET DOMAIN rels[s.of]
      OBVIOUS
    <2> HIDE DEF T
    <2>3. rels[s.of] \in Seq(RelRec)
      BY <1>2, <1>8
    <2> QED
      BY <2>1, <2>2, <2>3, PickedIs DEF PicksOf
  <1> QED
    BY <1>6, <1>7, <1>8

\* A section whose size is settled is the section it was; a relocation section
\* may come to be loaded.
Settled(s, t) ==
  /\ t \in SecRec
  /\ SectionOK(t)
  /\ t.name = s.name /\ t.type = s.type
  /\ s.name = ".bss" => t.sh_size = s.data_offset

LEMMA ReservedIs ==
  ASSUME DynRec(dyn), rels \in [Relocated_ -> Seq(RelRec)], NEW s \in SecRec, SectionOK(s),
         NEW last
  PROVE  Settled(s, Reserved(s, last))
PROOF
  <1>1. PICK size \in Nat : size = DataOffset(s) /\ (s.name = ".bss" => size = s.data_offset)
    BY Sizes
  <1>2. s.type = "rel" => Len(Prepared(s.of)) \in Nat
    BY Sizes
  <1> DEFINE dynamic == MakesDll /\ s.type = "rel" /\ "alloc" \notin s.flags
             flags == IF dynamic /\ Prepared(s.of) # <<>> THEN s.flags \cup {"alloc"} ELSE s.flags
             sh == IF dynamic THEN 2 * Len(Prepared(s.of))
                   ELSE IF "alloc" \in s.flags \/ last \/ mode.type = "obj" THEN size ELSE 0
  <1>3. PICK F : F = flags
    OBVIOUS
  <1>4. PICK n : n = sh
    OBVIOUS
  <1>5. PICK t : t = Reserved(s, last)
    OBVIOUS
  <1>6. t = [s EXCEPT !.data_offset = size, !.flags = F, !.sh_size = n]
    BY <1>1, <1>3, <1>4, <1>5, Zenon DEF Reserved
  <1>7. n \in Nat
    BY <1>2, <1>4
  <1>8. s.flags \in SUBSET Flags
    BY DEF SecRec
  <1>9. /\ F \in SUBSET Flags
        /\ s.flags \subseteq F
        /\ s.type = "rel" \/ F = s.flags
        /\ "write" \in F => "write" \in s.flags
    BY <1>3, <1>8 DEF Flags
  <1>10. /\ t \in SecRec
         /\ t.name = s.name /\ t.type = s.type /\ t.of = s.of /\ t.align = s.align
         /\ t.flags = F /\ t.sh_size = n
    BY ONLY s \in SecRec, <1>6, <1>7, <1>9, size \in Nat DEF SecRec
  <1>11. SectionOK(t)
    BY <1>9, <1>10 DEF SectionOK
  <1>12. s.name = ".bss" => n = s.data_offset
    <2>1. s.name = ".bss" => "alloc" \in s.flags /\ s.type # "rel"
      BY DEF SectionOK
    <2> QED
      BY <1>1, <1>4, <2>1
  <1> QED
    BY <1>5, <1>10, <1>11, <1>12 DEF Settled

\* Multiples of a page.
LEMMA Multiples ==
  ASSUME NEW p \in Nat \ {0}, NEW a \in Int
  PROVE  a % p = 0 <=> \E m \in Int : a = m * p
PROOF
  <1>1. a = p * (a \div p) + (a % p) /\ a \div p \in Int
    OBVIOUS
  <1>2. a % p = 0 => a = (a \div p) * p
    BY <1>1
  <1>3. \A m \in Int : (m * p) % p = 0
    OBVIOUS
  <1> QED
    BY <1>1, <1>2, <1>3

\* Sums and differences of multiples are multiples.
LEMMA SumOfMultiples ==
  ASSUME NEW p \in Nat \ {0}, NEW a \in Int, NEW b \in Int, a % p = 0, b % p = 0
  PROVE  (a + b) % p = 0 /\ (a - b) % p = 0
PROOF
  <1>1. PICK m \in Int : a = m * p
    BY Multiples
  <1>2. PICK n \in Int : b = n * p
    BY Multiples
  <1>3. a + b = (m + n) * p /\ a - b = (m - n) * p
    BY <1>1, <1>2
  <1>4. m + n \in Int /\ m - n \in Int /\ a + b \in Int /\ a - b \in Int
    OBVIOUS
  <1> QED
    BY <1>3, <1>4, Multiples

\* An address within a page, and the offset it keeps step with.
LEMMA SameInPage ==
  ASSUME NEW p \in Nat \ {0}, NEW s \in Nat, s % p = 0, NEW f \in Nat
  PROVE  s + (f % p) \in Nat /\ (s + (f % p) - f) % p = 0
PROOF
  <1>1. PICK q \in Int : q = f \div p
    OBVIOUS
  <1>2. PICK r \in Nat : r = f % p
    OBVIOUS
  <1>3. f = p * q + r
    BY <1>1, <1>2
  <1>4. PICK x \in Int : x = q * p
    OBVIOUS
  <1>5. x % p = 0 /\ f = x + r
    BY <1>3, <1>4, Multiples
  <1>6. (s - x) % p = 0
    <2>1. x % p = 0 /\ s \in Int
      BY <1>5
    <2> QED
      BY ONLY <2>1, s % p = 0, p \in Nat \ {0}, x \in Int, SumOfMultiples
  <1>7. s + r - f = s - x
    BY <1>5
  <1> QED
    BY <1>2, <1>6, <1>7

\* Sizes are settled, and layout begins.
LEMMA ReserveStep ==
  ASSUME EarlyInv, DOMAIN addr = {}, DOMAIN off = {}, Reserve
  PROVE  LateInv' /\ phase' \in Late
PROOF
  <1>1. /\ phase = "got"
        /\ ~InMemory
        /\ secs' = [i \in 1 .. Len(secs) + 1 |->
                      IF i > Len(secs) THEN Reserved(ShStrTab, TRUE) ELSE Reserved(secs[i], FALSE)]
        /\ here' = [j |-> 0, addr |-> (IF MakesDll THEN 0 ELSE Start) + ((13 + 8 * Headers) % Page),
                    file_offset |-> 13 + 8 * Headers]
        /\ phase' = IF mode.type = "obj" THEN "sections" ELSE "segments"
        /\ UNCHANGED <<mode, symtab_section, dyn, rels, addr, off>>
    BY DEF Reserve
  <1>2. /\ SectionsOK(secs) /\ DynRec(dyn) /\ rels \in [Relocated_ -> Seq(RelRec)]
        /\ CopiesOK /\ PlacesOK /\ NotYet /\ symtab_section \in Seq(SymRec)
    BY DEF EarlyInv, SymbolsOK
  <1>3. PICK n \in Nat : n = Len(secs) /\ DOMAIN secs = 1 .. n
    BY <1>2 DEF SectionsOK
  <1>4. PICK last : last = secs'[n + 1]
    OBVIOUS
  <1>5. /\ DOMAIN secs' = 1 .. n + 1
        /\ \A i \in 1 .. n : secs'[i] = Reserved(secs[i], FALSE)
        /\ last = Reserved(ShStrTab, TRUE)
    <2>1. secs' = [i \in 1 .. n + 1 |-> IF i > n THEN Reserved(ShStrTab, TRUE) ELSE Reserved(secs[i], FALSE)]
      BY <1>1, <1>3
    <2>2. \A i \in 1 .. n : i \in 1 .. n + 1 /\ ~(i > n)
      OBVIOUS
    <2>3. n + 1 \in 1 .. n + 1 /\ n + 1 > n
      OBVIOUS
    <2> QED
      BY <1>4, <2>1, <2>2, <2>3
  <1>6. Settled(ShStrTab, last) /\ ShStrTab.name = ".shstrtab"
    <2>1. ".shstrtab" \in SectionNames /\ ".shstrtab" # RelName(".bss") /\ "strtab" \in Strings /\ {} \in SUBSET Flags
      BY NamesAssumption DEF SectionNames, OwnSections, NamedSections, Strings
    <2>2. ShStrTab \in SecRec /\ SectionOK(ShStrTab) /\ ShStrTab.name = ".shstrtab"
      BY <2>1, MadeIsOK DEF ShStrTab
    <2> QED
      BY <1>2, <1>5, <2>2, ReservedIs
  <1>7. \A i \in 1 .. n : Settled(secs[i], secs'[i])
    <2> TAKE i \in 1 .. n
    <2>1. secs[i] \in SecRec /\ SectionOK(secs[i])
      BY <1>2, <1>3 DEF SectionsOK
    <2>2. Settled(secs[i], Reserved(secs[i], FALSE))
      BY <1>2, <2>1, ReservedIs
    <2> QED
      BY <1>5, <2>2
  <1>8. \A i \in 1 .. n + 1 : i \in 1 .. n \/ i = n + 1
    OBVIOUS
  <1>9. /\ \A i \in 1 .. n : /\ secs'[i] \in SecRec /\ SectionOK(secs'[i])
                             /\ secs'[i].name = secs[i].name
                             /\ secs[i].name = ".bss" => secs'[i].sh_size = secs[i].data_offset
        /\ secs'[n + 1] \in SecRec /\ SectionOK(secs'[n + 1]) /\ secs'[n + 1].name = ".shstrtab"
    BY <1>4, <1>6, <1>7 DEF Settled
  <1>10. secs' = [i \in 1 .. n + 1 |-> secs'[i]]
    BY <1>1, <1>3
  <1>11. SectionsOK(secs')
    <2>1. PICK new : new = secs'
      OBVIOUS
    <2>2. new \in Seq(SecRec)
      <3>1. \A i \in 1 .. n + 1 : new[i] \in SecRec
        BY <1>8, <1>9, <2>1
      <3>2. new = [i \in 1 .. n + 1 |-> new[i]]
        BY <1>10, <2>1
      <3> QED
        BY <3>1, <3>2
    <2>3. \A i \in 1 .. n : secs[i].name # ".shstrtab"
      BY <1>1, <1>2, <1>3 DEF NotYet, Second
    <2>4. NamesDiffer(new)
      <3>1. \A i, j \in 1 .. n : secs[i].name = secs[j].name => i = j
        BY <1>2, <1>3 DEF SectionsOK, NamesDiffer
      <3>2. \A i, j \in 1 .. n + 1 : new[i].name = new[j].name => i = j
        BY <1>8, <1>9, <2>1, <2>3, <3>1
      <3> QED
        BY <1>5, <2>1, <3>2 DEF NamesDiffer
    <2>5. \A m \in {".text", ".data", ".bss"} : \E i \in DOMAIN new : new[i].name = m
      <3>1. \A m \in {".text", ".data", ".bss"} : \E i \in DOMAIN secs : secs[i].name = m
        BY <1>2 DEF SectionsOK
      <3>2. \A i \in DOMAIN secs : i \in DOMAIN new /\ new[i].name = secs[i].name
        BY <1>3, <1>5, <1>9, <2>1
      <3> QED
        BY <3>1, <3>2
    <2>6. \A i \in DOMAIN new : SectionOK(new[i])
      BY <1>5, <1>8, <1>9, <2>1
    <2> QED
      BY <2>1, <2>2, <2>4, <2>5, <2>6 DEF SectionsOK
  <1>12. PICK f \in Nat : f = 13 + 8 * Headers
    BY DEF Headers
  <1>13. PICK s \in Nat : s = (IF MakesDll THEN 0 ELSE Start) /\ s % Page = 0
    BY OutputAssumption
  <1>14. /\ here'.j = 0 /\ here'.file_offset = f
         /\ here'.addr = s + (f % Page)
    BY <1>1, <1>12, <1>13
  <1>15. here'.addr \in Nat /\ (here'.addr - here'.file_offset) % Page = 0
    <2>1. PICK p \in Nat \ {0} : p = Page
      BY OutputAssumption
    <2>2. s + (f % p) \in Nat /\ (s + (f % p) - f) % p = 0
      <3>1. s % p = 0
        BY <1>13, <2>1
      <3> QED
        BY ONLY <3>1, s \in Nat, f \in Nat, p \in Nat \ {0}, SameInPage
    <2> QED
      BY <1>14, <2>1, <2>2
  <1>16. DOMAIN addr' = {} /\ DOMAIN off' = {} /\ \A i : ~Placed(i)'
    BY <1>1 DEF Placed
  <1>17. FileOK'
    <2>1. InFilePlaced' = {}
      BY <1>16 DEF InFilePlaced
    <2>2. (here = [j |-> here.j, addr |-> here.addr, file_offset |-> here.file_offset])'
      BY <1>1
    <2> QED
      BY <1>12, <1>14, <1>16, <2>1, <2>2 DEF FileOK
  <1>18. MemoryOK'
    BY <1>15, <1>16 DEF MemoryOK
  <1>19. PagesOK'
    BY <1>14, <1>16 DEF PagesOK
  <1>20. StepOK'
    BY <1>14, <1>15, <1>16 DEF StepOK
  <1>21. PieceOK'
    <2>1. {k \in RelSections' : Placed(k)'} = {}
      BY <1>16
    <2>2. UNION {Span(i)' : i \in {k \in RelSections' : Placed(k)'}} = {}
      BY <2>1
    <2>3. Filled(0, 0)'
      BY <1>16, <2>2 DEF Filled
    <2> QED
      BY <2>3 DEF PieceOK
  <1>22. RankOK'
    BY <1>16 DEF RankOK
  <1>23. CopiesOK'
    <2>1. \A i \in DOMAIN secs : i \in DOMAIN secs' /\ secs'[i].name = secs[i].name
      BY <1>3, <1>5, <1>9
    <2>2. (\E i \in DOMAIN secs : secs[i].name = RelName(".bss")) => \E i \in DOMAIN secs' : secs'[i].name = RelName(".bss")
      BY <2>1
    <2> QED
      BY <1>1, <1>2, <2>2 DEF CopiesOK
  <1>24. mode.type # "obj" => ImagePlaces'
    <2> SUFFICES ASSUME mode.type # "obj", NEW i \in DOMAIN secs', secs'[i].name = ".bss"
                 PROVE  phase' = "segments" /\ Fit(Variables(symtab_section') \cup Copied(rels'[".bss"], dyn'.syms, 0),
                                                   0, secs'[i].sh_size)
      BY DEF ImagePlaces
    <2>1. i \in 1 .. n /\ secs[i].name = ".bss" /\ secs'[i].sh_size = secs[i].data_offset
      BY <1>5, <1>8, <1>9
    <2>2. Fit(Variables(symtab_section) \cup Copied(rels[".bss"], dyn.syms, 0), 0, secs[i].data_offset)
      BY <1>2, <1>3, <2>1 DEF PlacesOK
    <2> QED
      BY <1>1, <2>1, <2>2
  <1>25. ".bss" \in DOMAIN rels' /\ DynRec(dyn')
    BY <1>1, <1>2 DEF Relocated_
  <1>26. mode' = mode /\ symtab_section' = symtab_section /\ phase' \in {"segments", "sections"}
         /\ (phase' = "segments" <=> mode.type # "obj")
    BY <1>1
  <1>27. symtab_section' \in Seq(SymRec)
    BY <1>2, <1>26
  <1>28. LateInv'
    BY <1>11, <1>14, <1>16, <1>17, <1>18, <1>19, <1>20, <1>21, <1>22, <1>23, <1>24, <1>25, <1>26, <1>27
       DEF LateInv, LayoutOK, Image
  <1> QED
    BY <1>26, <1>28 DEF Late

(***************************************************************************)
(* Placing a section                                                       *)
(***************************************************************************)
\* The ranks of what matters.
LEMMA Ranked ==
  ASSUME NEW s \in SecRec, SectionOK(s)
  PROVE  /\ Rank(s) \in 0 .. 4
         /\ s.type = "nobits" <=> Rank(s) = 4
         /\ s.type = "rel" <=> Rank(s) = 2
PROOF
  <1>1. s.type \in {"nobits", "rel"} => s.name # ".interp"
    BY DEF SectionOK
  <1> QED
    BY <1>1 DEF Rank

\* What placing section i does, at address a and offset o.
Placing(i, a, o) ==
  /\ i \in DOMAIN secs /\ ~Placed(i) /\ InSegment(secs[i], here.j)
  /\ a \in Nat /\ o \in Nat
  /\ here.addr <= a /\ a - here.addr = o - here.file_offset
  /\ secs[i].align = 1 => a = here.addr
  /\ \A k \in DOMAIN secs : ~Placed(k) /\ InSegment(secs[k], here.j) => Rank(secs[i]) <= Rank(secs[k])
  /\ here'.j = here.j
  /\ here'.addr = a + secs[i].sh_size
  /\ here'.file_offset = o + (IF secs[i].type = "nobits" THEN 0 ELSE secs[i].sh_size)
  /\ DOMAIN addr' = DOMAIN addr \cup {secs[i].name}
  /\ DOMAIN off' = DOMAIN off \cup {secs[i].name}
  /\ \A n \in DOMAIN addr : n # secs[i].name /\ addr'[n] = addr[n]
  /\ \A n \in DOMAIN off : n # secs[i].name /\ off'[n] = off[n]
  /\ addr'[secs[i].name] = a
  /\ off'[secs[i].name] = o
  /\ here' = [j |-> here'.j, addr |-> here'.addr, file_offset |-> here'.file_offset]
  /\ secs' = secs

LEMMA PlacingIs ==
  ASSUME LateInv, PlaceSection
  PROVE  \E i, a, o : Placing(i, a, o)
PROOF
  <1>1. /\ phase = "segments"
        /\ SectionsOK(secs) /\ FileOK /\ DOMAIN off = DOMAIN addr /\ Image /\ MemoryOK
    BY DEF LateInv, LayoutOK, PlaceSection
  <1> DEFINE left == {i \in DOMAIN secs : Unplaced(i) /\ InSegment(secs[i], here.j)}
             A(s) == AlignedTo(here.addr, s.align)
             O(s) == here.file_offset + (A(s) - here.addr)
  <1>2. PICK i \in left :
          /\ Following(i, left)
          /\ addr' = [n \in DOMAIN addr \cup {secs[i].name} |-> IF n = secs[i].name THEN A(secs[i]) ELSE addr[n]]
          /\ off' = [n \in DOMAIN off \cup {secs[i].name} |-> IF n = secs[i].name THEN O(secs[i]) ELSE off[n]]
          /\ here' = [here EXCEPT !.addr = A(secs[i]) + secs[i].sh_size,
                                  !.file_offset = O(secs[i]) + (IF secs[i].type = "nobits" THEN 0 ELSE secs[i].sh_size)]
    BY Zenon DEF PlaceSection
  <1>3. secs' = secs
    BY DEF PlaceSection
  <1>4. i \in DOMAIN secs /\ ~Placed(i) /\ InSegment(secs[i], here.j) /\ secs[i] \in SecRec
    BY <1>1 DEF Unplaced, Placed, SectionsOK
  <1>5. PICK align \in Nat \ {0} : align = secs[i].align
    BY <1>4 DEF SecRec
  <1>6. PICK from \in Nat : from = here.addr
    BY <1>1 DEF MemoryOK
  <1>7. PICK f \in Nat : f = here.file_offset
    BY <1>1 DEF FileOK
  <1>8. PICK a \in Nat : a = A(secs[i]) /\ from <= a /\ (align = 1 => a = from)
    <2>1. A(secs[i]) = AlignedTo(from, align)
      BY <1>5, <1>6
    <2> QED
      BY <2>1, RoundsUp
  <1>9. PICK o \in Nat : o = O(secs[i]) /\ o = f + (a - from)
    BY <1>6, <1>7, <1>8
  <1> HIDE DEF A, O
  <1>10. /\ \A k \in DOMAIN secs : ~Placed(k) /\ InSegment(secs[k], here.j) => k \in left
         /\ \A k \in left : Rank(secs[i]) <= Rank(secs[k])
    <2>1. \A k \in DOMAIN secs : secs[k] \in SecRec /\ SectionOK(secs[k])
      BY <1>1 DEF SectionsOK
    <2>2. \A k \in DOMAIN secs : Rank(secs[k]) \in 0 .. 4
      BY <2>1, Ranked
    <2>3. \A k \in left : Rank(secs[i]) < Rank(secs[k]) \/ Rank(secs[i]) = Rank(secs[k])
      BY <1>2 DEF Following
    <2> QED
      BY <1>4, <2>2, <2>3 DEF Unplaced, Placed
  <1>11. PICK size \in Nat : size = secs[i].sh_size
    BY <1>4 DEF SecRec
  <1>12. PICK e : e = o + (IF secs[i].type = "nobits" THEN 0 ELSE size)
    OBVIOUS
  <1>13. here' = [here EXCEPT !.addr = a + size, !.file_offset = e]
    BY <1>2, <1>8, <1>9, <1>11, <1>12
  <1>14. here = [j |-> here.j, addr |-> here.addr, file_offset |-> here.file_offset]
    BY <1>1 DEF FileOK
  <1>15. here' = [j |-> here.j, addr |-> a + size, file_offset |-> e]
    BY <1>13, <1>14
  <1>16. /\ here'.j = here.j /\ here'.addr = a + size /\ here'.file_offset = e
         /\ here' = [j |-> here'.j, addr |-> here'.addr, file_offset |-> here'.file_offset]
    BY <1>15
  <1>17. secs[i].name \notin DOMAIN addr /\ secs[i].name \notin DOMAIN off
    BY <1>1, <1>4 DEF Placed
  <1>18. /\ DOMAIN addr' = DOMAIN addr \cup {secs[i].name}
         /\ \A n \in DOMAIN addr : n # secs[i].name /\ addr'[n] = addr[n]
         /\ addr'[secs[i].name] = a
    BY <1>2, <1>8, <1>17
  <1>19. /\ DOMAIN off' = DOMAIN off \cup {secs[i].name}
         /\ \A n \in DOMAIN off : n # secs[i].name /\ off'[n] = off[n]
         /\ off'[secs[i].name] = o
    BY <1>2, <1>9, <1>17
  <1>20. a - here.addr = o - here.file_offset /\ here.addr <= a /\ (secs[i].align = 1 => a = here.addr)
    BY <1>5, <1>6, <1>7, <1>8, <1>9
  <1>21. Placing(i, a, o)
    BY <1>3, <1>4, <1>10, <1>11, <1>12, <1>16, <1>18, <1>19, <1>20 DEF Placing
  <1> QED
    BY <1>21

\* What that means for the sections.
Others(i) ==
  /\ \A k \in DOMAIN secs : Placed(k)' <=> Placed(k) \/ k = i
  /\ \A k \in DOMAIN secs : Placed(k) => k # i /\ addr'[secs[k].name] = addr[secs[k].name]
  /\ \A k \in DOMAIN secs : secs[k].name \in DOMAIN off =>
       k # i /\ secs[k].name \in DOMAIN off' /\ off'[secs[k].name] = off[secs[k].name]
  /\ \A k \in DOMAIN secs : secs[k].name \in DOMAIN off' => k = i \/ secs[k].name \in DOMAIN off

LEMMA OthersStay ==
  ASSUME SectionsOK(secs), NEW i, NEW a, NEW o, Placing(i, a, o)
  PROVE  Others(i)
PROOF
  <1>1. /\ i \in DOMAIN secs /\ ~Placed(i)
        /\ DOMAIN addr' = DOMAIN addr \cup {secs[i].name}
        /\ DOMAIN off' = DOMAIN off \cup {secs[i].name}
        /\ \A n \in DOMAIN addr : n # secs[i].name /\ addr'[n] = addr[n]
        /\ \A n \in DOMAIN off : n # secs[i].name /\ off'[n] = off[n]
        /\ secs' = secs
    BY DEF Placing
  <1>2. \A k \in DOMAIN secs : secs[k].name = secs[i].name => k = i
    BY <1>1 DEF SectionsOK, NamesDiffer
  <1>3. \A k \in DOMAIN secs : (Placed(k) <=> secs[k].name \in DOMAIN addr) /\ (Placed(k)' <=> secs[k].name \in DOMAIN addr')
    BY <1>1 DEF Placed
  <1>4. \A k \in DOMAIN secs : Placed(k)' <=> Placed(k) \/ k = i
    BY <1>1, <1>2, <1>3
  <1>5. \A k \in DOMAIN secs : Placed(k) => k # i /\ addr'[secs[k].name] = addr[secs[k].name]
    BY <1>1, <1>3
  <1>6. \A k \in DOMAIN secs : secs[k].name \in DOMAIN off =>
          k # i /\ secs[k].name \in DOMAIN off' /\ off'[secs[k].name] = off[secs[k].name]
    BY <1>1
  <1>7. \A k \in DOMAIN secs : secs[k].name \in DOMAIN off' => k = i \/ secs[k].name \in DOMAIN off
    BY <1>1, <1>2
  <1> QED
    BY <1>4, <1>5, <1>6, <1>7 DEF Others

\* The file goes on behind what is there.
LEMMA FileGrows ==
  ASSUME SectionsOK(secs), FileOK, NEW i \in DOMAIN secs, NEW o \in Nat, here.file_offset <= o,
         secs[i].name \notin DOMAIN off,
         here'.file_offset = o + (IF secs[i].type = "nobits" THEN 0 ELSE secs[i].sh_size),
         here' = [j |-> here'.j, addr |-> here'.addr, file_offset |-> here'.file_offset],
         DOMAIN off' = DOMAIN off \cup {secs[i].name},
         \A n \in DOMAIN off : off'[n] = off[n],
         off'[secs[i].name] = o, secs' = secs
  PROVE  FileOK'
PROOF
  <1>1. \A k, m \in DOMAIN secs : secs[k].name = secs[m].name => k = m
    BY DEF SectionsOK, NamesDiffer
  <1>2. /\ here'.file_offset = o + (IF secs[i].type = "nobits" THEN 0 ELSE secs[i].sh_size)
        /\ DOMAIN off' = DOMAIN off \cup {secs[i].name}
        /\ \A n \in DOMAIN off : n # secs[i].name /\ off'[n] = off[n]
        /\ off'[secs[i].name] = o
        /\ here' = [j |-> here'.j, addr |-> here'.addr, file_offset |-> here'.file_offset]
        /\ secs' = secs
    OBVIOUS
  <1>3. \A k \in DOMAIN secs : secs[k].sh_size \in Nat
    <2>1. \A k \in DOMAIN secs : secs[k] \in SecRec
      BY DEF SectionsOK
    <2>2. \A s \in SecRec : s.sh_size \in Nat
      BY DEF SecRec
    <2> QED
      BY <2>1, <2>2
  <1>4. /\ here.file_offset \in Nat
        /\ \A n \in DOMAIN off : off[n] \in Nat
        /\ \A k \in InFilePlaced : off[secs[k].name] + secs[k].sh_size <= here.file_offset
        /\ \A k, m \in InFilePlaced : k # m => \/ off[secs[k].name] + secs[k].sh_size <= off[secs[m].name]
                                              \/ off[secs[m].name] + secs[m].sh_size <= off[secs[k].name]
    BY DEF FileOK
  <1>5. PICK f \in Nat : f = here.file_offset /\ f <= o
    BY <1>2, <1>4
  <1>6. PICK size \in Nat : size = secs[i].sh_size
    BY <1>2, <1>3
  <1>7. PICK e \in Nat : /\ e = here'.file_offset
                         /\ o <= e
                         /\ i \in InFile => o + size <= e
    BY <1>2, <1>6 DEF InFile
  <1>8. \A n \in DOMAIN off' : off'[n] \in Nat
    BY <1>2, <1>4
  <1>9. \A k \in InFilePlaced' : \/ k = i /\ i \in InFile
                                 \/ k \in InFilePlaced /\ k # i /\ off'[secs[k].name] = off[secs[k].name]
    BY <1>1, <1>2 DEF InFilePlaced, InFile
  <1>10. \A k \in InFilePlaced : /\ off[secs[k].name] \in Nat /\ secs[k].sh_size \in Nat
                                 /\ off[secs[k].name] + secs[k].sh_size <= o
    <2> TAKE k \in InFilePlaced
    <2>1. k \in DOMAIN secs /\ secs[k].name \in DOMAIN off
      BY DEF InFilePlaced, InFile
    <2>2. PICK x \in Nat : x = off[secs[k].name]
      BY <1>4, <2>1
    <2>3. PICK y \in Nat : y = secs[k].sh_size
      BY <1>3, <2>1
    <2>4. x + y <= f
      BY <1>4, <1>5, <2>2, <2>3
    <2>5. x + y <= o
      BY <1>2, <1>5, <2>4
    <2> QED
      BY <2>2, <2>3, <2>5
  <1>11. \A k \in InFilePlaced' : off'[secs[k].name] + secs[k].sh_size <= e
    BY <1>2, <1>6, <1>7, <1>9, <1>10
  <1>12. \A k, m \in InFilePlaced' : k # m => \/ off'[secs[k].name] + secs[k].sh_size <= off'[secs[m].name]
                                             \/ off'[secs[m].name] + secs[m].sh_size <= off'[secs[k].name]
    <2> TAKE k, m \in InFilePlaced'
    <2>1. CASE k = i /\ m = i
      BY <2>1
    <2>2. CASE k = i /\ m \in InFilePlaced /\ off'[secs[m].name] = off[secs[m].name]
      BY <1>2, <1>10, <2>2
    <2>3. CASE m = i /\ k \in InFilePlaced /\ off'[secs[k].name] = off[secs[k].name]
      BY <1>2, <1>10, <2>3
    <2>4. CASE /\ k \in InFilePlaced /\ off'[secs[k].name] = off[secs[k].name]
               /\ m \in InFilePlaced /\ off'[secs[m].name] = off[secs[m].name]
      BY <1>4, <2>4
    <2> QED
      BY <1>9, <2>1, <2>2, <2>3, <2>4
  <1> QED
    BY <1>2, <1>7, <1>8, <1>11, <1>12 DEF FileOK

LEMMA PlacingFile ==
  ASSUME SectionsOK(secs), FileOK, MemoryOK, NEW i, NEW a, NEW o, Placing(i, a, o)
  PROVE  FileOK'
PROOF
  <1>1. /\ i \in DOMAIN secs /\ o \in Nat /\ a \in Nat
        /\ here.addr <= a /\ a - here.addr = o - here.file_offset
        /\ here'.file_offset = o + (IF secs[i].type = "nobits" THEN 0 ELSE secs[i].sh_size)
        /\ DOMAIN off' = DOMAIN off \cup {secs[i].name}
        /\ \A n \in DOMAIN off : n # secs[i].name /\ off'[n] = off[n]
        /\ off'[secs[i].name] = o
        /\ here' = [j |-> here'.j, addr |-> here'.addr, file_offset |-> here'.file_offset]
        /\ secs' = secs
    BY DEF Placing
  <1>2. here.file_offset \in Nat /\ here.addr \in Nat
    BY DEF FileOK, MemoryOK
  <1>3. here.file_offset <= o
    BY <1>1, <1>2
  <1> QED
    BY <1>1, <1>3, FileGrows

\* So does memory.
LEMMA PlacingMemory ==
  ASSUME SectionsOK(secs), MemoryOK, DOMAIN off = DOMAIN addr, NEW i, NEW a, NEW o, Placing(i, a, o)
  PROVE  MemoryOK'
PROOF
  <1>1. Others(i)
    BY OthersStay
  <1>2. /\ i \in DOMAIN secs /\ a \in Nat
        /\ InSegment(secs[i], here.j)
        /\ here.addr <= a
        /\ here'.addr = a + secs[i].sh_size
        /\ DOMAIN addr' = DOMAIN addr \cup {secs[i].name}
        /\ DOMAIN off' = DOMAIN off \cup {secs[i].name}
        /\ \A n \in DOMAIN addr : n # secs[i].name /\ addr'[n] = addr[n]
        /\ addr'[secs[i].name] = a
        /\ secs' = secs
    BY DEF Placing
  <1>3. \A k \in DOMAIN secs : secs[k].sh_size \in Nat
    <2>1. \A k \in DOMAIN secs : secs[k] \in SecRec
      BY DEF SectionsOK
    <2>2. \A s \in SecRec : s.sh_size \in Nat
      BY DEF SecRec
    <2> QED
      BY <2>1, <2>2
  <1>4. /\ here.addr \in Nat
        /\ \A n \in DOMAIN addr : addr[n] \in Nat
        /\ \A k \in DOMAIN secs : Placed(k) => "alloc" \in secs[k].flags
        /\ \A k \in DOMAIN secs : Placed(k) => End(k) <= here.addr
        /\ \A k, m \in DOMAIN secs : Placed(k) /\ Placed(m) /\ k # m =>
             End(k) <= addr[secs[m].name] \/ End(m) <= addr[secs[k].name]
    BY DEF MemoryOK
  <1>5. PICK size \in Nat : size = secs[i].sh_size
    BY <1>2, <1>3
  <1>6. here'.addr \in Nat /\ DOMAIN addr' \subseteq DOMAIN off' /\ \A n \in DOMAIN addr' : addr'[n] \in Nat
    BY <1>2, <1>4, <1>5
  <1>7. \A k \in DOMAIN secs : Placed(k)' => "alloc" \in secs[k].flags
    BY <1>1, <1>2, <1>4 DEF Others, InSegment
  <1>8. \A k \in DOMAIN secs : Placed(k) =>
          /\ addr[secs[k].name] \in Nat /\ End(k) \in Nat
          /\ End(k)' = End(k) /\ addr'[secs[k].name] = addr[secs[k].name]
          /\ End(k) <= a /\ End(k) <= here'.addr
    <2> SUFFICES ASSUME NEW k \in DOMAIN secs, Placed(k)
                 PROVE  /\ addr[secs[k].name] \in Nat /\ End(k) \in Nat
                        /\ End(k)' = End(k) /\ addr'[secs[k].name] = addr[secs[k].name]
                        /\ End(k) <= a /\ End(k) <= here'.addr
      OBVIOUS
    <2>1. addr'[secs[k].name] = addr[secs[k].name]
      BY <1>1 DEF Others
    <2>2. addr[secs[k].name] \in Nat
      BY <1>4 DEF Placed
    <2>3. End(k) \in Nat /\ End(k)' = End(k)
      BY <1>2, <1>3, <2>1, <2>2 DEF End
    <2>4. End(k) <= here.addr
      BY <1>4
    <2> QED
      BY <1>2, <1>4, <1>5, <2>1, <2>2, <2>3, <2>4
  <1>9. End(i)' = a + size /\ here'.addr = a + size
    BY <1>2, <1>5 DEF End
  <1>10. \A k \in DOMAIN secs : Placed(k)' => End(k)' <= here'.addr
    <2> SUFFICES ASSUME NEW k \in DOMAIN secs, Placed(k)'
                 PROVE  End(k)' <= here'.addr
      OBVIOUS
    <2>1. Placed(k) \/ k = i
      BY <1>1 DEF Others
    <2>2. CASE Placed(k)
      BY <1>8, <2>2
    <2>3. CASE k = i
      BY <1>2, <1>9, <2>3
    <2> QED
      BY <2>1, <2>2, <2>3
  <1>11. \A k, m \in DOMAIN secs : Placed(k)' /\ Placed(m)' /\ k # m =>
           End(k)' <= addr'[secs[m].name] \/ End(m)' <= addr'[secs[k].name]
    <2> SUFFICES ASSUME NEW k \in DOMAIN secs, NEW m \in DOMAIN secs, Placed(k)', Placed(m)', k # m
                 PROVE  End(k)' <= addr'[secs[m].name] \/ End(m)' <= addr'[secs[k].name]
      OBVIOUS
    <2>1. (Placed(k) \/ k = i) /\ (Placed(m) \/ m = i)
      BY <1>1 DEF Others
    <2>2. CASE Placed(k) /\ Placed(m)
      <3>1. End(k) <= addr[secs[m].name] \/ End(m) <= addr[secs[k].name]
        BY <1>4, <2>2
      <3> QED
        BY <1>8, <2>2, <3>1
    <2>3. CASE Placed(k) /\ m = i
      BY <1>2, <1>8, <2>3
    <2>4. CASE k = i /\ Placed(m)
      BY <1>2, <1>8, <2>4
    <2> QED
      BY <2>1, <2>2, <2>3, <2>4
  <1> QED
    BY <1>2, <1>6, <1>7, <1>10, <1>11 DEF MemoryOK

\* And the segments stay in pages of their own.
LEMMA PlacingPages ==
  ASSUME SectionsOK(secs), MemoryOK, PagesOK, here.j \in {0, 1}, NEW i, NEW a, NEW o, Placing(i, a, o)
  PROVE  PagesOK'
PROOF
  <1>1. Others(i)
    BY OthersStay
  <1>2. /\ i \in DOMAIN secs /\ a \in Nat
        /\ InSegment(secs[i], here.j)
        /\ here.addr <= a /\ here'.j = here.j
        /\ here'.addr = a + secs[i].sh_size
        /\ addr'[secs[i].name] = a
        /\ secs' = secs
    BY DEF Placing
  <1>3. secs[i].sh_size \in Nat /\ here.addr \in Nat
    <2>1. secs[i] \in SecRec
      BY <1>2 DEF SectionsOK
    <2> QED
      BY <2>1 DEF SecRec, MemoryOK
  <1>4. CASE here.j = 0
    <2>1. \A k \in DOMAIN secs : Placed(k)' => InSegment(secs[k], 0)
      BY <1>1, <1>2, <1>4 DEF PagesOK, Others
    <2> QED
      BY <1>2, <1>4, <2>1 DEF PagesOK
  <1>5. CASE here.j = 1
    <2>1. PICK b \in Nat : Boundary(b)
      BY <1>5 DEF PagesOK
    <2>2. b * Page \in Nat
      BY OutputAssumption
    <2>3. PICK p \in Nat : p = b * Page
      BY <2>2
    <2>4. /\ \A k \in DOMAIN secs : Placed(k) /\ InSegment(secs[k], 0) => End(k) <= p
          /\ \A k \in DOMAIN secs : Placed(k) /\ InSegment(secs[k], 1) => p <= addr[secs[k].name]
          /\ p <= here.addr
      BY <2>1, <2>3 DEF Boundary
    <2>5. ~InSegment(secs[i], 0)
      BY <1>2, <1>5 DEF InSegment
    <2>6. \A k \in DOMAIN secs : Placed(k) => End(k)' = End(k) /\ addr'[secs[k].name] = addr[secs[k].name]
      BY <1>1, <1>2 DEF Others, End
    <2>7. \A k \in DOMAIN secs : Placed(k)' /\ InSegment(secs[k], 0) => End(k)' <= p
      BY <1>1, <2>4, <2>5, <2>6 DEF Others
    <2>8. p <= a /\ p <= here'.addr
      BY <1>2, <1>3, <2>4
    <2>9. \A k \in DOMAIN secs : Placed(k)' /\ InSegment(secs[k], 1) => p <= addr'[secs[k].name]
      BY <1>1, <1>2, <2>4, <2>6, <2>8 DEF Others
    <2>10. Boundary(b)'
      BY <1>2, <2>3, <2>7, <2>8, <2>9 DEF Boundary
    <2>11. \A k \in DOMAIN secs : InSegment(secs[k], 0) => Placed(k)'
      BY <1>1, <1>5 DEF Others, PagesOK
    <2> QED
      BY <1>2, <1>5, <2>10, <2>11 DEF PagesOK
  <1> QED
    BY <1>4, <1>5

\* Offsets keep step with addresses.
LEMMA PlacingStep ==
  ASSUME SectionsOK(secs), MemoryOK, FileOK, StepOK, DOMAIN off = DOMAIN addr, here.j \in {0, 1},
         NEW i, NEW a, NEW o, Placing(i, a, o)
  PROVE  StepOK'
PROOF
  <1>1. Others(i)
    BY OthersStay
  <1>2. /\ i \in DOMAIN secs /\ a \in Nat /\ o \in Nat /\ ~Placed(i)
        /\ InSegment(secs[i], here.j)
        /\ here'.j = here.j
        /\ here'.addr = a + secs[i].sh_size
        /\ here'.file_offset = o + (IF secs[i].type = "nobits" THEN 0 ELSE secs[i].sh_size)
        /\ a - here.addr = o - here.file_offset
        /\ addr'[secs[i].name] = a /\ off'[secs[i].name] = o
        /\ \A k \in DOMAIN secs : ~Placed(k) /\ InSegment(secs[k], here.j) => Rank(secs[i]) <= Rank(secs[k])
        /\ secs' = secs
    BY DEF Placing
  <1>3. PICK size \in Nat : size = secs[i].sh_size
    <2>1. secs[i] \in SecRec
      BY <1>2 DEF SectionsOK
    <2> QED
      BY <2>1 DEF SecRec
  <1>4. PICK from \in Nat : from = here.addr
    BY DEF MemoryOK
  <1>5. PICK f \in Nat : f = here.file_offset
    BY DEF FileOK
  <1>6. a - o = from - f
    BY <1>2, <1>4, <1>5
  <1>7. /\ InMem' = InMem /\ InFile' = InFile
        /\ \A k \in InMem \cap InFile : /\ k \in DOMAIN secs
                                        /\ secs[k].type # "nobits"
                                        /\ InSegment(secs[k], 0) \/ InSegment(secs[k], 1)
        /\ \A k \in DOMAIN secs : ~(InSegment(secs[k], 0) /\ InSegment(secs[k], 1))
    BY <1>2 DEF InMem, InFile, InSegment
  <1>8. \A k \in DOMAIN secs : Placed(k) => Distance(k)' = Distance(k)
    BY <1>1, <1>2 DEF Others, Distance, Placed
  <1>9. Distance(i)' = from - f
    BY <1>2, <1>6 DEF Distance
  <1>10. i \in InFile => ToCome(i)
    BY <1>2 DEF InFile, ToCome
  <1>11. here.j = 0 \/ (\E k \in DOMAIN secs : ToCome(k)) =>
           /\ (from - f) % Page = 0
           /\ \A k \in InMem \cap InFile : Placed(k) /\ InSegment(secs[k], here.j) => Distance(k) = from - f
    BY <1>4, <1>5 DEF StepOK
  <1>12. ASSUME NEW k \in InMem \cap InFile, Placed(k)'
         PROVE  Distance(k)' % Page = 0
    <2>1. CASE Placed(k)
      BY <1>8, <1>7, <2>1 DEF StepOK
    <2>2. CASE k = i
      BY <1>2, <1>9, <1>10, <1>11, <2>2
    <2> QED
      BY <1>1, <1>7, <1>12, <2>1, <2>2 DEF Others
  <1>13. ASSUME NEW k \in InMem \cap InFile, NEW m \in InMem \cap InFile, Placed(k)', Placed(m)',
                InSegment(secs[k], 0) = InSegment(secs[m], 0)
         PROVE  Distance(k)' = Distance(m)'
    <2>1. (Placed(k) \/ k = i) /\ (Placed(m) \/ m = i)
      BY <1>1, <1>7, <1>13 DEF Others
    <2>2. CASE Placed(k) /\ Placed(m)
      <3>1. Distance(k) = Distance(m)
        BY <1>13, <2>2 DEF StepOK
      <3> QED
        BY <1>7, <1>8, <2>2, <3>1
    <2>3. InSegment(secs[k], here.j) <=> InSegment(secs[m], here.j)
      <3>1. CASE here.j = 0
        BY <1>13, <3>1
      <3>2. CASE here.j = 1
        BY <1>7, <1>13, <3>2
      <3> QED
        BY <3>1, <3>2
    <2>4. CASE Placed(k) /\ m = i
      <3>1. InSegment(secs[k], here.j) /\ m \in InFile
        BY <1>2, <2>3, <2>4
      <3>2. Distance(k) = from - f
        BY <1>2, <1>10, <1>11, <2>4, <3>1
      <3> QED
        BY <1>7, <1>8, <1>9, <2>4, <3>2
    <2>5. CASE k = i /\ Placed(m)
      <3>1. InSegment(secs[m], here.j) /\ k \in InFile
        BY <1>2, <2>3, <2>5
      <3>2. Distance(m) = from - f
        BY <1>2, <1>10, <1>11, <2>5, <3>1
      <3> QED
        BY <1>7, <1>8, <1>9, <2>5, <3>2
    <2>6. CASE k = i /\ m = i
      BY <2>6
    <2> QED
      BY <2>1, <2>2, <2>4, <2>5, <2>6
  <1>14. ASSUME here.j = 0 \/ \E k \in DOMAIN secs : ToCome(k)'
         PROVE  /\ (here'.addr - here'.file_offset) % Page = 0
                /\ \A k \in InMem \cap InFile : Placed(k)' /\ InSegment(secs[k], here.j)
                                                => Distance(k)' = here'.addr - here'.file_offset
    <2>1. secs[i].type # "nobits"
      <3>1. secs[i] \in SecRec /\ SectionOK(secs[i])
        BY <1>2 DEF SectionsOK
      <3>2. CASE here.j = 0
        BY <1>2, <3>1, <3>2 DEF SectionOK, InSegment
      <3>3. ASSUME NEW k \in DOMAIN secs, ToCome(k)' PROVE secs[i].type # "nobits"
        <4>1. ~Placed(k) /\ InSegment(secs[k], here.j) /\ secs[k].type # "nobits"
          BY <1>1, <1>2, <3>3 DEF ToCome, Others
        <4>2. secs[k] \in SecRec /\ SectionOK(secs[k])
          BY DEF SectionsOK
        <4>3. Rank(secs[k]) \in 0 .. 4 /\ Rank(secs[k]) # 4
          BY <4>1, <4>2, Ranked
        <4>4. Rank(secs[i]) \in 0 .. 4 /\ (secs[i].type = "nobits" => Rank(secs[i]) = 4)
          BY <3>1, Ranked
        <4>5. Rank(secs[i]) <= Rank(secs[k])
          BY <1>2, <4>1
        <4> QED
          BY <4>3, <4>4, <4>5
      <3> QED
        BY <1>14, <3>2, <3>3
    <2>2. i \in InFile
      BY <1>2, <2>1 DEF InFile
    <2>3. here'.addr - here'.file_offset = from - f
      BY <1>2, <1>3, <1>6, <2>1
    <2>4. /\ (from - f) % Page = 0
          /\ \A k \in InMem \cap InFile : Placed(k) /\ InSegment(secs[k], here.j) => Distance(k) = from - f
      BY <1>2, <1>10, <1>11, <2>2
    <2>5. \A k \in InMem \cap InFile : Placed(k)' /\ InSegment(secs[k], here.j) => Distance(k)' = from - f
      <3> SUFFICES ASSUME NEW k \in InMem \cap InFile, Placed(k)', InSegment(secs[k], here.j)
                   PROVE  Distance(k)' = from - f
        OBVIOUS
      <3>1. Placed(k) \/ k = i
        BY <1>1, <1>7 DEF Others
      <3>2. CASE Placed(k)
        BY <1>7, <1>8, <2>4, <3>2
      <3>3. CASE k = i
        BY <1>9, <3>3
      <3> QED
        BY <3>1, <3>2, <3>3
    <2> QED
      BY <2>3, <2>4, <2>5
  <1>15. \A k, m \in InMem \cap InFile : Placed(k)' /\ Placed(m)' =>
           /\ Distance(k)' % Page = 0
           /\ InSegment(secs[k], 0) = InSegment(secs[m], 0) => Distance(k)' = Distance(m)'
    BY <1>12, <1>13
  <1> QED
    BY <1>2, <1>7, <1>14, <1>15 DEF StepOK

\* Sections are placed by rank.
LEMMA PlacingRank ==
  ASSUME SectionsOK(secs), RankOK, NEW i, NEW a, NEW o, Placing(i, a, o)
  PROVE  RankOK'
PROOF
  <1>1. Others(i)
    BY OthersStay
  <1>2. /\ i \in DOMAIN secs /\ here'.j = here.j /\ secs' = secs
        /\ \A k \in DOMAIN secs : ~Placed(k) /\ InSegment(secs[k], here.j) => Rank(secs[i]) <= Rank(secs[k])
    BY DEF Placing
  <1>3. \A k, m \in DOMAIN secs :
          Placed(k)' /\ ~Placed(m)' /\ InSegment(secs[k], here.j) /\ InSegment(secs[m], here.j)
            => Rank(secs[k]) <= Rank(secs[m])
    BY <1>1, <1>2 DEF Others, RankOK
  <1> QED
    BY <1>2, <1>3 DEF RankOK

\* The relocation sections come one after the other.
LEMMA PlacingPiece ==
  ASSUME SectionsOK(secs), MemoryOK, PagesOK, RankOK, PieceOK, here.j \in {0, 1},
         NEW i, NEW a, NEW o, Placing(i, a, o)
  PROVE  PieceOK'
PROOF
  <1>1. Others(i)
    BY OthersStay
  <1>2. /\ i \in DOMAIN secs /\ a \in Nat /\ ~Placed(i)
        /\ InSegment(secs[i], here.j)
        /\ secs[i].align = 1 => a = here.addr
        /\ here'.addr = a + secs[i].sh_size
        /\ addr'[secs[i].name] = a
        /\ \A k \in DOMAIN secs : ~Placed(k) /\ InSegment(secs[k], here.j) => Rank(secs[i]) <= Rank(secs[k])
        /\ secs' = secs
    BY DEF Placing
  <1>3. PICK lo \in Nat, hi \in Nat : Filled(lo, hi)
    BY DEF PieceOK
  <1>4. PICK from \in Nat : from = here.addr
    BY DEF MemoryOK
  <1>5. \A k \in DOMAIN secs : secs[k] \in SecRec /\ SectionOK(secs[k])
    BY DEF SectionsOK
  <1>6. PICK size \in Nat : size = secs[i].sh_size
    BY <1>2, <1>5 DEF SecRec
  <1> DEFINE R == {k \in RelSections : Placed(k)}
             W == UNION {Span(k) : k \in R}
  <1>7. W = lo .. hi - 1 /\ \A k \in RelSections : ~Placed(k) => hi = from \/ \A m \in RelSections : ~Placed(m)
    BY <1>3, <1>4 DEF Filled
  <1>8. RelSections' = RelSections /\ RelSections \subseteq DOMAIN secs
    BY <1>2 DEF RelSections
  <1>9. \A k \in R : Span(k)' = Span(k)
    BY <1>1, <1>2, <1>8 DEF Others, Span
  <1> DEFINE Q == {k \in RelSections' : Placed(k)'}
  <1>10. \A k : k \in Q <=> k \in R \/ (k = i /\ i \in RelSections)
    BY <1>1, <1>8 DEF Others
  <1>11. R = {} => W = {}
    OBVIOUS
  <1> HIDE DEF R, Q
  <1>12. UNION {Span(k)' : k \in Q} = IF i \in RelSections THEN W \cup Span(i)' ELSE W
    <2>1. \A x : x \in UNION {Span(k)' : k \in Q} <=> \E k \in Q : x \in Span(k)'
      OBVIOUS
    <2>2. \A x : x \in W <=> \E k \in R : x \in Span(k)
      OBVIOUS
    <2>3. CASE i \in RelSections
      <3>1. \A x : (\E k \in Q : x \in Span(k)') <=> (\E k \in R : x \in Span(k)) \/ x \in Span(i)'
        BY <1>9, <1>10, <2>3
      <3>2. \A x : x \in UNION {Span(k)' : k \in Q} <=> x \in W \/ x \in Span(i)'
        BY ONLY <2>1, <2>2, <3>1
      <3> HIDE DEF W
      <3>3. UNION {Span(k)' : k \in Q} = W \cup Span(i)'
        BY ONLY <3>2
      <3> QED
        BY <2>3, <3>3
    <2>4. CASE i \notin RelSections
      <3>1. \A x : (\E k \in Q : x \in Span(k)') <=> (\E k \in R : x \in Span(k))
        BY <1>9, <1>10, <2>4
      <3>2. \A x : x \in UNION {Span(k)' : k \in Q} <=> x \in W
        BY ONLY <2>1, <2>2, <3>1
      <3> HIDE DEF W
      <3>3. UNION {Span(k)' : k \in Q} = W
        BY ONLY <3>2
      <3> QED
        BY <2>4, <3>3
    <2> QED
      BY <2>3, <2>4
  <1> HIDE DEF W
  <1>13. \A k \in R : k \in RelSections /\ k \in DOMAIN secs /\ Placed(k)
    BY <1>8 DEF R
  <1>14. (\A m \in RelSections : ~Placed(m)) => R = {}
    BY DEF R
  <1>15. CASE i \in RelSections
    <2>1. a = from
      <3>1. secs[i].type = "rel"
        BY <1>15 DEF RelSections
      <3>2. secs[i].align = 1
        BY <1>2, <1>5, <3>1 DEF SectionOK
      <3> QED
        BY <1>2, <1>4, <3>2
    <2>2. Span(i)' = a .. a + size - 1
      BY <1>2, <1>6 DEF Span
    <2>3. W = {} \/ (hi = from /\ lo <= hi - 1)
      <3>1. hi = from \/ W = {}
        BY <1>2, <1>7, <1>11, <1>14, <1>15
      <3> QED
        BY <1>7, <3>1
    <2>4. PICK l \in Nat : W \cup Span(i)' = l .. (a + size) - 1
      <3>1. CASE W = {}
        <4>1. W \cup Span(i)' = a .. (a + size) - 1 /\ a \in Nat
          BY <1>2, <2>2, <3>1
        <4> HIDE DEF Span
        <4> QED
          BY <4>1, Zenon
      <3>2. CASE hi = from /\ lo <= hi - 1
        <4>1. W \cup Span(i)' = lo .. (a + size) - 1
          BY <1>7, <2>1, <2>2, <3>2
        <4> QED
          BY <4>1, Zenon
      <3> QED
        BY <2>3, <3>1, <3>2
    <2>5. UNION {Span(k)' : k \in Q} = l .. (a + size) - 1
      BY <1>12, <1>15, <2>4
    <2>6. here'.addr = a + size /\ a + size \in Nat
      BY <1>2, <1>6
    <2>7. Filled(l, a + size)'
      BY <2>5, <2>6 DEF Filled, Q
    <2> QED
      BY <2>6, <2>7 DEF PieceOK
  <1>16. CASE i \notin RelSections
    <2>1. ASSUME NEW k \in RelSections, ~Placed(k)', NEW m \in RelSections, Placed(m)'
          PROVE  FALSE
      <3>1. ~Placed(k) /\ Placed(m) /\ k \in DOMAIN secs /\ m \in DOMAIN secs
        BY <1>1, <1>8, <1>16, <2>1 DEF Others
      <3>2. /\ secs[k].type = "rel" /\ "alloc" \in secs[k].flags /\ "write" \notin secs[k].flags
            /\ secs[m].type = "rel" /\ "alloc" \in secs[m].flags /\ "write" \notin secs[m].flags
        <4>1. secs[k].type = "rel" /\ secs[m].type = "rel" /\ "alloc" \in secs[k].flags /\ "alloc" \in secs[m].flags
          BY DEF RelSections
        <4> QED
          BY <1>5, <3>1, <4>1 DEF SectionOK
      <3>3. InSegment(secs[k], 0) /\ InSegment(secs[m], 0)
        BY <3>2 DEF InSegment
      <3>4. here.j = 0
        BY <3>1, <3>3 DEF PagesOK
      <3>5. Rank(secs[i]) <= Rank(secs[k]) /\ Rank(secs[m]) <= Rank(secs[i])
        BY <1>2, <3>1, <3>3, <3>4 DEF RankOK
      <3>6. Rank(secs[k]) = 2 /\ Rank(secs[m]) = 2 /\ Rank(secs[i]) \in 0 .. 4
        BY <1>2, <1>5, <3>1, <3>2, Ranked
      <3>7. Rank(secs[i]) = 2
        BY <3>5, <3>6
      <3>8. secs[i].type = "rel"
        BY <1>2, <1>5, <3>7, Ranked
      <3>9. "alloc" \in secs[i].flags
        BY <1>2 DEF InSegment
      <3> QED
        BY <1>2, <1>16, <3>8, <3>9 DEF RelSections
    <2>2. UNION {Span(k)' : k \in Q} = lo .. hi - 1
      BY <1>7, <1>12, <1>16
    <2>3. \A k \in RelSections' : ~Placed(k)' => \A m \in RelSections' : ~Placed(m)'
      BY <1>8, <2>1
    <2>4. Filled(lo, hi)'
      BY <2>2, <2>3 DEF Filled, Q
    <2> QED
      BY <2>4 DEF PieceOK
  <1> QED
    BY <1>15, <1>16

\* The phases in which the places in .bss count from its start.
FromStart == {"segments", "dynamic", "sections", "symbols"}

\* The places stay as they are while nothing is done to symbols or relocations.
LEMMA PlacesWait ==
  ASSUME ImagePlaces, CopiesOK, secs' = secs, symtab_section' = symtab_section, rels' = rels,
         DOMAIN dyn.syms \subseteq DOMAIN dyn'.syms,
         \A k \in DOMAIN dyn.syms : dyn'.syms[k].size = dyn.syms[k].size,
         phase \in FromStart, phase' \in FromStart
  PROVE  ImagePlaces' /\ CopiesOK'
PROOF
  <1>1. \A k \in DOMAIN rels[".bss"] : rels[".bss"][k].type = "COPY" => rels[".bss"][k].sym \in DOMAIN dyn.syms
    BY DEF CopiesOK
  <1>2. Copied(rels[".bss"], dyn'.syms, 0) = Copied(rels[".bss"], dyn.syms, 0)
    <2>1. PICK list : list = rels[".bss"]
      OBVIOUS
    <2>2. PICK old : old = dyn.syms
      OBVIOUS
    <2>3. PICK new : new = dyn'.syms
      OBVIOUS
    <2>4. /\ DOMAIN old \subseteq DOMAIN new /\ \A i \in DOMAIN old : new[i].size = old[i].size
          /\ \A k \in DOMAIN list : list[k].type = "COPY" => list[k].sym \in DOMAIN old
      BY <1>1, <2>1, <2>2, <2>3
    <2>5. \A d : Copied(list, new, d) = Copied(list, old, d)
      BY ONLY <2>4, CopiesStay
    <2> QED
      BY <2>1, <2>2, <2>3, <2>5
  <1>3. \A i \in DOMAIN secs : secs[i].name = ".bss" =>
          Fit(Variables(symtab_section) \cup Copied(rels[".bss"], dyn.syms, 0), 0, secs[i].sh_size)
    BY DEF ImagePlaces, FromStart
  <1>4. ImagePlaces'
    <2> SUFFICES ASSUME NEW i \in DOMAIN secs', secs'[i].name = ".bss"
                 PROVE  Fit(Variables(symtab_section') \cup Copied(rels'[".bss"], dyn'.syms, 0), 0, secs'[i].sh_size)
      BY DEF ImagePlaces, FromStart
    <2> QED
      BY <1>2, <1>3
  <1>5. CopiesOK'
    BY <1>1 DEF CopiesOK
  <1> QED
    BY <1>4, <1>5

\* Placing a section keeps all of it.
LEMMA PlaceStep ==
  ASSUME LateInv, PlaceSection
  PROVE  LateInv' /\ phase' \in Late
PROOF
  <1>1. /\ phase = "segments"
        /\ UNCHANGED <<mode, phase, secs, symtab_section, dyn, rels>>
    BY DEF PlaceSection
  <1>2. /\ SectionsOK(secs) /\ FileOK /\ ".bss" \in DOMAIN rels /\ DOMAIN off = DOMAIN addr
        /\ DynRec(dyn) /\ Image /\ here.j \in {0, 1} /\ RankOK
        /\ MemoryOK /\ PagesOK /\ StepOK /\ PieceOK /\ CopiesOK
        /\ symtab_section \in Seq(SymRec) /\ ImagePlaces
    BY <1>1 DEF LateInv, LayoutOK
  <1>3. PICK i, a, o : Placing(i, a, o)
    BY PlacingIs
  <1>4. FileOK' /\ MemoryOK' /\ PagesOK' /\ StepOK' /\ RankOK' /\ PieceOK'
    BY <1>2, <1>3, PlacingFile, PlacingMemory, PlacingPages, PlacingStep, PlacingRank, PlacingPiece
  <1>5. here'.j = here.j /\ DOMAIN off' = DOMAIN addr'
    BY <1>2, <1>3 DEF Placing
  <1>6. ImagePlaces' /\ CopiesOK'
    <2>1. phase \in FromStart /\ phase' \in FromStart
      BY <1>1 DEF FromStart
    <2>2. dyn' = dyn
      BY <1>1
    <2> QED
      BY <1>1, <1>2, <2>1, <2>2, PlacesWait
  <1>7. phase' = "segments" /\ SectionsOK(secs') /\ ".bss" \in DOMAIN rels' /\ DynRec(dyn') /\ Image'
        /\ symtab_section' \in Seq(SymRec)
    BY <1>1, <1>2 DEF Image
  <1>8. LateInv'
    BY <1>2, <1>4, <1>5, <1>6, <1>7 DEF LateInv, LayoutOK
  <1> QED
    BY <1>7, <1>8 DEF Late

\* Where the second segment begins.
LEMMA SecondBegins ==
  ASSUME NEW a \in Nat
  PROVE  /\ SecondSegment(a) \in Nat /\ a <= SecondSegment(a)
         /\ \A f \in Nat : (a - f) % Page = 0 => (SecondSegment(a) - f) % Page = 0
         /\ \E b \in Nat : a <= b * Page /\ b * Page <= SecondSegment(a)
PROOF
  <1>1. PICK p \in Nat \ {0} : p = Page
    BY OutputAssumption
  <1>2. PICK q \in Nat : q = a \div p
    OBVIOUS
  <1>3. PICK r \in Nat : r = a % p
    OBVIOUS
  <1>4. a = p * q + r /\ r < p
    BY <1>2, <1>3
  <1>5. PICK x \in Nat : x = q * p
    OBVIOUS
  <1>6. a = x + r
    BY <1>4, <1>5
  <1>7. SecondSegment(a) = IF r # 0 THEN a + p ELSE a
    BY <1>1, <1>3 DEF SecondSegment
  <1>8. CASE r = 0
    <2>1. SecondSegment(a) = a /\ q * Page = a
      BY <1>1, <1>5, <1>6, <1>7, <1>8
    <2> QED
      BY <2>1
  <1>9. CASE r # 0
    <2>1. SecondSegment(a) = a + p
      BY <1>7, <1>9
    <2>2. (q + 1) * Page = x + p
      BY <1>1, <1>5
    <2>3. a <= x + p /\ x + p <= a + p
      BY <1>4, <1>6
    <2>4. \A f \in Nat : (a - f) % p = 0 => (a + p - f) % p = 0
      <3> TAKE f \in Nat
      <3> HAVE (a - f) % p = 0
      <3>1. p % p = 0
        BY Multiples
      <3>2. a - f \in Int /\ p \in Int /\ (a - f) + p = a + p - f
        OBVIOUS
      <3>3. ((a - f) + p) % p = 0
        BY ONLY <3>1, <3>2, (a - f) % p = 0, p \in Nat \ {0}, SumOfMultiples
      <3> QED
        BY <3>2, <3>3
    <2>5. q + 1 \in Nat /\ a + p \in Nat /\ a <= a + p
      OBVIOUS
    <2>6. a <= (q + 1) * Page /\ (q + 1) * Page <= SecondSegment(a)
      BY <2>1, <2>2, <2>3
    <2>7. \E b \in Nat : a <= b * Page /\ b * Page <= SecondSegment(a)
      BY <2>5, <2>6, Zenon
    <2>8. \A f \in Nat : (a - f) % Page = 0 => (SecondSegment(a) - f) % Page = 0
      BY <1>1, <2>1, <2>4
    <2>9. SecondSegment(a) \in Nat /\ a <= SecondSegment(a)
      BY <2>1, <2>5
    <2> QED
      BY <2>7, <2>8, <2>9
  <1> QED
    BY <1>8, <1>9

\* From one segment to the next, and to the end of them.
LEMMA NextStep ==
  ASSUME LateInv, NextSegment
  PROVE  LateInv' /\ phase' \in Late
PROOF
  <1>1. /\ phase = "segments" /\ here.j < 2
        /\ ~\E i \in DOMAIN secs : Unplaced(i) /\ InSegment(secs[i], here.j)
        /\ here' = [here EXCEPT !.j = @ + 1,
                                !.addr = IF here.j = 0 THEN SecondSegment(@) ELSE @]
        /\ phase' = IF here.j = 1 THEN "dynamic" ELSE phase
        /\ UNCHANGED <<mode, secs, symtab_section, dyn, rels, addr, off>>
    BY DEF NextSegment
  <1>2. /\ SectionsOK(secs) /\ FileOK /\ ".bss" \in DOMAIN rels /\ DOMAIN off = DOMAIN addr
        /\ DynRec(dyn) /\ Image /\ here.j \in {0, 1} /\ RankOK
        /\ MemoryOK /\ PagesOK /\ StepOK /\ PieceOK /\ CopiesOK
        /\ symtab_section \in Seq(SymRec) /\ ImagePlaces
    BY <1>1 DEF LateInv, LayoutOK
  <1>3. PICK from \in Nat : from = here.addr
    BY <1>2 DEF MemoryOK
  <1>4. PICK to : to = IF here.j = 0 THEN SecondSegment(from) ELSE from
    OBVIOUS
  <1>5. PICK f \in Nat : f = here.file_offset
    BY <1>2 DEF FileOK
  <1>6. here = [j |-> here.j, addr |-> from, file_offset |-> f]
    BY <1>2, <1>3, <1>5 DEF FileOK
  <1>7. PICK j \in {0, 1} : j = here.j
    BY <1>2
  <1>8. here' = [j |-> j + 1, addr |-> to, file_offset |-> f]
    <2>1. here' = [here EXCEPT !.j = here.j + 1,
                               !.addr = IF here.j = 0 THEN SecondSegment(here.addr) ELSE here.addr]
      BY <1>1, Zenon
    <2>2. here' = [here EXCEPT !.j = j + 1, !.addr = to]
      BY <1>3, <1>4, <1>7, <2>1, Zenon
    <2>3. here = [j |-> j, addr |-> from, file_offset |-> f]
      BY <1>6, <1>7, Zenon
    <2>4. here' = [[j |-> j, addr |-> from, file_offset |-> f] EXCEPT !.j = j + 1, !.addr = to]
      BY <2>2, <2>3, Zenon
    <2> QED
      BY ONLY <2>4
  <1>9. /\ here'.j = j + 1 /\ here'.addr = to /\ here'.file_offset = f
        /\ here' = [j |-> here'.j, addr |-> here'.addr, file_offset |-> here'.file_offset]
    BY <1>8
  <1>10. /\ to \in Nat /\ from <= to
         /\ (from - f) % Page = 0 /\ j = 0 => (to - f) % Page = 0
         /\ j = 0 => \E b \in Nat : from <= b * Page /\ b * Page <= to
    BY <1>4, <1>7, SecondBegins
  <1>11. \A i \in DOMAIN secs : /\ Placed(i)' <=> Placed(i)
                                /\ Span(i)' = Span(i) /\ End(i)' = End(i) /\ Distance(i)' = Distance(i)
    BY <1>1 DEF Placed, Span, End, Distance
  <1>12. /\ InMem' = InMem /\ InFile' = InFile /\ RelSections' = RelSections
         /\ InFilePlaced' = InFilePlaced
    BY <1>1 DEF InMem, InFile, RelSections, InFilePlaced
  <1>13. \A i \in DOMAIN secs : InSegment(secs[i], j) => Placed(i)
    BY <1>1, <1>7 DEF Unplaced, Placed
  <1>14. \A i \in DOMAIN secs : InSegment(secs[i], 0) => Placed(i)
    <2>1. CASE j = 0
      BY <1>13, <2>1
    <2>2. CASE j = 1
      BY <1>2, <1>7, <2>2 DEF PagesOK
    <2> QED
      BY <2>1, <2>2
  <1>15. \A i \in DOMAIN secs : /\ ~(InSegment(secs[i], 0) /\ InSegment(secs[i], 1))
                                /\ InSegment(secs[i], 2) <=> InSegment(secs[i], 0)
                                /\ "alloc" \in secs[i].flags => InSegment(secs[i], 0) \/ InSegment(secs[i], 1)
    BY DEF InSegment
  <1>16. j = 0 => \A i \in DOMAIN secs : Placed(i) => InSegment(secs[i], 0)
    BY <1>2, <1>7 DEF PagesOK
  <1>17. FileOK'
    BY <1>1, <1>2, <1>5, <1>9, <1>12 DEF FileOK
  <1>18. MemoryOK'
    <2>1. \A i \in DOMAIN secs : Placed(i) => End(i) <= to
      <3> SUFFICES ASSUME NEW i \in DOMAIN secs, Placed(i) PROVE End(i) <= to
        OBVIOUS
      <3>1. End(i) <= from /\ addr[secs[i].name] \in Nat
        BY <1>2, <1>3 DEF MemoryOK, Placed
      <3>2. secs[i] \in SecRec
        BY <1>2 DEF SectionsOK
      <3>3. End(i) \in Nat
        BY <3>1, <3>2 DEF End, SecRec
      <3> QED
        BY <1>10, <3>1, <3>3
    <2> QED
      BY <1>1, <1>2, <1>9, <1>10, <1>11, <2>1 DEF MemoryOK
  <1>19. PagesOK'
    <2>1. \E b \in Nat : Boundary(b)'
      <3>1. CASE j = 0
        <4>1. PICK b \in Nat : from <= b * Page /\ b * Page <= to
          BY <1>10, <3>1
        <4>2. PICK p \in Nat : p = b * Page
          BY OutputAssumption
        <4>3. \A i \in DOMAIN secs : Placed(i) => End(i) <= p
          <5> SUFFICES ASSUME NEW i \in DOMAIN secs, Placed(i) PROVE End(i) <= p
            OBVIOUS
          <5>1. End(i) <= from /\ addr[secs[i].name] \in Nat
            BY <1>2, <1>3 DEF MemoryOK, Placed
          <5>2. secs[i] \in SecRec
            BY <1>2 DEF SectionsOK
          <5>3. End(i) \in Nat
            BY <5>1, <5>2 DEF End, SecRec
          <5> QED
            BY <4>1, <4>2, <5>1, <5>3
        <4>4. \A i \in DOMAIN secs : ~(Placed(i) /\ InSegment(secs[i], 1))
          BY <1>15, <1>16, <3>1
        <4>5. Boundary(b)'
          BY <1>1, <1>9, <1>11, <4>1, <4>2, <4>3, <4>4 DEF Boundary
        <4> QED
          BY <4>5
      <3>2. CASE j = 1
        <4>1. PICK b \in Nat : Boundary(b)
          BY <1>2, <1>7, <3>2 DEF PagesOK
        <4>2. to = from
          BY <1>4, <1>7, <3>2
        <4>3. Boundary(b)'
          BY <1>1, <1>3, <1>9, <1>11, <4>1, <4>2 DEF Boundary
        <4> QED
          BY <4>3
      <3> QED
        BY <3>1, <3>2
    <2>2. here'.j # 0
      BY <1>7, <1>9
    <2> QED
      BY <1>1, <1>11, <1>14, <2>1, <2>2 DEF PagesOK
  <1>20. StepOK'
    <2>1. \A i, k \in InMem \cap InFile : Placed(i)' /\ Placed(k)' =>
            /\ Distance(i)' % Page = 0
            /\ InSegment(secs[i], 0) = InSegment(secs[k], 0) => Distance(i)' = Distance(k)'
      <3>1. \A i \in InMem : i \in DOMAIN secs
        BY DEF InMem
      <3> QED
        BY <1>2, <1>11, <3>1 DEF StepOK
    <2>2. ASSUME here'.j = 0 \/ \E i \in DOMAIN secs : ToCome(i)'
          PROVE  /\ (to - f) % Page = 0
                 /\ \A i \in InMem \cap InFile : Placed(i)' /\ InSegment(secs[i], here'.j) => Distance(i)' = to - f
      <3>1. PICK i \in DOMAIN secs : ToCome(i)'
        BY <1>7, <1>9, <2>2
      <3>2. ~Placed(i) /\ InSegment(secs[i], j + 1)
        BY <1>1, <1>9, <1>11, <3>1 DEF ToCome
      <3>3. j = 0
        BY <1>14, <1>15, <3>2
      <3>4. (from - f) % Page = 0
        BY <1>2, <1>3, <1>5, <1>7, <3>3 DEF StepOK
      <3>5. \A k \in InMem \cap InFile : ~(Placed(k)' /\ InSegment(secs[k], 1))
        BY <1>11, <1>15, <1>16, <3>3 DEF InMem
      <3> QED
        BY <1>9, <1>10, <3>3, <3>4, <3>5
    <2> QED
      BY <1>1, <1>9, <1>12, <2>1, <2>2 DEF StepOK
  <1>21. PieceOK'
    <2>1. PICK lo \in Nat, hi \in Nat : Filled(lo, hi)
      BY <1>2 DEF PieceOK
    <2>2. \A i \in RelSections : i \in DOMAIN secs /\ InSegment(secs[i], 0)
      <3>1. \A i \in RelSections : i \in DOMAIN secs /\ secs[i].type = "rel" /\ "alloc" \in secs[i].flags
        BY DEF RelSections
      <3>2. \A i \in RelSections : "write" \notin secs[i].flags
        BY <1>2, <3>1 DEF SectionsOK, SectionOK
      <3> QED
        BY <3>1, <3>2 DEF InSegment
    <2>3. \A i \in RelSections : Placed(i)
      BY <1>14, <2>2
    <2>4. {k \in RelSections' : Placed(k)'} = {k \in RelSections : Placed(k)}
      BY <1>11, <1>12, <2>2
    <2>5. PICK R : R = {k \in RelSections : Placed(k)}
      OBVIOUS
    <2>6. UNION {Span(i)' : i \in R} = UNION {Span(i) : i \in R}
      BY <1>11, <2>2, <2>5
    <2>7. Filled(lo, hi)'
      BY <1>11, <1>12, <2>1, <2>2, <2>3, <2>4, <2>5, <2>6 DEF Filled
    <2> QED
      BY <2>7 DEF PieceOK
  <1>22. ImagePlaces' /\ CopiesOK'
    <2>1. phase \in FromStart /\ phase' \in FromStart
      BY <1>1 DEF FromStart
    <2>2. dyn' = dyn
      BY <1>1
    <2> QED
      BY <1>1, <1>2, <2>1, <2>2, PlacesWait
  <1>23. phase' = "segments" => here'.j \in {0, 1} /\ RankOK'
    <2> SUFFICES ASSUME phase' = "segments" PROVE here'.j \in {0, 1} /\ RankOK'
      OBVIOUS
    <2>1. j = 0
      BY <1>1, <1>7
    <2>2. \A i \in DOMAIN secs : ~(Placed(i)' /\ InSegment(secs[i], 1))
      BY <1>11, <1>15, <1>16, <2>1
    <2> QED
      BY <1>1, <1>9, <2>1, <2>2 DEF RankOK
  <1>24. phase' # "segments" => phase' = "dynamic" /\ here'.j = 2 /\ AllPlaced'
    <2> SUFFICES ASSUME phase' # "segments" PROVE phase' = "dynamic" /\ here'.j = 2 /\ AllPlaced'
      OBVIOUS
    <2>1. j = 1
      BY <1>1, <1>7
    <2>2. \A i \in InMem : Placed(i)
      BY <1>13, <1>14, <1>15, <2>1 DEF InMem
    <2>3. \A i \in InMem : Placed(i)'
      BY <1>11, <2>2 DEF InMem
    <2>4. phase' = "dynamic" /\ here'.j = 2
      BY <1>1, <1>7, <1>9, <2>1
    <2> QED
      BY <1>12, <2>3, <2>4 DEF AllPlaced
  <1>25. phase' \in {"segments", "dynamic"} /\ SectionsOK(secs') /\ ".bss" \in DOMAIN rels' /\ DynRec(dyn') /\ Image'
        /\ symtab_section' \in Seq(SymRec) /\ DOMAIN off' = DOMAIN addr'
    BY <1>1, <1>2 DEF Image
  <1>26. LateInv'
    BY <1>17, <1>18, <1>19, <1>20, <1>21, <1>22, <1>23, <1>24, <1>25 DEF LateInv, LayoutOK
  <1> QED
    BY <1>25, <1>26 DEF Late

\* Nothing of layout changes.
LEMMA LayoutStays ==
  ASSUME UNCHANGED <<secs, addr, off, here>>
  PROVE  /\ SectionsOK(secs)' <=> SectionsOK(secs)
         /\ FileOK' <=> FileOK
         /\ LayoutOK' <=> LayoutOK
         /\ AllPlaced' <=> AllPlaced
         /\ InFile' = InFile /\ InFilePlaced' = InFilePlaced
PROOF
  <1>1. /\ InMem' = InMem /\ InFile' = InFile /\ RelSections' = RelSections
        /\ \A i : /\ Placed(i)' <=> Placed(i)
                  /\ Span(i)' = Span(i) /\ End(i)' = End(i) /\ Distance(i)' = Distance(i)
                  /\ ToCome(i)' <=> ToCome(i)
    BY DEF InMem, InFile, RelSections, Placed, Span, End, Distance, ToCome
  <1>2. InFilePlaced' = InFilePlaced
    BY <1>1 DEF InFilePlaced
  <1>3. {k \in RelSections' : Placed(k)'} = {k \in RelSections : Placed(k)}
    BY <1>1
  <1>4. \A lo, hi : Filled(lo, hi)' <=> Filled(lo, hi)
    <2> TAKE lo, hi
    <2>1. PICK R : R = {k \in RelSections : Placed(k)}
      OBVIOUS
    <2>2. UNION {Span(i)' : i \in R} = UNION {Span(i) : i \in R}
      BY <1>1
    <2> QED
      BY <1>1, <1>3, <2>1, <2>2 DEF Filled
  <1>5. PieceOK' <=> PieceOK
    BY <1>4 DEF PieceOK
  <1>6. \A b : Boundary(b)' <=> Boundary(b)
    BY <1>1 DEF Boundary
  <1>7. PagesOK' <=> PagesOK
    BY <1>1, <1>6 DEF PagesOK
  <1>8. MemoryOK' <=> MemoryOK
    BY <1>1 DEF MemoryOK
  <1>9. StepOK' <=> StepOK
    BY <1>1 DEF StepOK
  <1>10. FileOK' <=> FileOK
    BY <1>2 DEF FileOK
  <1>11. AllPlaced' <=> AllPlaced
    BY <1>1 DEF AllPlaced
  <1>12. LayoutOK' <=> LayoutOK
    BY <1>5, <1>7, <1>8, <1>9 DEF LayoutOK
  <1> QED
    BY <1>1, <1>2, <1>10, <1>11, <1>12

\* The loader's tables get their addresses; no size of a symbol changes.
LEMMA FinishStep ==
  ASSUME LateInv, FinishDynamic
  PROVE  LateInv' /\ phase' \in Late
PROOF
  <1>1. /\ phase = "dynamic" /\ phase' = "sections"
        /\ UNCHANGED <<mode, secs, symtab_section, rels, addr, off, here>>
    BY DEF FinishDynamic
  <1>2. /\ SectionsOK(secs) /\ FileOK /\ ".bss" \in DOMAIN rels
        /\ DynRec(dyn) /\ Image /\ LayoutOK /\ AllPlaced /\ here.j = 2 /\ CopiesOK
        /\ symtab_section \in Seq(SymRec) /\ ImagePlaces
    BY <1>1 DEF LateInv
  <1>3. /\ SectionsOK(secs') /\ FileOK' /\ LayoutOK' /\ AllPlaced' /\ here'.j = 2
    BY <1>1, <1>2, LayoutStays
  <1>4. \/ dyn' = dyn
        \/ dyn'.syms = [k \in DOMAIN dyn.syms |-> [dyn.syms[k] EXCEPT !.value = DynsymAddress(dyn.syms[k])]]
    <2>1. CASE ~HasDynamic
      BY <2>1, Zenon DEF FinishDynamic
    <2>2. CASE HasDynamic
      <3> DEFINE p == IF Exe THEN [k \in DOMAIN dyn.plt |-> dyn.plt[k] + addr[".got"]] ELSE dyn.plt
                 s == [k \in DOMAIN dyn.syms |-> [dyn.syms[k] EXCEPT !.value = DynsymAddress(dyn.syms[k])]]
      <3>1. dyn' = [dyn EXCEPT !.got[1] = addr[".dynamic"], !.plt = p, !.syms = s]
        BY <2>2, Zenon DEF FinishDynamic
      <3> HIDE DEF p, s
      <3>2. DynRec(dyn)
        BY <1>2
      <3>3. dyn = [syms |-> dyn.syms, got |-> dyn.got, plt |-> dyn.plt,
                   symtab_to_dynsym |-> dyn.symtab_to_dynsym, got_offsets |-> dyn.got_offsets]
        BY <3>2 DEF DynRec
      <3>4. PICK d : d = dyn
        OBVIOUS
      <3>5. dyn' = [d EXCEPT !.got[1] = addr[".dynamic"], !.plt = p, !.syms = s]
        BY <3>1, <3>4, Zenon
      <3>6. d = [syms |-> d.syms, got |-> d.got, plt |-> d.plt,
                 symtab_to_dynsym |-> d.symtab_to_dynsym, got_offsets |-> d.got_offsets]
        BY <3>3, <3>4
      <3>7. dyn'.syms = s
        BY ONLY <3>5, <3>6
      <3> QED
        BY <3>7 DEF s
    <2> QED
      BY <2>1, <2>2
  <1>5. \A k \in DOMAIN dyn.syms : dyn.syms[k] \in SymRec
    BY <1>2 DEF DynRec
  <1>6. DOMAIN dyn.syms \subseteq DOMAIN dyn'.syms /\ \A k \in DOMAIN dyn.syms : dyn'.syms[k].size = dyn.syms[k].size
    <2>1. CASE dyn' = dyn
      BY <2>1
    <2>2. CASE dyn'.syms = [k \in DOMAIN dyn.syms |-> [dyn.syms[k] EXCEPT !.value = DynsymAddress(dyn.syms[k])]]
      <3>1. PICK old : old = dyn.syms
        OBVIOUS
      <3>2. \A k \in DOMAIN old : old[k] \in SymRec
        BY <1>5, <3>1
      <3>3. PICK new : new = dyn'.syms
        OBVIOUS
      <3>4. new = [k \in DOMAIN old |-> [old[k] EXCEPT !.value = DynsymAddress(old[k])]]
        BY <2>2, <3>1, <3>3
      <3>5. \A r \in SymRec : \A v : [r EXCEPT !.value = v].size = r.size
        BY DEF SymRec
      <3>6. DOMAIN new = DOMAIN old /\ \A k \in DOMAIN old : new[k].size = old[k].size
        BY ONLY <3>2, <3>4, <3>5
      <3> QED
        BY <3>1, <3>3, <3>6
    <2> QED
      BY <1>4, <2>1, <2>2
  <1>7. phase \in FromStart /\ phase' \in FromStart
    BY <1>1 DEF FromStart
  <1>8. ImagePlaces' /\ CopiesOK'
    BY <1>1, <1>2, <1>6, <1>7, PlacesWait
  <1>9. Image' /\ ".bss" \in DOMAIN rels' /\ symtab_section' \in Seq(SymRec)
    BY <1>1, <1>2 DEF Image
  <1>10. LateInv'
    BY <1>1, <1>3, <1>8, <1>9 DEF LateInv
  <1> QED
    BY <1>1, <1>10 DEF Late

\* What is placed in the file behind the segments moves nothing that is loaded.
LEMMA LayoutKeeps ==
  ASSUME LayoutOK, AllPlaced, here.j = 2, UNCHANGED <<secs, addr>>,
         here'.j = here.j, here'.addr = here.addr,
         DOMAIN off \subseteq DOMAIN off', \A n \in DOMAIN off : off'[n] = off[n]
  PROVE  LayoutOK' /\ AllPlaced'
PROOF
  <1>1. /\ InMem' = InMem /\ InFile' = InFile /\ RelSections' = RelSections
        /\ \A i : /\ Placed(i)' <=> Placed(i)
                  /\ Span(i)' = Span(i) /\ End(i)' = End(i)
    BY DEF InMem, InFile, RelSections, Placed, Span, End
  <1>2. DOMAIN addr \subseteq DOMAIN off
    BY DEF LayoutOK, MemoryOK
  <1>3. \A i : Placed(i) => Distance(i)' = Distance(i)
    BY <1>2 DEF Distance, Placed
  <1>4. \A i \in DOMAIN secs : ~ToCome(i)'
    <2>1. \A i \in DOMAIN secs : InSegment(secs[i], 2) => i \in InMem
      BY DEF InSegment, InMem
    <2>2. \A i \in DOMAIN secs : InSegment(secs[i], 2) => Placed(i)'
      BY <1>1, <2>1 DEF AllPlaced
    <2> QED
      BY <2>2 DEF ToCome
  <1>5. PieceOK'
    <2>1. {k \in RelSections' : Placed(k)'} = {k \in RelSections : Placed(k)}
      BY <1>1
    <2>2. PICK lo \in Nat, hi \in Nat : Filled(lo, hi)
      BY DEF LayoutOK, PieceOK
    <2>3. PICK R : R = {k \in RelSections : Placed(k)}
      OBVIOUS
    <2>4. UNION {Span(i)' : i \in R} = UNION {Span(i) : i \in R}
      BY <1>1
    <2>5. Filled(lo, hi)'
      BY <1>1, <2>1, <2>2, <2>3, <2>4 DEF Filled
    <2> QED
      BY <2>5 DEF PieceOK
  <1>6. \A b : Boundary(b)' <=> Boundary(b)
    BY <1>1 DEF Boundary
  <1>7. PagesOK'
    BY <1>1, <1>6 DEF LayoutOK, PagesOK
  <1>8. MemoryOK'
    BY <1>1 DEF LayoutOK, MemoryOK
  <1>9. StepOK'
    BY <1>1, <1>3, <1>4 DEF LayoutOK, StepOK
  <1>10. AllPlaced'
    BY <1>1 DEF AllPlaced
  <1> QED
    BY <1>5, <1>7, <1>8, <1>9, <1>10 DEF LayoutOK

\* The sections that are not loaded go behind, one after the other.
LEMMA OthersStep ==
  ASSUME LateInv, PlaceOthers
  PROVE  LateInv' /\ phase' \in Late
PROOF
  <1> DEFINE left == {i \in DOMAIN secs : IF mode.type = "obj" THEN Unplaced(i) ELSE "alloc" \notin secs[i].flags}
  <1>1. /\ phase = "sections"
        /\ UNCHANGED <<mode, secs, symtab_section, dyn, rels, addr>>
    BY DEF PlaceOthers
  <1>2. /\ SectionsOK(secs) /\ FileOK /\ ".bss" \in DOMAIN rels
        /\ ~Image => DOMAIN addr = {}
        /\ Image => /\ LayoutOK /\ AllPlaced /\ here.j = 2 /\ CopiesOK
                    /\ symtab_section \in Seq(SymRec) /\ ImagePlaces
    BY <1>1 DEF LateInv
  <1>3. /\ SectionsOK(secs') /\ ".bss" \in DOMAIN rels'
        /\ ~Image' => DOMAIN addr' = {}
        /\ Image' <=> Image
    BY <1>1, <1>2 DEF Image
  <1>4. Image => symtab_section' \in Seq(SymRec)
    BY <1>1, <1>2
  <1>5. phase' \in FromStart /\ Image => ImagePlaces' /\ CopiesOK'
    <2> SUFFICES ASSUME phase' \in FromStart, Image PROVE ImagePlaces' /\ CopiesOK'
      OBVIOUS
    <2>1. ImagePlaces /\ CopiesOK /\ phase \in FromStart /\ dyn' = dyn
      BY <1>1, <1>2 DEF FromStart
    <2> QED
      BY <1>1, <2>1, PlacesWait
  <1>6. CASE \E i \in left : secs[i].name \notin DOMAIN off
    <2>1. PICK i \in left :
            LET s == secs[i]
                o == AlignedTo(here.file_offset, s.align)
            IN /\ s.name \notin DOMAIN off
               /\ off' = [n \in DOMAIN off \cup {s.name} |-> IF n = s.name THEN o ELSE off[n]]
               /\ here' = [here EXCEPT !.file_offset = o + (IF s.type = "nobits" THEN 0 ELSE s.sh_size)]
               /\ UNCHANGED phase
      BY <1>6, Zenon DEF PlaceOthers
    <2>2. i \in DOMAIN secs /\ phase' = phase /\ secs[i].name \notin DOMAIN off
      BY <2>1
    <2>3. secs[i].align \in Nat \ {0}
      <3>1. secs[i] \in SecRec
        BY <1>2, <2>2 DEF SectionsOK
      <3> QED
        BY <3>1 DEF SecRec
    <2>4. here.file_offset \in Nat
      BY <1>2 DEF FileOK
    <2>5. PICK o \in Nat : o = AlignedTo(here.file_offset, secs[i].align) /\ here.file_offset <= o
      BY <2>3, <2>4, RoundsUp
    <2>6. off' = [n \in DOMAIN off \cup {secs[i].name} |-> IF n = secs[i].name THEN o ELSE off[n]]
      BY <2>1, <2>5, Zenon
    <2>7. PICK e : e = o + (IF secs[i].type = "nobits" THEN 0 ELSE secs[i].sh_size)
      OBVIOUS
    <2>8. here' = [here EXCEPT !.file_offset = e]
      BY <2>1, <2>5, <2>7, Zenon
    <2>9. here = [j |-> here.j, addr |-> here.addr, file_offset |-> here.file_offset]
      BY <1>2 DEF FileOK
    <2>10. here' = [j |-> here.j, addr |-> here.addr, file_offset |-> e]
      BY ONLY <2>8, <2>9
    <2>11. /\ here'.j = here.j /\ here'.addr = here.addr /\ here'.file_offset = e
           /\ here' = [j |-> here'.j, addr |-> here'.addr, file_offset |-> here'.file_offset]
      BY ONLY <2>10
    <2>12. /\ DOMAIN off' = DOMAIN off \cup {secs[i].name}
           /\ \A n \in DOMAIN off : off'[n] = off[n]
           /\ off'[secs[i].name] = o
      BY ONLY <2>2, <2>6
    <2>13. FileOK'
      <3>1. secs' = secs /\ FileOK /\ SectionsOK(secs)
        BY <1>1, <1>2
      <3> QED
        BY ONLY <2>2, <2>5, <2>7, <2>11, <2>12, <3>1, FileGrows
    <2>14. Image => LayoutOK' /\ AllPlaced'
      <3>1. UNCHANGED <<secs, addr>>
        BY <1>1
      <3>2. DOMAIN off \subseteq DOMAIN off'
        BY <2>12
      <3> QED
        BY <1>2, <2>11, <2>12, <3>1, <3>2, LayoutKeeps
    <2>15. phase' = "sections"
      BY <1>1, <2>2
    <2>16. Image => ImagePlaces' /\ CopiesOK' /\ here'.j = 2
      BY <1>2, <1>5, <2>11, <2>15 DEF FromStart
    <2>17. LateInv'
      BY <1>3, <1>4, <2>13, <2>14, <2>15, <2>16 DEF LateInv
    <2> QED
      BY <2>15, <2>17 DEF Late
  <1>7. CASE ~\E i \in left : secs[i].name \notin DOMAIN off
    <2>1. phase' = (IF mode.type = "obj" THEN "written" ELSE "symbols") /\ UNCHANGED <<off, here>>
      BY <1>7, Zenon DEF PlaceOthers
    <2>2. FileOK' /\ (Image => LayoutOK' /\ AllPlaced' /\ here'.j = 2) /\ InFile' = InFile /\ InFilePlaced' = InFilePlaced
      BY <1>1, <1>2, <2>1, LayoutStays
    <2>3. \A i \in DOMAIN secs : secs[i].name \in DOMAIN off
      <3>1. CASE mode.type = "obj"
        BY <1>2, <1>7, <3>1 DEF Image, Unplaced
      <3>2. CASE mode.type # "obj"
        <4>1. DOMAIN addr \subseteq DOMAIN off /\ \A i \in DOMAIN secs : "alloc" \in secs[i].flags => Placed(i)
          BY <1>2, <3>2 DEF Image, LayoutOK, MemoryOK, AllPlaced, InMem
        <4> QED
          BY <1>7, <3>2, <4>1 DEF Placed
      <3> QED
        BY <3>1, <3>2
    <2>4. InFilePlaced' = InFile'
      BY <2>2, <2>3 DEF InFile, InFilePlaced
    <2>5. CASE Image
      <3>1. phase' = "symbols"
        BY <2>1, <2>5 DEF Image
      <3>2. ImagePlaces' /\ CopiesOK'
        BY <1>5, <2>5, <3>1 DEF FromStart
      <3>3. LateInv'
        BY <1>3, <1>4, <2>2, <2>4, <2>5, <3>1, <3>2 DEF LateInv
      <3> QED
        BY <3>1, <3>3 DEF Late
    <2>6. CASE ~Image
      <3>1. phase' = "written"
        BY <2>1, <2>6 DEF Image
      <3>2. LateInv'
        BY <1>3, <2>2, <2>4, <2>6, <3>1 DEF LateInv
      <3> QED
        BY <3>1, <3>2 DEF Late
    <2> QED
      BY <2>5, <2>6
  <1> QED
    BY <1>6, <1>7

\* What is moved, place by place.
PlacesOf(K, F, G) == {<<F[k], G[k]>> : k \in K}

LEMMA ShiftedPlaces ==
  ASSUME NEW K, NEW F, NEW G, NEW a
  PROVE  Shifted(PlacesOf(K, F, G), a) = {<<F[k] + a, G[k]>> : k \in K}
PROOF
  <1>1. PICK S : S = PlacesOf(K, F, G) /\ S = {<<F[k], G[k]>> : k \in K}
    BY DEF PlacesOf
  <1>2. \A k \in K : <<F[k], G[k]>> \in S
    BY <1>1
  <1>3. ASSUME NEW k \in K PROVE <<F[k] + a, G[k]>> \in Shifted(S, a)
    <2>1. PICK p : p = <<F[k], G[k]>>
      OBVIOUS
    <2>2. p \in S /\ p[1] = F[k] /\ p[2] = G[k]
      BY <1>2, <2>1
    <2> QED
      BY <2>2 DEF Shifted
  <1>4. ASSUME NEW q \in Shifted(S, a) PROVE \E k \in K : q = <<F[k] + a, G[k]>>
    <2>1. PICK p \in S : q = <<p[1] + a, p[2]>>
      BY DEF Shifted
    <2>2. PICK k \in K : p = <<F[k], G[k]>>
      BY <1>1
    <2> QED
      BY <2>1, <2>2
  <1> QED
    BY <1>1, <1>3, <1>4

\* The places of copies, once the entries hold addresses.
CopiesAt(list, syms) ==
  {<<list[k].offset, syms[list[k].sym].size>> : k \in {k \in DOMAIN list : list[k].type = "COPY"}}

\* Copies have places; moving these is moving the relocations.
LEMMA CopiesMoved ==
  ASSUME NEW list \in Seq(RelRec), NEW syms, NEW a \in Nat
  PROVE  /\ Copied(list, syms, a) = Shifted(Copied(list, syms, 0), a)
         /\ CopiesAt([k \in DOMAIN list |-> [list[k] EXCEPT !.offset = list[k].offset + a]], syms)
              = Copied(list, syms, a)
PROOF
  <1>1. \A k \in DOMAIN list : list[k] \in RelRec
    OBVIOUS
  <1>2. \A r \in RelRec : r.offset \in Nat
    BY DEF RelRec
  <1>3. \A k \in DOMAIN list : list[k].offset \in Nat
    BY <1>1, <1>2
  <1>4. PICK K : K = {k \in DOMAIN list : list[k].type = "COPY"}
    OBVIOUS
  <1>5. Copied(list, syms, 0) = {<<list[k].offset, syms[list[k].sym].size>> : k \in K}
    BY <1>3, <1>4 DEF Copied
  <1>6. Copied(list, syms, a) = {<<list[k].offset + a, syms[list[k].sym].size>> : k \in K}
    BY <1>4 DEF Copied
  <1>7. Shifted(Copied(list, syms, 0), a) = {<<list[k].offset + a, syms[list[k].sym].size>> : k \in K}
    <2>1. PICK C : C = Copied(list, syms, 0)
      OBVIOUS
    <2>2. C = {<<list[k].offset, syms[list[k].sym].size>> : k \in K}
      BY <1>5, <2>1
    <2>3. PICK F : F = [k \in K |-> list[k].offset]
      OBVIOUS
    <2>4. PICK G : G = [k \in K |-> syms[list[k].sym].size]
      OBVIOUS
    <2>5. C = PlacesOf(K, F, G)
      BY <2>2, <2>3, <2>4 DEF PlacesOf
    <2>6. PICK D : D = Shifted(PlacesOf(K, F, G), a) /\ D = {<<F[k] + a, G[k]>> : k \in K}
      BY ShiftedPlaces
    <2> QED
      BY <2>1, <2>3, <2>4, <2>5, <2>6
  <1>8. PICK new : new = [k \in DOMAIN list |-> [list[k] EXCEPT !.offset = list[k].offset + a]]
    OBVIOUS
  <1>9. \A r \in RelRec : \A v : LET q == [r EXCEPT !.offset = v] IN q.offset = v /\ q.type = r.type /\ q.sym = r.sym
    BY DEF RelRec
  <1>10. DOMAIN new = DOMAIN list
    BY <1>8
  <1>11. \A k \in DOMAIN list : /\ new[k].offset = list[k].offset + a
                                /\ new[k].type = list[k].type
                                /\ new[k].sym = list[k].sym
    BY <1>1, <1>8, <1>9
  <1>12. {k \in DOMAIN new : new[k].type = "COPY"} = K
    BY <1>4, <1>10, <1>11
  <1>13. \A k \in K : new[k].offset = list[k].offset + a /\ new[k].sym = list[k].sym
    BY <1>4, <1>11
  <1>14. CopiesAt(new, syms) = {<<new[k].offset, syms[new[k].sym].size>> : k \in K}
    BY <1>12 DEF CopiesAt
  <1>15. CopiesAt(new, syms) = Copied(list, syms, a)
    BY <1>6, <1>13, <1>14
  <1> QED
    BY <1>6, <1>7, <1>8, <1>15

\* .bss is loaded, at an address.
LEMMA BssIsPlaced ==
  ASSUME SectionsOK(secs), AllPlaced, MemoryOK, NEW i \in DOMAIN secs, secs[i].name = ".bss"
  PROVE  addr[".bss"] \in Nat /\ secs[i].sh_size \in Nat
PROOF
  <1>1. SectionOK(secs[i]) /\ secs[i] \in SecRec
    BY DEF SectionsOK
  <1>2. "alloc" \in secs[i].flags /\ secs[i].sh_size \in Nat
    BY <1>1 DEF SectionOK, SecRec
  <1>3. ".bss" \in DOMAIN addr
    BY <1>2 DEF AllPlaced, InMem, Placed
  <1> QED
    BY <1>2, <1>3 DEF MemoryOK

\* Symbols get addresses, and the variables in .bss move by the address of .bss.
LEMMA SymbolsStep ==
  ASSUME LateInv, relocate_syms
  PROVE  phase' = "refused" \/ (LateInv' /\ phase' \in Late)
PROOF
  <1> SUFFICES ASSUME phase' # "refused" PROVE LateInv' /\ phase' \in Late
    OBVIOUS
  <1>1. /\ phase = "symbols" /\ phase' = "relocate"
        /\ UNCHANGED <<mode, secs, dyn, rels, addr, off, here>>
        /\ symtab_section' = [i \in DOMAIN symtab_section |-> [symtab_section[i] EXCEPT !.value = SymbolValue(symtab_section[i])]]
    BY Zenon DEF relocate_syms
  <1>2. Image
    BY <1>1 DEF LateInv
  <1>3. /\ SectionsOK(secs) /\ FileOK /\ ".bss" \in DOMAIN rels
        /\ LayoutOK /\ AllPlaced /\ here.j = 2 /\ CopiesOK
        /\ symtab_section \in Seq(SymRec) /\ ImagePlaces
        /\ InFilePlaced = InFile
    BY <1>1, <1>2 DEF LateInv
  <1>4. /\ SectionsOK(secs') /\ FileOK' /\ LayoutOK' /\ AllPlaced' /\ here'.j = 2 /\ InFilePlaced' = InFile'
    BY <1>1, <1>3, LayoutStays
  <1>5. CopiesOK' /\ ".bss" \in DOMAIN rels'
    BY <1>1, <1>3 DEF CopiesOK
  <1>6. ImagePlaces'
    <2> SUFFICES ASSUME NEW i \in DOMAIN secs', secs'[i].name = ".bss"
                 PROVE  Fit(Variables(symtab_section') \cup Copied(rels'[".bss"], dyn'.syms, addr'[".bss"]),
                            addr'[".bss"], addr'[".bss"] + secs'[i].sh_size)
      BY <1>1 DEF ImagePlaces
    <2>1. i \in DOMAIN secs /\ secs[i].name = ".bss"
      BY <1>1
    <2>2. addr[".bss"] \in Nat /\ secs[i].sh_size \in Nat
      BY <1>3, <2>1, BssIsPlaced DEF LayoutOK
    <2>3. PICK a \in Nat : a = addr[".bss"]
      BY <2>2
    <2>4. PICK size \in Nat : size = secs[i].sh_size
      BY <2>2
    <2>5. PICK tab \in Seq(SymRec) : tab = symtab_section
      BY <1>3
    <2>6. PICK list \in Seq(RelRec) : list = rels[".bss"]
      BY <1>3 DEF CopiesOK
    <2>7. PICK syms : syms = dyn.syms
      OBVIOUS
    <2>8. PICK new : new = symtab_section'
      OBVIOUS
    <2>9. Fit(Variables(tab) \cup Copied(list, syms, 0), 0, size)
      BY <1>1, <1>3, <2>1, <2>4, <2>5, <2>6, <2>7 DEF ImagePlaces
    <2>10. Variables(new) = Shifted(Variables(tab), a)
      <3>1. new = [k \in DOMAIN tab |-> [tab[k] EXCEPT !.value = SymbolValue(tab[k])]]
        BY <1>1, <2>5, <2>8
      <3>2. \A s \in SymRec : \A v : LET q == [s EXCEPT !.value = v]
                                    IN q.value = v /\ q.size = s.size /\ q.sec = s.sec /\ q.type = s.type
        BY DEF SymRec
      <3>3. \A k \in DOMAIN tab : tab[k] \in SymRec
        OBVIOUS
      <3>4. DOMAIN new = DOMAIN tab
        BY <3>1
      <3>5. \A k \in DOMAIN tab : /\ new[k].value = SymbolValue(tab[k]) /\ new[k].size = tab[k].size
                                  /\ new[k].sec = tab[k].sec /\ new[k].type = tab[k].type
        BY <3>1, <3>2, <3>3
      <3>6. PICK K : K = {k \in DOMAIN tab : tab[k].sec = ".bss" /\ tab[k].type = "object"}
        OBVIOUS
      <3>7. {k \in DOMAIN new : new[k].sec = ".bss" /\ new[k].type = "object"} = K
        BY <3>4, <3>5, <3>6
      <3>8. \A k \in K : SymbolValue(tab[k]) = tab[k].value + a
        BY <2>3, <3>6 DEF SymbolValue, IsUndef
      <3>9. \A k \in K : new[k].value = tab[k].value + a /\ new[k].size = tab[k].size
        BY <3>5, <3>6, <3>8
      <3>10. Variables(tab) = {<<tab[k].value, tab[k].size>> : k \in K}
        BY <3>6 DEF Variables
      <3>11. Variables(new) = {<<new[k].value, new[k].size>> : k \in K}
        BY <3>7 DEF Variables
      <3>12. Shifted({<<tab[k].value, tab[k].size>> : k \in K}, a) = {<<tab[k].value + a, tab[k].size>> : k \in K}
        <4>1. PICK F : F = [k \in K |-> tab[k].value]
          OBVIOUS
        <4>2. PICK G : G = [k \in K |-> tab[k].size]
          OBVIOUS
        <4>3. PICK S : S = {<<tab[k].value, tab[k].size>> : k \in K}
          OBVIOUS
        <4>4. S = PlacesOf(K, F, G)
          BY <4>1, <4>2, <4>3 DEF PlacesOf
        <4>5. PICK D : D = Shifted(PlacesOf(K, F, G), a) /\ D = {<<F[k] + a, G[k]>> : k \in K}
          BY ShiftedPlaces
        <4> QED
          BY <4>1, <4>2, <4>3, <4>4, <4>5
      <3> QED
        BY <3>9, <3>10, <3>11, <3>12
    <2>11. Copied(list, syms, a) = Shifted(Copied(list, syms, 0), a)
      BY CopiesMoved
    <2>12. Shifted(Variables(tab) \cup Copied(list, syms, 0), a)
             = Shifted(Variables(tab), a) \cup Shifted(Copied(list, syms, 0), a)
      BY DEF Shifted
    <2>13. Fit(Shifted(Variables(tab) \cup Copied(list, syms, 0), a), 0 + a, size + a)
      BY <2>9, FitsShifted
    <2>14. 0 + a = a /\ size + a = a + size
      OBVIOUS
    <2>15. Fit(Variables(new) \cup Copied(list, syms, a), a, a + size)
      BY <2>10, <2>11, <2>12, <2>13, <2>14
    <2> QED
      BY <1>1, <2>3, <2>4, <2>6, <2>7, <2>8, <2>15
  <1>7. Image'
    BY <1>1, <1>2 DEF Image
  <1>8. LateInv'
    BY <1>1, <1>4, <1>5, <1>6, <1>7 DEF LateInv
  <1> QED
    BY <1>1, <1>8 DEF Late

\* The relocations of the inputs are applied; those of .bss stay.
LEMMA SectionStep ==
  ASSUME LateInv, relocate_section, ~InMemory
  PROVE  LateInv' /\ phase' \in Late
PROOF
  <1>1. /\ phase = "relocate" /\ phase' = "relocations"
        /\ UNCHANGED <<mode, secs, symtab_section, dyn, addr, off, here>>
        /\ rels' = [of \in DOMAIN rels |-> IF MakesDll /\ of \in Relocatable THEN Compacted(of) ELSE rels[of]]
    BY Zenon DEF relocate_section
  <1>2. Image
    BY <1>1 DEF LateInv
  <1>3. /\ SectionsOK(secs) /\ FileOK /\ ".bss" \in DOMAIN rels
        /\ LayoutOK /\ AllPlaced /\ here.j = 2 /\ CopiesOK /\ ImagePlaces
        /\ InFilePlaced = InFile
    BY <1>1, <1>2 DEF LateInv
  <1>4. /\ SectionsOK(secs') /\ FileOK' /\ LayoutOK' /\ AllPlaced' /\ here'.j = 2 /\ InFilePlaced' = InFile'
    BY <1>1, <1>3, LayoutStays
  <1>5. ".bss" \in DOMAIN rels' /\ rels'[".bss"] = rels[".bss"]
    <2>1. ".bss" \notin Relocatable
      BY DEF Relocatable
    <2> QED
      BY <1>1, <1>3, <2>1
  <1>6. CopiesOK'
    BY <1>1, <1>3, <1>5 DEF CopiesOK
  <1>7. ImagePlaces'
    BY <1>1, <1>3, <1>5 DEF ImagePlaces
  <1>8. Image'
    BY <1>1, <1>2 DEF Image
  <1>9. LateInv'
    BY <1>1, <1>4, <1>5, <1>6, <1>7, <1>8 DEF LateInv
  <1> QED
    BY <1>1, <1>9 DEF Late

\* The copies get addresses too, since their relocations are for the loader.
LEMMA RelStep ==
  ASSUME LateInv, relocate_rel
  PROVE  LateInv' /\ phase' \in Late
PROOF
  <1>1. /\ phase = "relocations" /\ phase' = "written"
        /\ UNCHANGED <<mode, secs, symtab_section, dyn, addr, off, here>>
        /\ rels' = [of \in DOMAIN rels |->
                      IF Moves(of) THEN [k \in DOMAIN rels[of] |-> [rels[of][k] EXCEPT !.offset = rels[of][k].offset + addr[of]]]
                      ELSE rels[of]]
    BY Zenon DEF relocate_rel
  <1>2. Image
    BY <1>1 DEF LateInv
  <1>3. /\ SectionsOK(secs) /\ FileOK /\ ".bss" \in DOMAIN rels
        /\ LayoutOK /\ AllPlaced /\ here.j = 2 /\ CopiesOK /\ ImagePlaces
        /\ InFilePlaced = InFile
    BY <1>1, <1>2 DEF LateInv
  <1>4. /\ SectionsOK(secs') /\ FileOK' /\ LayoutOK' /\ AllPlaced' /\ here'.j = 2 /\ InFilePlaced' = InFile'
    BY <1>1, <1>3, LayoutStays
  <1>5. ".bss" \in DOMAIN rels'
    BY <1>1, <1>3
  <1>6. ImagePlaces'
    <2> SUFFICES ASSUME NEW i \in DOMAIN secs', secs'[i].name = ".bss"
                 PROVE  Fit(BssPlaces', addr'[".bss"], addr'[".bss"] + secs'[i].sh_size)
      BY <1>1 DEF ImagePlaces
    <2>1. i \in DOMAIN secs /\ secs[i].name = ".bss"
      BY <1>1
    <2>2. addr[".bss"] \in Nat
      BY <1>3, <2>1, BssIsPlaced DEF LayoutOK
    <2>3. PICK a \in Nat : a = addr[".bss"]
      BY <2>2
    <2>4. PICK list \in Seq(RelRec) : list = rels[".bss"]
      BY <1>3 DEF CopiesOK
    <2>5. PICK syms : syms = dyn.syms
      OBVIOUS
    <2>6. Fit(Variables(symtab_section) \cup Copied(list, syms, a), a, a + secs[i].sh_size)
      BY <1>1, <1>3, <2>1, <2>3, <2>4, <2>5 DEF ImagePlaces
    <2>7. PICK new : new = rels'[".bss"]
      OBVIOUS
    <2>8. CopiesAt(new, syms) = Copied(list, syms, a)
      <3>1. CASE Moves(".bss")
        <4>1. new = [k \in DOMAIN list |-> [list[k] EXCEPT !.offset = list[k].offset + a]]
          BY <1>1, <1>3, <2>3, <2>4, <2>7, <3>1
        <4> QED
          BY <4>1, CopiesMoved
      <3>2. CASE ~Moves(".bss")
        <4>1. new = list
          BY <1>1, <1>3, <2>4, <2>7, <3>2
        <4>2. ~HasCopies(list)
          <5> SUFFICES ASSUME HasCopies(list) PROVE FALSE
            OBVIOUS
          <5>1. PICK k \in DOMAIN secs : secs[k].name = RelName(".bss")
            BY <1>3, <2>4 DEF CopiesOK
          <5>2. SectionOK(secs[k])
            BY <1>3 DEF SectionsOK
          <5>3. secs[k].type = "rel" /\ secs[k].of = ".bss" /\ "alloc" \in secs[k].flags
            BY <5>1, <5>2 DEF SectionOK
          <5> QED
            BY <3>2, <5>3 DEF Moves, RelSections
        <4>3. Copied(list, syms, a) = {} /\ CopiesAt(list, syms) = {}
          BY <4>2 DEF HasCopies, Copied, CopiesAt
        <4> QED
          BY <4>1, <4>3
      <3> QED
        BY <3>1, <3>2
    <2>9. BssPlaces' = Variables(symtab_section) \cup CopiesAt(new, syms)
      BY <1>1, <2>5, <2>7 DEF BssPlaces, Copies, Variables, CopiesAt
    <2> QED
      BY <1>1, <2>3, <2>6, <2>8, <2>9
  <1>7. Image'
    BY <1>1, <1>2 DEF Image
  <1>8. LateInv'
    BY <1>1, <1>4, <1>5, <1>6, <1>7 DEF LateInv
  <1> QED
    BY <1>1, <1>8 DEF Late

(***************************************************************************)
(* The whole                                                               *)
(***************************************************************************)
\* The relocations a link starts from are those of the sites; none is a copy.
LEMMA SitesGiven ==
  ASSUME WellFormed, NEW of,
         \A k \in 1 .. Len(Sites) : sites[k].type \in Strings \ {"COPY"} /\ sites[k].sym \in Nat
  PROVE  SiteRelocations(of) \in Seq(RelRec) /\ ~HasCopies(SiteRelocations(of))
PROOF
  <1>1. Sites \in Seq(Strings \X Nat)
    BY DEF WellFormed
  <1>2. PICK n \in Nat : n = Len(Sites)
    BY <1>1
  <1>3. DOMAIN Sites = 1 .. n /\ \A k \in 1 .. n : Sites[k][2] \in Nat
    BY <1>1, <1>2
  <1>4. PICK list : list = [k \in 1 .. n |-> k]
    OBVIOUS
  <1>5. list \in Seq(1 .. n) /\ DOMAIN list = 1 .. n
    BY <1>4
  <1>6. PICK T : T = {k \in 1 .. n : Sites[k][1] = of}
    OBVIOUS
  <1>7. T \in SUBSET DOMAIN list
    BY <1>5, <1>6
  <1>8. PICK at : at = Picked(list, T)
    OBVIOUS
  <1>9. PicksOf(1 .. n, list, T, at)
    BY ONLY <1>5, <1>7, <1>8, PickedIs
  <1>10. at \in Seq(1 .. n) /\ Len(at) \in Nat
    BY <1>9 DEF PicksOf
  <1>11. SiteRelocations(of) = [k \in DOMAIN at |-> [offset |-> Sites[at[k]][2], type |-> sites[at[k]].type, sym |-> sites[at[k]].sym]]
    BY <1>3, <1>4, <1>6, <1>8 DEF SiteRelocations
  <1>12. \A k \in DOMAIN at : at[k] \in 1 .. n
    BY <1>10
  <1>13. \A k \in 1 .. n : /\ sites[k].type \in Strings /\ sites[k].type # "COPY"
                           /\ sites[k].sym \in Nat
    BY <1>2
  <1>14. \A k \in DOMAIN at : [offset |-> Sites[at[k]][2], type |-> sites[at[k]].type, sym |-> sites[at[k]].sym] \in RelRec
    BY <1>3, <1>12, <1>13 DEF RelRec
  <1>15. PICK new : new = SiteRelocations(of)
    OBVIOUS
  <1>16. PICK m \in Nat : DOMAIN at = 1 .. m
    BY <1>10
  <1>17. new = [k \in 1 .. m |-> [offset |-> Sites[at[k]][2], type |-> sites[at[k]].type, sym |-> sites[at[k]].sym]]
    BY <1>11, <1>15, <1>16
  <1>18. \A k \in 1 .. m : new[k] \in RelRec
    BY <1>14, <1>16, <1>17
  <1>19. new \in Seq(RelRec) /\ DOMAIN new = 1 .. m
    BY <1>17, <1>18
  <1>20. \A k \in DOMAIN new : new[k].type # "COPY"
    BY <1>12, <1>13, <1>16, <1>17, <1>19
  <1> QED
    BY <1>15, <1>19, <1>20 DEF HasCopies

\* A link starts with the inputs as they are.
LEMMA ImageInit ==
  ASSUME WellFormed, OutputInit
  PROVE  ImageInv
PROOF
  <1>1. /\ mode \in Modes /\ symtab_section \in Tables
        /\ phase = IF mode.type = "obj" THEN "got" ELSE "commons"
        /\ next = IF mode.type = "obj" THEN Len(Sites) + 1 ELSE 1
        /\ secs = Sections
        /\ rels = [of \in {".text", ".data", ".got", ".bss"} |-> SiteRelocations(of)]
        /\ addr = [n \in {} |-> 0] /\ off = [n \in {} |-> 0]
    BY DEF OutputInit
  <1>2. \A k \in 1 .. Len(Sites) : sites[k] \in Relocations[k]
    BY DEF OutputInit
  <1>3. \A k \in 1 .. Len(Sites) : /\ sites[k] \in [type : Strings \ {"COPY"}, sym : Nat]
                                   /\ sites[k].sym \in DOMAIN symtab_section
    BY <1>1, <1>2 DEF WellFormed
  <1>4. \A k \in 1 .. Len(Sites) : sites[k].type \in Strings \ {"COPY"} /\ sites[k].sym \in Nat
    BY <1>3
  <1>5. \A of : SiteRelocations(of) \in Seq(RelRec) /\ ~HasCopies(SiteRelocations(of))
    BY <1>4, SitesGiven
  <1>6. PICK tab \in Tables : tab = symtab_section
    BY <1>1
  <1>7. /\ tab \in Seq(SymRec)
        /\ \A i \in DOMAIN tab : tab[i].sec = "common" => tab[i].value # 0
        /\ \A i \in DOMAIN Sections :
             Sections[i].name = ".bss" => Fit(Variables(tab), 0, Sections[i].data_offset)
    BY DEF WellFormed
  <1>8. SectionsOK(secs) /\ \A i \in DOMAIN secs : secs[i].name \notin OwnSections
    BY <1>1 DEF WellFormed
  <1>9. SymbolsOK
    BY <1>3, <1>4, <1>6, <1>7 DEF SymbolsOK
  <1>10. DynRec(dyn)
    <2>1. PICK z : z = [i \in DOMAIN symtab_section |-> 0]
      OBVIOUS
    <2>2. dyn = [syms |-> <<>>, got |-> <<>>, plt |-> <<>>, symtab_to_dynsym |-> z, got_offsets |-> z]
      BY <2>1, Zenon DEF OutputInit
    <2>3. \A S : <<>> \in Seq(S)
      OBVIOUS
    <2> QED
      BY ONLY <2>2, <2>3 DEF DynRec
  <1>11. rels \in [Relocated_ -> Seq(RelRec)]
    BY <1>1, <1>5 DEF Relocated_
  <1>12. next \in Nat \ {0}
    <2>1. Len(Sites) \in Nat
      BY DEF WellFormed
    <2> QED
      BY <1>1, <2>1
  <1>13. ~HasCopies(rels[".bss"]) /\ rels[".bss"] \in Seq(RelRec)
    BY <1>1, <1>5
  <1>14. CopiesOK
    BY <1>13 DEF CopiesOK, HasCopies
  <1>15. PlacesOK
    <2>1. PICK list : list = rels[".bss"]
      OBVIOUS
    <2>2. Copied(list, dyn.syms, 0) = {}
      BY <1>13, <2>1 DEF HasCopies, Copied
    <2>3. PICK V : V = Variables(tab)
      OBVIOUS
    <2>4. V \cup {} = V
      OBVIOUS
    <2>5. \A i \in DOMAIN secs : secs[i].name = ".bss" => Fit(V, 0, secs[i].data_offset)
      BY <1>1, <1>7, <2>3
    <2> QED
      BY <1>6, <2>1, <2>2, <2>3, <2>4, <2>5 DEF PlacesOK
  <1>16. NotYet
    <2>1. \A i \in DOMAIN secs : secs[i].name # ".shstrtab" /\ secs[i].name # ".got"
      BY <1>8 DEF OwnSections, NamedSections
    <2>2. \A i \in Commons : symtab_section[i].value # 0
      BY <1>6, <1>7 DEF Commons
    <2>3. phase \in {"got", "commons"}
      BY <1>1
    <2> QED
      BY <1>8, <1>13, <2>1, <2>2, <2>3 DEF NotYet, First, Second
  <1>17. EarlyInv
    BY <1>8, <1>9, <1>10, <1>11, <1>12, <1>14, <1>15, <1>16 DEF EarlyInv
  <1>18. DOMAIN addr = {} /\ DOMAIN off = {}
    BY <1>1
  <1>19. phase \in First \cup Second /\ phase \notin Late
    BY <1>1 DEF First, Second, Late
  <1> QED
    BY <1>17, <1>18, <1>19 DEF ImageInv

\* No address is given before Reserve.
LEMMA EarlyStep ==
  ASSUME WellFormed, EarlyInv, DOMAIN addr = {}, DOMAIN off = {},
         \/ relocate_common_syms \/ tcc_add_linker_symbols \/ new_dynamic_sections
         \/ ScanSymbol \/ Scanned \/ ExportToLibs \/ ExportAll \/ BuildGotEntry
  PROVE  /\ phase' = "refused" \/ EarlyInv'
         /\ DOMAIN addr' = {} /\ DOMAIN off' = {}
         /\ phase' \in First \cup Second \cup {"refused"}
PROOF
  <1>1. CASE relocate_common_syms
    <2>1. EarlyInv'
      BY <1>1, CommonsStep
    <2> QED
      BY <1>1, <2>1 DEF relocate_common_syms, First
  <1>2. CASE tcc_add_linker_symbols
    <2>1. EarlyInv'
      BY <1>2, LinkerSymbolsStep
    <2>2. phase' = (IF HasDynamic THEN "dynamic sections" ELSE "got") /\ UNCHANGED <<addr, off>>
      BY <1>2, Zenon DEF tcc_add_linker_symbols
    <2> QED
      BY <2>1, <2>2 DEF First, Second
  <1>3. CASE new_dynamic_sections
    <2>1. EarlyInv'
      BY <1>3, DynamicStep
    <2>2. phase' = (IF Exe THEN "scan" ELSE "export all") /\ UNCHANGED <<addr, off>>
      BY <1>3, Zenon DEF new_dynamic_sections
    <2> QED
      BY <2>1, <2>2 DEF Second
  <1>4. CASE ScanSymbol
    <2>1. phase' = "refused" \/ EarlyInv'
      BY <1>4, ScanStep
    <2>2. phase = "scan" /\ phase' \in {phase, "refused"} /\ UNCHANGED <<addr, off>>
      BY <1>4 DEF ScanSymbol
    <2> QED
      BY <2>1, <2>2 DEF Second
  <1>5. CASE Scanned
    <2>1. EarlyInv'
      BY <1>5, ScannedStep
    <2> QED
      BY <1>5, <2>1 DEF Scanned, Second
  <1>6. CASE ExportToLibs
    <2>1. EarlyInv'
      BY <1>6, ExportStep
    <2>2. phase' = "got" /\ UNCHANGED <<addr, off>>
      BY <1>6, Zenon DEF ExportToLibs
    <2> QED
      BY <2>1, <2>2 DEF Second
  <1>7. CASE ExportAll
    <2>1. EarlyInv'
      BY <1>7, ExportAllStep
    <2>2. phase' = "got" /\ UNCHANGED <<addr, off>>
      BY <1>7, Zenon DEF ExportAll
    <2> QED
      BY <2>1, <2>2 DEF Second
  <1>8. CASE BuildGotEntry
    <2>1. EarlyInv'
      BY <1>8, BuildGotStep
    <2>2. phase = "got" /\ UNCHANGED <<phase, addr, off>>
      BY <1>8, Zenon DEF BuildGotEntry
    <2> QED
      BY <2>1, <2>2 DEF Second
  <1> QED
    BY <1>1, <1>2, <1>3, <1>4, <1>5, <1>6, <1>7, <1>8

\* A step that changes nothing keeps what was true before addresses are given.
LEMMA EarlyStays ==
  ASSUME EarlyInv, UNCHANGED outputVars
  PROVE  EarlyInv'
PROOF
  <1>1. UNCHANGED <<mode, sites, phase, next, secs, symtab_section, dyn, rels, addr, off, here, mem>>
    BY DEF outputVars
  <1>2. SectionsOK(secs') /\ DynRec(dyn') /\ rels' \in [Relocated_ -> Seq(RelRec)] /\ next' \in Nat \ {0}
    BY <1>1 DEF EarlyInv
  <1>3. SymbolsOK'
    BY <1>1 DEF EarlyInv, SymbolsOK
  <1>4. CopiesOK'
    BY <1>1 DEF EarlyInv, CopiesOK
  <1>5. PlacesOK'
    BY <1>1 DEF EarlyInv, PlacesOK
  <1>6. NotYet'
    <2>1. Commons' = Commons /\ (HasDynamic' <=> HasDynamic)
      BY <1>1 DEF Commons, HasDynamic, InMemory
    <2> QED
      BY <1>1, <2>1 DEF EarlyInv, NotYet
  <1> QED
    BY <1>2, <1>3, <1>4, <1>5, <1>6 DEF EarlyInv

\* Nor does it change layout.
LEMMA LateStays ==
  ASSUME LateInv, UNCHANGED outputVars
  PROVE  LateInv'
PROOF
  <1>1. UNCHANGED <<mode, phase, secs, symtab_section, dyn, rels, addr, off, here>>
    BY DEF outputVars
  <1>2. /\ SectionsOK(secs') <=> SectionsOK(secs)
        /\ FileOK' <=> FileOK
        /\ LayoutOK' <=> LayoutOK
        /\ AllPlaced' <=> AllPlaced
        /\ InFile' = InFile /\ InFilePlaced' = InFilePlaced
    BY <1>1, LayoutStays
  <1>3. CopiesOK' <=> CopiesOK
    BY <1>1 DEF CopiesOK
  <1>4. BssPlaces' = BssPlaces
    BY <1>1 DEF BssPlaces, Copies
  <1>5. ImagePlaces' <=> ImagePlaces
    BY <1>1, <1>4 DEF ImagePlaces
  <1>6. RankOK' <=> RankOK
    BY <1>1 DEF RankOK, Placed
  <1>7. Image' <=> Image
    BY <1>1 DEF Image
  <1>8. DynRec(dyn') <=> DynRec(dyn)
    BY <1>1
  <1> QED
    BY <1>1, <1>2, <1>3, <1>5, <1>6, <1>7, <1>8 DEF LateInv

\* From layout on.
LEMMA LateStep ==
  ASSUME LateInv, ~InMemory,
         \/ PlaceSection \/ NextSegment \/ FinishDynamic \/ PlaceOthers
         \/ relocate_syms \/ relocate_section \/ relocate_rel
  PROVE  phase' = "refused" \/ (LateInv' /\ phase' \in Late)
PROOF
  <1>1. CASE PlaceSection
    BY <1>1, PlaceStep
  <1>2. CASE NextSegment
    BY <1>2, NextStep
  <1>3. CASE FinishDynamic
    BY <1>3, FinishStep
  <1>4. CASE PlaceOthers
    BY <1>4, OthersStep
  <1>5. CASE relocate_syms
    BY <1>5, SymbolsStep
  <1>6. CASE relocate_section
    BY <1>6, SectionStep
  <1>7. CASE relocate_rel
    BY <1>7, RelStep
  <1> QED
    BY <1>1, <1>2, <1>3, <1>4, <1>5, <1>6, <1>7

\* Every step keeps the invariant.
LEMMA ImageStep ==
  ASSUME WellFormed, ImageInv, [OutputNext]_outputVars
  PROVE  ImageInv'
PROOF
  <1>1. \A p \in First \cup Second : p \notin Late /\ p # "refused"
    BY DEF First, Second, Late
  <1>2. "refused" \notin First \cup Second \cup Late
    BY DEF First, Second, Late
  <1>3. CASE \/ relocate_common_syms \/ tcc_add_linker_symbols \/ new_dynamic_sections
             \/ ScanSymbol \/ Scanned \/ ExportToLibs \/ ExportAll \/ BuildGotEntry
    <2>1. phase \in First \cup Second /\ mode' = mode
      BY <1>3, Zenon DEF relocate_common_syms, tcc_add_linker_symbols, new_dynamic_sections,
                         ScanSymbol, Scanned, ExportToLibs, ExportAll, BuildGotEntry, First, Second
    <2>2. EarlyInv /\ DOMAIN addr = {} /\ DOMAIN off = {}
      BY <2>1 DEF ImageInv
    <2>3. /\ phase' = "refused" \/ EarlyInv'
          /\ DOMAIN addr' = {} /\ DOMAIN off' = {}
          /\ phase' \in First \cup Second \cup {"refused"}
      BY <1>3, <2>2, EarlyStep
    <2> QED
      BY <1>1, <1>2, <2>3 DEF ImageInv
  <1>4. CASE Reserve
    <2>1. phase \in First \cup Second
      BY <1>4 DEF Reserve, Second
    <2>2. LateInv' /\ phase' \in Late
      BY <1>4, <2>1, ReserveStep DEF ImageInv
    <2> QED
      BY <1>1, <2>2 DEF ImageInv
  <1>5. CASE PlaceInMemory
    <2>1. InMemory' /\ phase' = "symbols"
      BY <1>5, Zenon DEF PlaceInMemory, InMemory
    <2>2. phase' \notin First \cup Second
      BY <2>1 DEF First, Second
    <2> QED
      BY <2>1, <2>2 DEF ImageInv
  <1>6. CASE \/ PlaceSection \/ NextSegment \/ FinishDynamic \/ PlaceOthers
             \/ relocate_syms \/ relocate_section \/ relocate_rel
    <2>1. /\ phase \in Late /\ mode' = mode
          /\ phase' \in Late \cup {"refused"}
      <3>1. CASE PlaceSection
        BY <3>1, Zenon DEF PlaceSection, Late
      <3>2. CASE NextSegment
        BY <3>2 DEF NextSegment, Late
      <3>3. CASE FinishDynamic
        BY <3>3, Zenon DEF FinishDynamic, Late
      <3>4. CASE PlaceOthers
        <4>1. phase = "sections" /\ mode' = mode /\ phase' \in {phase, "written", "symbols"}
          BY <3>4, Zenon DEF PlaceOthers
        <4> QED
          BY <4>1 DEF Late
      <3>5. CASE relocate_syms
        BY <3>5, Zenon DEF relocate_syms, Late
      <3>6. CASE relocate_section
        <4>1. phase = "relocate" /\ mode' = mode /\ phase' \in {"written", "relocations"}
          BY <3>6, Zenon DEF relocate_section
        <4> QED
          BY <4>1 DEF Late
      <3>7. CASE relocate_rel
        BY <3>7, Zenon DEF relocate_rel, Late
      <3> QED
        BY <1>6, <3>1, <3>2, <3>3, <3>4, <3>5, <3>6, <3>7
    <2>2. phase' \notin First \cup Second
      BY <1>1, <2>1
    <2>3. CASE InMemory
      <3>1. InMemory'
        BY <2>1, <2>3 DEF InMemory
      <3> QED
        BY <2>2, <3>1 DEF ImageInv
    <2>4. CASE ~InMemory
      <3>1. LateInv
        BY <2>1, <2>4 DEF ImageInv
      <3>2. phase' = "refused" \/ (LateInv' /\ phase' \in Late)
        BY <1>6, <2>4, <3>1, LateStep
      <3> QED
        BY <1>2, <2>2, <3>2 DEF ImageInv
    <2> QED
      BY <2>3, <2>4
  <1>7. CASE UNCHANGED outputVars
    <2>1. UNCHANGED <<mode, phase, addr, off>>
      BY <1>7 DEF outputVars
    <2>2. InMemory' <=> InMemory
      BY <2>1 DEF InMemory
    <2>3. EarlyInv => EarlyInv'
      BY <1>7, EarlyStays
    <2>4. LateInv => LateInv'
      BY <1>7, LateStays
    <2> QED
      BY <2>1, <2>2, <2>3, <2>4 DEF ImageInv
  <1> QED
    BY <1>3, <1>4, <1>5, <1>6, <1>7 DEF OutputNext

\* Two intervals, one behind the other, are apart.
LEMMA Intervals ==
  ASSUME NEW a \in Nat, NEW m \in Nat, NEW b \in Nat, NEW n \in Nat,
         a + m <= b \/ b + n <= a
  PROVE  (a .. a + m - 1) \cap (b .. b + n - 1) = {}
OBVIOUS

\* What the invariant says when the file is written is what the property asks.
LEMMA ImageIsLoadable ==
  ASSUME ImageInv
  PROVE  ImageLoads
PROOF
  <1> SUFFICES ASSUME phase = "written", ~InMemory
               PROVE  /\ FilesApart
                      /\ Linked => /\ MemoryApart /\ PagesApart /\ InStep
                                   /\ VariablesApart /\ VariablesInside
                                   /\ RelsInOnePiece
    BY DEF ImageLoads
  <1>1. LateInv
    BY DEF ImageInv, Late
  <1>2. SectionsOK(secs) /\ FileOK /\ InFilePlaced = InFile
    BY <1>1 DEF LateInv
  <1>3. \A i \in DOMAIN secs : secs[i].sh_size \in Nat
    <2>1. \A i \in DOMAIN secs : secs[i] \in SecRec
      BY <1>2 DEF SectionsOK
    <2>2. \A s \in SecRec : s.sh_size \in Nat
      BY DEF SecRec
    <2> QED
      BY <2>1, <2>2
  <1>4. FilesApart
    <2> SUFFICES ASSUME NEW i \in InFile, NEW j \in InFile, i # j
                 PROVE  FileSpan(i) \cap FileSpan(j) = {}
      BY DEF FilesApart
    <2>1. /\ i \in DOMAIN secs /\ j \in DOMAIN secs /\ i \in InFilePlaced /\ j \in InFilePlaced
      BY <1>2 DEF InFile
    <2>2. off[secs[i].name] \in Nat /\ off[secs[j].name] \in Nat
      BY <1>2, <2>1 DEF FileOK, InFilePlaced
    <2>3. \/ off[secs[i].name] + secs[i].sh_size <= off[secs[j].name]
          \/ off[secs[j].name] + secs[j].sh_size <= off[secs[i].name]
      BY <1>2, <2>1 DEF FileOK
    <2> QED
      BY <1>3, <2>1, <2>2, <2>3, Intervals DEF FileSpan
  <1>5. ASSUME Linked
        PROVE  /\ MemoryApart /\ PagesApart /\ InStep
               /\ VariablesApart /\ VariablesInside
               /\ RelsInOnePiece
    <2>1. Image
      BY <1>5 DEF Linked, Image
    <2>2. LayoutOK /\ AllPlaced /\ here.j = 2 /\ ImagePlaces
      BY <1>1, <2>1 DEF LateInv
    <2>3. \A i \in InMem : i \in DOMAIN secs /\ Placed(i) /\ addr[secs[i].name] \in Nat
      BY <2>2 DEF LayoutOK, MemoryOK, AllPlaced, InMem, Placed
    <2>4. MemoryApart
      <3> SUFFICES ASSUME NEW i \in InMem, NEW j \in InMem, i # j
                   PROVE  Span(i) \cap Span(j) = {}
        BY DEF MemoryApart
      <3>1. \/ addr[secs[i].name] + secs[i].sh_size <= addr[secs[j].name]
            \/ addr[secs[j].name] + secs[j].sh_size <= addr[secs[i].name]
        BY <2>2, <2>3 DEF LayoutOK, MemoryOK, End
      <3> QED
        BY <1>3, <2>3, <3>1, Intervals DEF Span
    <2>5. PagesApart
      <3> SUFFICES ASSUME NEW i \in InMem, NEW j \in InMem,
                          InSegment(secs[i], 0), InSegment(secs[j], 1)
                   PROVE  PagesOf(i) \cap PagesOf(j) = {}
        BY DEF PagesApart
      <3>1. PICK b \in Nat : Boundary(b)
        BY <2>2 DEF LayoutOK, PagesOK
      <3>2. PICK p \in Nat \ {0} : p = Page
        BY OutputAssumption
      <3>3. PICK x \in Nat : x = addr[secs[i].name]
        BY <2>3
      <3>4. PICK y \in Nat : y = addr[secs[j].name]
        BY <2>3
      <3>5. PICK m \in Nat : m = secs[i].sh_size
        BY <1>3, <2>3
      <3>6. PICK n \in Nat : n = secs[j].sh_size
        BY <1>3, <2>3
      <3>7. x + m <= b * p
        BY <2>3, <3>1, <3>2, <3>3, <3>5 DEF Boundary, End
      <3>8. b * p <= y
        BY <2>3, <3>1, <3>2, <3>4 DEF Boundary
      <3>9. \A a \in x .. x + m - 1 : a \div p < b
        <4> SUFFICES ASSUME NEW a \in Nat, a < b * p PROVE a \div p < b
          <5>1. \A a \in x .. x + m - 1 : a \in Nat /\ a < b * p
            BY <3>7
          <5> QED
            BY <5>1
        <4>1. PICK q \in Nat : q = a \div p
          OBVIOUS
        <4>2. q * p <= a
          BY <4>1
        <4>3. q < b
          BY <4>2
        <4> QED
          BY <4>1, <4>3
      <3>10. \A a \in y .. y + n - 1 : b <= a \div p
        <4> SUFFICES ASSUME NEW a \in Nat, b * p <= a PROVE b <= a \div p
          <5>1. \A a \in y .. y + n - 1 : a \in Nat /\ b * p <= a
            BY <3>8
          <5> QED
            BY <5>1
        <4>1. PICK q \in Nat : q = a \div p
          OBVIOUS
        <4>2. a < (q + 1) * p
          BY <4>1
        <4>3. b < q + 1
          BY <4>2
        <4> QED
          BY <4>1, <4>3
      <3>11. PagesOf(i) = {a \div p : a \in x .. x + m - 1} /\ PagesOf(j) = {a \div p : a \in y .. y + n - 1}
        BY <3>2, <3>3, <3>4, <3>5, <3>6 DEF PagesOf, Span
      <3>12. \A q \in PagesOf(i) : q \in Nat /\ q < b
        BY <3>9, <3>11
      <3>13. \A q \in PagesOf(j) : b <= q
        BY <3>10, <3>11
      <3> QED
        BY <3>12, <3>13
    <2>6. InStep
      BY <2>2, <2>3 DEF InStep, LayoutOK, StepOK
    <2>7. PICK i \in DOMAIN secs : secs[i].name = ".bss"
      BY <1>2 DEF SectionsOK
    <2>8. Fit(BssPlaces, addr[".bss"], addr[".bss"] + secs[i].sh_size)
      BY <2>2, <2>7 DEF ImagePlaces
    <2>9. VariablesApart
      BY <2>8 DEF VariablesApart, Fit, Apart
    <2>10. VariablesInside
      <3>1. i \in Number(secs, ".bss")
        BY <2>7 DEF Number
      <3> QED
        BY <2>8, <3>1 DEF VariablesInside, Fit
    <2>11. RelsInOnePiece
      <3>1. {k \in RelSections : Placed(k)} = RelSections
        BY <2>3 DEF RelSections, InMem
      <3>2. PICK lo \in Nat, hi \in Nat : Filled(lo, hi)
        BY <2>2 DEF LayoutOK, PieceOK
      <3>3. UNION {Span(k) : k \in RelSections} = lo .. hi - 1
        BY <3>1, <3>2 DEF Filled
      <3>4. \A a, b \in lo .. hi - 1 : a .. b \subseteq lo .. hi - 1
        OBVIOUS
      <3> QED
        BY <3>3, <3>4 DEF RelsInOnePiece
    <2> QED
      BY <2>4, <2>5, <2>6, <2>9, <2>10, <2>11
  <1> QED
    BY <1>4, <1>5

\* ImageLoads holds of every link of well-formed inputs: whatever sections,
\* symbols, libraries, relocations and page size they come with, the file that
\* tcc_output_file writes can be loaded.
THEOREM ImagesLoad == ASSUME WellFormed PROVE OutputSpec => []ImageLoads
PROOF
  <1>1. OutputInit => ImageInv
    BY ImageInit
  <1>2. ImageInv /\ [OutputNext]_outputVars => ImageInv'
    BY ImageStep
  <1>3. ImageInv => ImageLoads
    BY ImageIsLoadable
  <1> QED
    BY <1>1, <1>2, <1>3, PTL DEF OutputSpec

(***************************************************************************)
(* What is refused                                                         *)
(***************************************************************************)
Unresolved == {i \in DOMAIN symtab_section : IsUndef(symtab_section[i])}
InDynsym(n) == \E k \in DOMAIN dyn.syms : dyn.syms[k].name = n /\ dyn.syms[k].bind # "local"

\* A symbol of an executable that must be defined has its DLL.
Answered(i) ==
  MustBeDefined(symtab_section[i]) =>
    DefinedInLibs(symtab_section[i].name) /\ InDynsym(symtab_section[i].name)

BeforeSymbols == {"got", "segments", "dynamic", "sections", "symbols"}

\* What is left undefined is as it was in the inputs.
UnresolvedOK ==
  /\ \A i \in Unresolved : /\ symtab_section[i].bind # "local"
                           /\ MustBeDefined(symtab_section[i]) => ~OnlyUsedByLibs(symtab_section[i].name)
  /\ phase \in {"commons", "linker symbols"} => \A i \in DOMAIN secs : secs[i].name # "undef"

\* No symbol has a GOT entry before it was looked at.
NoEntryYet ==
  phase \in First \cup {"scan"} =>
    \A i \in Unresolved : \/ phase = "scan" /\ i < next
                          \/ i \in DOMAIN dyn.got_offsets /\ dyn.got_offsets[i] = 0

\* What the phases mean for the mode.
ModeOK ==
  /\ mode \in Modes
  /\ phase \in {"scan", "exports"} => Exe
  /\ phase = "export all" => MakesDll
  /\ phase \notin {"got", "sections", "written"} => mode.type # "obj"

\* Symbols are answered one after the other, and stay so until they have
\* addresses; a DLL exports them all.
AnswersOK ==
  /\ phase = "scan" => \A i \in Unresolved : i < next => Answered(i)
  /\ phase \in {"exports"} \cup BeforeSymbols /\ Exe /\ HasDynamic => \A i \in Unresolved : Answered(i)
  /\ phase \in BeforeSymbols /\ MakesDll => \A i \in Unresolved : InDynsym(symtab_section[i].name)
  /\ phase \in BeforeSymbols => /\ symtab_section \in Seq(SymRec)
                                /\ \E m \in Nat : DOMAIN dyn.syms = 1 .. m

EndOK ==
  /\ phase \in {"relocate", "relocations", "written"} /\ mode.type \in {"exe", "memory"} => Missing = {}
  /\ phase = "refused" => Missing # {} /\ mode.type \in {"exe", "memory"}

AnswerInv == UnresolvedOK /\ NoEntryYet /\ ModeOK /\ AnswersOK /\ EndOK

\* find_elf_sym finds an entry of the name that is not local, if there is one.
LEMMA Found ==
  ASSUME NEW tab, NEW m \in Nat, DOMAIN tab = 1 .. m, NEW n
  PROVE  \/ /\ find_elf_sym_in(tab, n) = 0
            /\ \A k \in DOMAIN tab : tab[k].name = n => tab[k].bind = "local"
         \/ /\ find_elf_sym_in(tab, n) # 0
            /\ find_elf_sym_in(tab, n) \in DOMAIN tab
            /\ tab[find_elf_sym_in(tab, n)].name = n
            /\ tab[find_elf_sym_in(tab, n)].bind # "local"
PROOF
  <1> DEFINE hits == {i \in Number(tab, n) : tab[i].bind # "local"}
  <1>1. \A i \in hits : i \in 1 .. m /\ tab[i].name = n /\ tab[i].bind # "local"
    BY DEF Number
  <1>2. \A i \in DOMAIN tab : tab[i].name = n /\ tab[i].bind # "local" => i \in hits
    BY DEF Number
  <1>3. find_elf_sym_in(tab, n) = IF hits = {} THEN 0 ELSE CHOOSE i \in hits : \A j \in hits : j <= i
    BY DEF find_elf_sym_in
  <1> HIDE DEF hits
  <1>4. CASE hits = {}
    BY <1>2, <1>3, <1>4
  <1>5. CASE hits # {}
    <2>1. \E i \in hits : \A j \in hits : j <= i
      <3>1. hits \in SUBSET Nat /\ \A i \in hits : i <= m
        BY <1>1
      <3> QED
        BY <1>5, <3>1, Greatest
    <2>2. find_elf_sym_in(tab, n) \in hits
      BY <1>3, <1>5, <2>1
    <2> QED
      BY <1>1, <2>2
  <1> QED
    BY <1>4, <1>5

\* What the DLLs have of a symbol.
LEMMA LibsHave ==
  ASSUME WellFormed, LibsTell, NEW s
  PROVE  /\ InLibs(s) = 0 => ~DefinedInLibs(s.name)
         /\ InLibs(s) # 0 => /\ InLibs(s) \in DOMAIN Libs
                             /\ Libs[InLibs(s)].name = s.name
                             /\ Libs[InLibs(s)].bind # "local"
                             /\ ~IsUndef(Libs[InLibs(s)]) => DefinedInLibs(s.name)
                             /\ IsUndef(Libs[InLibs(s)]) => OnlyUsedByLibs(s.name)
PROOF
  <1>1. Libs \in Seq(SymRec)
    BY DEF WellFormed
  <1>2. PICK m \in Nat : DOMAIN Libs = 1 .. m
    BY <1>1
  <1>3. \A k \in DOMAIN Libs : Libs[k].bind # "local"
    BY DEF LibsTell
  <1>4. InLibs(s) = find_elf_sym_in(Libs, s.name)
    BY DEF InLibs
  <1> QED
    BY <1>2, <1>3, <1>4, Found DEF DefinedInLibs, OnlyUsedByLibs

\* A symbol is missing if it must be defined, and no DLL may or does.
LEMMA MissingIs ==
  Missing = {i \in Unresolved : /\ MustBeDefined(symtab_section[i])
                                /\ mode.static \/ ~DefinedInLibs(symtab_section[i].name)}
PROOF
  <1>1. \A n : DefinedInLibs(n) <=> \E k \in Number(Libs, n) : ~IsUndef(Libs[k])
    BY DEF DefinedInLibs, Number
  <1> QED
    BY <1>1 DEF Missing, Unresolved, MustBeDefined

\* From old to new, symbols are only defined, or added defined.
Resolves(old, new) ==
  \A i \in DOMAIN new : IsUndef(new[i]) =>
    /\ i \in DOMAIN old /\ IsUndef(old[i])
    /\ new[i].name = old[i].name /\ new[i].bind = old[i].bind

\* Then what is said of symbols that are undefined still holds.
LEMMA ResolvesKeeps ==
  ASSUME Resolves(symtab_section, symtab_section')
  PROVE  \A i \in Unresolved' :
           /\ i \in Unresolved
           /\ symtab_section'[i].name = symtab_section[i].name
           /\ symtab_section'[i].bind = symtab_section[i].bind
           /\ MustBeDefined(symtab_section'[i]) <=> MustBeDefined(symtab_section[i])
PROOF
  BY DEF Resolves, Unresolved, MustBeDefined

\* The names in .dynsym stay.
Keeps(old, new) ==
  /\ DOMAIN old \subseteq DOMAIN new
  /\ \A k \in DOMAIN old : new[k].name = old[k].name /\ new[k].bind = old[k].bind

\* So do the answers.
LEMMA AnswersStay ==
  ASSUME Resolves(symtab_section, symtab_section'), Keeps(dyn.syms, dyn'.syms)
  PROVE  \A i \in Unresolved' :
           /\ Answered(i) => Answered(i)'
           /\ InDynsym(symtab_section[i].name) => InDynsym(symtab_section[i].name)'
PROOF
  <1>1. \A n : InDynsym(n) => \E k \in DOMAIN dyn'.syms : dyn'.syms[k].name = n /\ dyn'.syms[k].bind # "local"
    BY DEF Keeps, InDynsym
  <1>2. \A i \in Unresolved' :
          /\ symtab_section'[i].name = symtab_section[i].name
          /\ MustBeDefined(symtab_section'[i]) <=> MustBeDefined(symtab_section[i])
    BY ResolvesKeeps
  <1> QED
    BY <1>1, <1>2 DEF Answered, InDynsym

LEMMA SameResolves == ASSUME NEW tab PROVE Resolves(tab, tab)
PROOF
  BY DEF Resolves

LEMMA SameKeeps == ASSUME NEW syms PROVE Keeps(syms, syms)
PROOF
  BY DEF Keeps

LEMMA GrownNames ==
  ASSUME NEW list \in Seq(SecRec), NEW n, NEW size
  PROVE  /\ DOMAIN Grown(list, n, size) = DOMAIN list
         /\ \A i \in DOMAIN list : Grown(list, n, size)[i].name = list[i].name
PROOF
  <1>1. \A s \in SecRec : \A v : [s EXCEPT !.data_offset = v].name = s.name
    BY DEF SecRec
  <1>2. \A i \in DOMAIN list : list[i] \in SecRec
    OBVIOUS
  <1> QED
    BY <1>1, <1>2 DEF Grown

\* Storage for common symbols defines nothing that was undefined.
LEMMA CommonsAnswer ==
  ASSUME EarlyInv, AnswerInv, relocate_common_syms
  PROVE  AnswerInv'
PROOF
  <1>1. /\ phase = "commons" /\ phase' = "linker symbols"
        /\ symtab_section' = WithStorage
        /\ UNCHANGED <<mode, next, dyn>>
    BY Zenon DEF relocate_common_syms, WithStorage
  <1>2. symtab_section \in Seq(SymRec)
    BY DEF EarlyInv, SymbolsOK
  <1>3. Resolves(symtab_section, symtab_section')
    <2>1. \A s \in SymRec : \A v : ~IsUndef([s EXCEPT !.sec = ".bss", !.value = v])
      BY DEF SymRec, IsUndef
    <2>2. DOMAIN WithStorage = DOMAIN symtab_section
      BY DEF WithStorage
    <2>3. \A i \in DOMAIN symtab_section : WithStorage[i] = symtab_section[i] \/ ~IsUndef(WithStorage[i])
      <3> TAKE i \in DOMAIN symtab_section
      <3>1. symtab_section[i] \in SymRec
        BY <1>2
      <3> QED
        BY <2>1, <3>1 DEF WithStorage
    <2> QED
      BY <1>1, <2>2, <2>3 DEF Resolves
  <1>4. \A i \in Unresolved' :
          /\ i \in Unresolved
          /\ symtab_section'[i].name = symtab_section[i].name
          /\ symtab_section'[i].bind = symtab_section[i].bind
          /\ MustBeDefined(symtab_section'[i]) <=> MustBeDefined(symtab_section[i])
    BY <1>3, ResolvesKeeps
  <1>5. \A i \in DOMAIN secs' : secs'[i].name # "undef"
    <2>1. \A i \in DOMAIN secs : secs[i].name # "undef"
      BY <1>1 DEF AnswerInv, UnresolvedOK
    <2>2. DOMAIN secs' = DOMAIN secs /\ \A i \in DOMAIN secs : secs'[i].name = secs[i].name
      <3>1. secs \in Seq(SecRec)
        BY DEF EarlyInv, SectionsOK
      <3>2. PICK end : secs' = Grown(secs, ".bss", end)
        BY Zenon DEF relocate_common_syms
      <3> QED
        BY <3>1, <3>2, GrownNames
    <2> QED
      BY <2>1, <2>2
  <1>6. UnresolvedOK'
    BY <1>4, <1>5 DEF AnswerInv, UnresolvedOK
  <1>7. NoEntryYet'
    BY <1>1, <1>4 DEF AnswerInv, NoEntryYet, First
  <1>8. ModeOK'
    BY <1>1 DEF AnswerInv, ModeOK, Exe, MakesDll
  <1>9. AnswersOK' /\ EndOK'
    BY <1>1 DEF AnswersOK, EndOK, BeforeSymbols
  <1> QED
    BY <1>6, <1>7, <1>8, <1>9 DEF AnswerInv

\* The linker's own symbols are defined.
LEMMA LinkersAnswer ==
  ASSUME LibsTell, EarlyInv, AnswerInv, tcc_add_linker_symbols
  PROVE  AnswerInv'
PROOF
  <1>1. /\ phase = "linker symbols"
        /\ secs' = WithInitArrays
        /\ phase' = IF HasDynamic THEN "dynamic sections" ELSE "got"
        /\ UNCHANGED <<mode, dyn>>
    BY DEF tcc_add_linker_symbols
  <1>2. PICK S : S = Strings \ {"undef"}
    OBVIOUS
  <1>3. \A i \in DOMAIN secs' : secs'[i].name \in S
    <2>1. Adds(secs, secs', {ArrayName(k) : k \in 1 .. 3})
      BY <1>1, AddingArrays DEF EarlyInv
    <2>2. \A i \in DOMAIN secs : secs[i].name # "undef"
      BY <1>1 DEF AnswerInv, UnresolvedOK
    <2>3. \A i \in DOMAIN secs' : secs'[i].name # "undef"
      BY <2>1, <2>2, NamesAssumption DEF Adds
    <2>4. \A i \in DOMAIN secs' : secs'[i] \in SecRec
      BY <2>1 DEF Adds, SectionsOK
    <2>5. \A q \in SecRec : q.name \in Strings
      BY DEF SecRec, Strings
    <2> QED
      BY <1>2, <2>3, <2>4, <2>5
  <1>4. /\ symtab_section' \in Seq(SymRec)
        /\ DOMAIN symtab_section \subseteq DOMAIN symtab_section'
        /\ \A i \in DOMAIN symtab_section :
             \/ symtab_section'[i] \in NotypeIn(S) /\ symtab_section[i].sec = "undef"
             \/ symtab_section'[i] = symtab_section[i]
        /\ \A i \in DOMAIN symtab_section' \ DOMAIN symtab_section : symtab_section'[i] \in NotypeIn(S)
    <2>1. S \subseteq Strings
      BY <1>2
    <2> QED
      BY <1>3, <2>1, LinkerTable
  <1>5. Resolves(symtab_section, symtab_section')
    <2>1. \A s \in NotypeIn(S) : ~IsUndef(s)
      BY <1>2 DEF NotypeIn, IsUndef
    <2>2. \A i \in DOMAIN symtab_section' : IsUndef(symtab_section'[i]) =>
            i \in DOMAIN symtab_section /\ symtab_section'[i] = symtab_section[i]
      BY <1>4, <2>1
    <2> QED
      BY <2>2 DEF Resolves
  <1>6. \A i \in Unresolved' :
          /\ i \in Unresolved
          /\ symtab_section'[i].name = symtab_section[i].name
          /\ symtab_section'[i].bind = symtab_section[i].bind
          /\ MustBeDefined(symtab_section'[i]) <=> MustBeDefined(symtab_section[i])
    BY <1>5, ResolvesKeeps
  <1>7. UnresolvedOK'
    BY <1>1, <1>6 DEF AnswerInv, UnresolvedOK
  <1>8. NoEntryYet'
    BY <1>1, <1>6 DEF AnswerInv, NoEntryYet, First
  <1>9. ModeOK'
    BY <1>1 DEF AnswerInv, ModeOK, Exe, MakesDll
  <1>10. AnswersOK'
    <2>1. CASE HasDynamic
      BY <1>1, <2>1 DEF AnswersOK, BeforeSymbols
    <2>2. CASE ~HasDynamic
      <3>1. phase' = "got" /\ ~HasDynamic'
        BY <1>1, <2>2 DEF HasDynamic, InMemory
      <3>2. ~MakesDll'
        BY <1>1, <2>2 DEF MakesDll, HasDynamic, InMemory, AnswerInv, ModeOK, LibsTell
      <3>3. \E m \in Nat : DOMAIN dyn'.syms = 1 .. m
        <4>1. dyn.syms \in Seq(SymRec) /\ dyn' = dyn
          BY <1>1 DEF EarlyInv, DynRec
        <4> QED
          BY <4>1
      <3> QED
        BY <1>4, <3>1, <3>2, <3>3 DEF AnswersOK
    <2> QED
      BY <2>1, <2>2
  <1>11. EndOK'
    BY <1>1 DEF EndOK
  <1> QED
    BY <1>7, <1>8, <1>9, <1>10, <1>11 DEF AnswerInv

\* _GLOBAL_OFFSET_TABLE_ is defined.
LEMMA GotSymbolResolves ==
  ASSUME NEW tab \in Seq(SymRec)
  PROVE  Resolves(tab, WithGotSymbol(tab))
PROOF
  <1>1. CASE find_elf_sym_in(tab, "_GLOBAL_OFFSET_TABLE_") # 0
    BY <1>1, SameResolves DEF WithGotSymbol
  <1>2. CASE find_elf_sym_in(tab, "_GLOBAL_OFFSET_TABLE_") = 0
    <2>1. PICK s : s = [Notype("_GLOBAL_OFFSET_TABLE_", ".got", 0) EXCEPT !.type = "object"]
      OBVIOUS
    <2>2. s = [name |-> "_GLOBAL_OFFSET_TABLE_", bind |-> "global", type |-> "object", sec |-> ".got",
               value |-> 0, size |-> 0]
      BY <2>1 DEF Notype
    <2>3. ~IsUndef(s)
      BY <2>2 DEF IsUndef
    <2>4. PICK new : new = Append(tab, s)
      OBVIOUS
    <2>5. /\ DOMAIN new = 1 .. Len(tab) + 1 /\ DOMAIN tab = 1 .. Len(tab) /\ Len(tab) \in Nat
          /\ \A i \in 1 .. Len(tab) : new[i] = tab[i]
          /\ new[Len(tab) + 1] = s
      BY <2>4
    <2>6. \A i \in DOMAIN new : (i \in DOMAIN tab /\ new[i] = tab[i]) \/ new[i] = s
      BY <2>5
    <2>7. Resolves(tab, new)
      BY <2>3, <2>6 DEF Resolves
    <2> QED
      BY <1>2, <2>1, <2>4, <2>7 DEF WithGotSymbol
  <1> QED
    BY <1>1, <1>2

\* No symbol has an entry in a GOT that is begun.
LEMMA GotBegins ==
  ASSUME NEW d, DynRec(d)
  PROVE  build_got(d).got_offsets = d.got_offsets
PROOF
  <1>1. d = [syms |-> d.syms, got |-> d.got, plt |-> d.plt,
             symtab_to_dynsym |-> d.symtab_to_dynsym, got_offsets |-> d.got_offsets]
    BY DEF DynRec
  <1>2. PICK a, b, c, f, g : d = [syms |-> a, got |-> b, plt |-> c, symtab_to_dynsym |-> f, got_offsets |-> g]
    BY <1>1
  <1>3. PICK e, w : e = build_got(d) /\ w = <<0, 0, 0>>
    OBVIOUS
  <1>4. e = [d EXCEPT !.got = w]
    BY <1>3 DEF build_got
  <1>5. e.got_offsets = g /\ d.got_offsets = g
    BY <1>2, <1>4
  <1> QED
    BY <1>3, <1>5

LEMMA DynamicAnswer ==
  ASSUME LibsTell, EarlyInv, AnswerInv, new_dynamic_sections
  PROVE  AnswerInv'
PROOF
  <1>1. /\ phase = "dynamic sections"
        /\ dyn' = build_got(dyn)
        /\ symtab_section' = WithGotSymbol(symtab_section)
        /\ phase' = IF Exe THEN "scan" ELSE "export all"
        /\ next' = 1
        /\ mode' = mode
    BY DEF new_dynamic_sections
  <1>2. symtab_section \in Seq(SymRec) /\ DynRec(dyn) /\ HasDynamic
    BY <1>1 DEF EarlyInv, SymbolsOK, NotYet, First
  <1>3. Resolves(symtab_section, symtab_section')
    BY <1>1, <1>2, GotSymbolResolves
  <1>4. \A i \in Unresolved' :
          /\ i \in Unresolved
          /\ symtab_section'[i].name = symtab_section[i].name
          /\ symtab_section'[i].bind = symtab_section[i].bind
          /\ MustBeDefined(symtab_section'[i]) <=> MustBeDefined(symtab_section[i])
    BY <1>3, ResolvesKeeps
  <1>5. phase' \in {"scan", "export all"}
    BY <1>1
  <1>6. UnresolvedOK'
    BY <1>4, <1>5 DEF AnswerInv, UnresolvedOK
  <1>7. dyn'.got_offsets = dyn.got_offsets
    BY <1>1, <1>2, GotBegins
  <1>8. NoEntryYet'
    BY <1>1, <1>4, <1>7 DEF AnswerInv, NoEntryYet, First
  <1>9. ModeOK'
    <2>1. mode.type \in {"exe", "dll", "memory", "obj"} /\ mode.type # "obj" /\ mode \in Modes
      BY <1>1 DEF AnswerInv, ModeOK, LibsTell
    <2>2. phase' = "export all" => MakesDll
      BY <1>1, <1>2, <2>1 DEF Exe, MakesDll, HasDynamic, InMemory
    <2>3. phase' = "scan" => Exe
      BY <1>1
    <2> QED
      BY <1>1, <1>5, <2>1, <2>2, <2>3 DEF ModeOK, Exe, MakesDll
  <1>10. AnswersOK'
    <2>1. \A i \in Unresolved' : ~(i < next')
      <3> TAKE i \in Unresolved'
      <3>1. i \in DOMAIN symtab_section
        BY <1>4 DEF Unresolved
      <3>2. i \in 1 .. Len(symtab_section) /\ Len(symtab_section) \in Nat
        BY <1>2, <3>1
      <3>3. ~(i < 1)
        BY <3>2
      <3>4. next' = 1
        BY <1>1
      <3> QED
        BY <3>3, <3>4
    <2> QED
      BY <1>5, <2>1 DEF AnswersOK, BeforeSymbols
  <1>11. EndOK'
    BY <1>5 DEF EndOK
  <1> QED
    BY <1>6, <1>8, <1>9, <1>10, <1>11 DEF AnswerInv

\* A symbol's first entry in the GOT puts its name in .dynsym.
LEMMA GotEntryAnswers ==
  ASSUME NEW d, DynRec(d), NEW rt, NEW info,
         NEW i \in DOMAIN symtab_section, symtab_section \in Seq(SymRec)
  PROVE  /\ \A j \in DOMAIN d.got_offsets : j # i =>
              /\ j \in DOMAIN put_got_entry(d, rt, info, i).got_offsets
              /\ put_got_entry(d, rt, info, i).got_offsets[j] = d.got_offsets[j]
         /\ HasDynamic /\ d.got_offsets[i] = 0 =>
              \E k \in DOMAIN put_got_entry(d, rt, info, i).syms :
                /\ put_got_entry(d, rt, info, i).syms[k].name = symtab_section[i].name
                /\ put_got_entry(d, rt, info, i).syms[k].bind = info.bind
PROOF
  <1> DEFINE plt == IF HasDynamic /\ rt = "JMP_SLOT"
                    THEN Append(IF d.plt = <<>> THEN <<0>> ELSE d.plt, GotOffset(d)) ELSE <<>>
             u == [d EXCEPT !.got = Append(@, 0), !.got_offsets[i] = GotOffset(d),
                            !.plt = IF plt = <<>> THEN @ ELSE plt]
             sym == [symtab_section[i] EXCEPT !.value = GotSymbolValue(plt, i), !.type = info.type, !.bind = info.bind]
  <1>1. PICK e : e = put_got_entry(d, rt, info, i)
    OBVIOUS
  <1>2. e = IF d.got_offsets[i] # 0 THEN d ELSE IF HasDynamic THEN put_elf_sym(u, sym) ELSE u
    BY <1>1 DEF put_got_entry
  <1>3. sym.name = symtab_section[i].name /\ sym.bind = info.bind
    <2>1. PICK s \in SymRec : s = symtab_section[i]
      OBVIOUS
    <2> HIDE DEF plt
    <2> QED
      BY <2>1 DEF SymRec
  <1> HIDE DEF plt, sym
  <1>4. PICK a, b, c, f, g : d = [syms |-> a, got |-> b, plt |-> c, symtab_to_dynsym |-> f, got_offsets |-> g]
    BY DEF DynRec
  <1>5. d.syms = a /\ d.got = b /\ d.plt = c /\ d.got_offsets = g /\ a \in Seq(SymRec)
    BY <1>4 DEF DynRec
  <1>6. PICK pl, w, h : /\ pl = IF plt = <<>> THEN c ELSE plt
                        /\ w = Append(b, 0)
                        /\ h = [g EXCEPT ![i] = GotOffset(d)]
    OBVIOUS
  <1>7. u = [d EXCEPT !.got = w, !.got_offsets = h, !.plt = pl]
    BY <1>5, <1>6
  <1> HIDE DEF u
  <1>8. u = [syms |-> a, got |-> w, plt |-> pl, symtab_to_dynsym |-> f, got_offsets |-> h]
    BY <1>4, <1>7
  <1>9. u.syms = a /\ u.got_offsets = h
    BY <1>8
  <1>10. \A j \in DOMAIN g : j # i => j \in DOMAIN h /\ h[j] = g[j]
    BY <1>6
  <1>11. PICK new : new = Append(a, sym)
    OBVIOUS
  <1>12. PICK v : v = put_elf_sym(u, sym)
    OBVIOUS
  <1>13. v = [syms |-> new, got |-> w, plt |-> pl, symtab_to_dynsym |-> f, got_offsets |-> h]
    <2>1. v = [u EXCEPT !.syms = new]
      BY <1>9, <1>11, <1>12 DEF put_elf_sym
    <2> QED
      BY <1>8, <2>1
  <1>14. v.syms = new /\ v.got_offsets = h
    BY <1>13
  <1>15. Len(a) + 1 \in DOMAIN new /\ new[Len(a) + 1] = sym
    BY <1>5, <1>11
  <1>16. e = d \/ e = u \/ e = v
    BY <1>2, <1>12
  <1>17. \A j \in DOMAIN g : j # i => j \in DOMAIN e.got_offsets /\ e.got_offsets[j] = g[j]
    BY <1>5, <1>9, <1>10, <1>14, <1>16
  <1>18. ASSUME HasDynamic, d.got_offsets[i] = 0
         PROVE  \E k \in DOMAIN e.syms : e.syms[k].name = symtab_section[i].name /\ e.syms[k].bind = info.bind
    <2>1. e = v
      BY <1>2, <1>12, <1>18
    <2> QED
      BY <1>3, <1>14, <1>15, <2>1
  <1> QED
    BY <1>1, <1>5, <1>17, <1>18

\* A symbol added to .dynsym takes no entry in the GOT.
LEMMA PutSymAnswers ==
  ASSUME NEW d, DynRec(d), NEW s
  PROVE  /\ put_elf_sym(d, s).got_offsets = d.got_offsets
         /\ Keeps(d.syms, put_elf_sym(d, s).syms)
         /\ \E k \in DOMAIN put_elf_sym(d, s).syms : put_elf_sym(d, s).syms[k] = s
PROOF
  <1>1. PICK a, b, c, f, g : d = [syms |-> a, got |-> b, plt |-> c, symtab_to_dynsym |-> f, got_offsets |-> g]
    BY DEF DynRec
  <1>2. d.syms = a /\ d.got_offsets = g /\ a \in Seq(SymRec)
    BY <1>1 DEF DynRec
  <1>3. PICK new, v : new = Append(a, s) /\ v = put_elf_sym(d, s)
    OBVIOUS
  <1>4. v = [d EXCEPT !.syms = new]
    BY <1>2, <1>3 DEF put_elf_sym
  <1>5. v.syms = new /\ v.got_offsets = g
    BY <1>1, <1>4
  <1>6. /\ DOMAIN a \subseteq DOMAIN new
        /\ \A k \in DOMAIN a : new[k] = a[k]
        /\ Len(a) + 1 \in DOMAIN new /\ new[Len(a) + 1] = s
    BY <1>2, <1>3
  <1> QED
    BY <1>2, <1>3, <1>5, <1>6 DEF Keeps

\* What a step of the scan has to leave, for all symbols to be answered when
\* it ends.
LEMMA ScanGoesOn ==
  ASSUME EarlyInv, AnswerInv, phase = "scan", phase' = "scan", next' = next + 1,
         UNCHANGED <<mode, symtab_section>>,
         Keeps(dyn.syms, dyn'.syms),
         \A j \in DOMAIN dyn.got_offsets : j # next =>
           j \in DOMAIN dyn'.got_offsets /\ dyn'.got_offsets[j] = dyn.got_offsets[j],
         NEW at, at = next, at \in Unresolved => Answered(at)'
  PROVE  AnswerInv'
PROOF
  <1>1. Unresolved' = Unresolved
    BY DEF Unresolved
  <1>2. UnresolvedOK'
    BY <1>1 DEF AnswerInv, UnresolvedOK, MustBeDefined
  <1>3. \A i \in Unresolved : i \in Int /\ next \in Int
    <2>1. next \in Nat /\ symtab_section \in Seq(SymRec)
      BY DEF EarlyInv, SymbolsOK
    <2>2. \A i \in DOMAIN symtab_section : i \in Nat
      BY <2>1
    <2> QED
      BY <2>1, <2>2 DEF Unresolved
  <1>4. NoEntryYet'
    <2> SUFFICES ASSUME NEW i \in Unresolved, ~(i < next')
                 PROVE  i \in DOMAIN dyn'.got_offsets /\ dyn'.got_offsets[i] = 0
      BY <1>1 DEF NoEntryYet
    <2>1. ~(i < next) /\ i # next
      BY <1>3
    <2>2. i \in DOMAIN dyn.got_offsets /\ dyn.got_offsets[i] = 0
      BY <2>1 DEF AnswerInv, NoEntryYet
    <2> QED
      BY <2>1, <2>2
  <1>5. ModeOK'
    BY DEF AnswerInv, ModeOK, Exe, MakesDll
  <1>6. AnswersOK'
    <2>1. \A i \in Unresolved : i < next => Answered(i)
      BY DEF AnswerInv, AnswersOK
    <2>2. Resolves(symtab_section, symtab_section')
      BY SameResolves
    <2>3. \A i \in Unresolved : Answered(i) => Answered(i)'
      BY <1>1, <2>2, AnswersStay
    <2>4. ASSUME NEW i \in Unresolved, i < next'
          PROVE  Answered(i)'
      <3>1. i < next \/ i = next
        BY <1>3, <2>4
      <3> QED
        BY <2>1, <2>3, <3>1
    <2> QED
      BY <1>1, <2>4 DEF AnswersOK, BeforeSymbols
  <1>7. EndOK'
    BY DEF EndOK
  <1> QED
    BY <1>2, <1>4, <1>5, <1>6, <1>7 DEF AnswerInv

LEMMA ScanAnswer ==
  ASSUME WellFormed, LibsTell, EarlyInv, AnswerInv, ScanSymbol
  PROVE  AnswerInv'
PROOF
  <1>1. /\ phase = "scan"
        /\ next <= Len(symtab_section)
        /\ next' = next + 1
        /\ UNCHANGED <<mode, symtab_section>>
    BY DEF ScanSymbol
  <1>2. /\ symtab_section \in Seq(SymRec)
        /\ DynRec(dyn) /\ HasDynamic
        /\ next \in Nat \ {0}
    BY <1>1 DEF EarlyInv, SymbolsOK, NotYet
  <1>3. PICK at, s, esym : at = next /\ s = symtab_section[next] /\ esym = Libs[InLibs(s)]
    OBVIOUS
  <1>4. at \in DOMAIN symtab_section /\ s \in SymRec /\ s = symtab_section[at]
    BY <1>1, <1>2, <1>3
  <1>5. \/ IsUndef(s) /\ InLibs(s) # 0 /\ PutGotEntry(dyn, secs, "JMP_SLOT", esym, at) /\ UNCHANGED phase
        \/ IsUndef(s) /\ InLibs(s) # 0 /\ PutCopy(s, esym) /\ UNCHANGED phase
        \/ IsUndef(s) /\ InLibs(s) = 0 /\ MustBeDefined(s) /\ phase' = "refused"
        \/ ~IsUndef(s) /\ dyn' = put_elf_sym(dyn, s) /\ UNCHANGED phase
        \/ /\ ~(IsUndef(s) /\ InLibs(s) # 0 /\ esym.type = "func")
           /\ ~(IsUndef(s) /\ InLibs(s) # 0 /\ esym.type = "object")
           /\ ~(IsUndef(s) /\ InLibs(s) = 0 /\ MustBeDefined(s))
           /\ UNCHANGED <<dyn, phase>>
    BY <1>3, Zenon DEF ScanSymbol
  <1>6. /\ InLibs(s) = 0 => ~DefinedInLibs(s.name)
        /\ InLibs(s) # 0 => /\ InLibs(s) \in DOMAIN Libs
                            /\ esym.name = s.name
                            /\ esym.bind # "local"
                            /\ ~IsUndef(esym) => DefinedInLibs(s.name)
                            /\ IsUndef(esym) => OnlyUsedByLibs(s.name)
    BY <1>3, LibsHave
  <1>7. /\ at \in Unresolved <=> IsUndef(s)
        /\ IsUndef(s) /\ MustBeDefined(s) => ~OnlyUsedByLibs(s.name)
    <2>1. at \in Unresolved <=> IsUndef(s)
      BY <1>4 DEF Unresolved
    <2> QED
      BY <1>4, <2>1 DEF AnswerInv, UnresolvedOK
  <1>8. InLibs(s) # 0 /\ ~IsUndef(esym) => esym.type \in {"func", "object"}
    BY <1>3, <1>6 DEF LibsTell
  <1>9. InLibs(s) # 0 => esym \in SymRec
    <2>1. Libs \in Seq(SymRec)
      BY DEF WellFormed
    <2> QED
      BY <1>3, <1>6, <2>1
  <1>10. symtab_section'[at] = s
    BY <1>1, <1>4
  <1>11. ASSUME NEW k \in DOMAIN dyn'.syms, dyn'.syms[k].name = s.name, dyn'.syms[k].bind # "local",
                IsUndef(s), InLibs(s) # 0
         PROVE  Answered(at)'
    <2>1. MustBeDefined(s) => DefinedInLibs(s.name)
      BY <1>6, <1>7, <1>11
    <2> QED
      BY <1>10, <1>11, <2>1 DEF Answered, InDynsym
  <1>12. CASE IsUndef(s) /\ InLibs(s) # 0 /\ PutGotEntry(dyn, secs, "JMP_SLOT", esym, at) /\ UNCHANGED phase
    <2>1. PICK e : e = put_got_entry(dyn, "JMP_SLOT", esym, at)
      OBVIOUS
    <2>2. dyn' = e
      BY <1>12, <2>1 DEF PutGotEntry
    <2>3. esym.type \in Strings /\ esym.bind \in Strings /\ "JMP_SLOT" \in Strings
      <3>1. "JMP_SLOT" \in Strings
        BY DEF Strings
      <3> QED
        BY <1>9, <1>12, <3>1 DEF SymRec
    <2>4. Extends(dyn.syms, e.syms)
      BY <1>2, <1>4, <2>1, <2>3, GotEntryIs
    <2>5. dyn.got_offsets[at] = 0
      <3>1. ~(at < next)
        BY <1>2, <1>3
      <3>2. at \in Unresolved
        BY <1>7, <1>12
      <3> QED
        BY <1>1, <3>1, <3>2 DEF AnswerInv, NoEntryYet
    <2>6. /\ \A j \in DOMAIN dyn.got_offsets : j # at =>
               j \in DOMAIN e.got_offsets /\ e.got_offsets[j] = dyn.got_offsets[j]
          /\ \E k \in DOMAIN e.syms : e.syms[k].name = s.name /\ e.syms[k].bind = esym.bind
      BY <1>2, <1>4, <2>1, <2>5, GotEntryAnswers
    <2>7. Answered(at)'
      BY <1>6, <1>11, <1>12, <2>2, <2>6
    <2>8. Keeps(dyn.syms, dyn'.syms)
      BY <2>2, <2>4 DEF Extends, Keeps
    <2> QED
      BY <1>1, <1>3, <1>12, <2>2, <2>6, <2>7, <2>8, ScanGoesOn
  <1>13. CASE IsUndef(s) /\ InLibs(s) # 0 /\ PutCopy(s, esym) /\ UNCHANGED phase
    <2>1. PICK place : place = AlignedTo(Section(".bss").data_offset, 4)
      OBVIOUS
    <2>2. PICK c : c = [s EXCEPT !.value = place, !.size = esym.size, !.type = "object",
                                 !.bind = esym.bind, !.sec = ".bss"]
      OBVIOUS
    <2>3. dyn' = put_elf_sym(dyn, c)
      BY <1>13, <2>1, <2>2 DEF PutCopy
    <2>4. c.name = s.name /\ c.bind = esym.bind
      BY <1>4, <2>2 DEF SymRec
    <2>5. /\ put_elf_sym(dyn, c).got_offsets = dyn.got_offsets
          /\ Keeps(dyn.syms, put_elf_sym(dyn, c).syms)
          /\ \E k \in DOMAIN put_elf_sym(dyn, c).syms : put_elf_sym(dyn, c).syms[k] = c
      BY <1>2, PutSymAnswers
    <2>6. Answered(at)'
      BY <1>6, <1>11, <1>13, <2>3, <2>4, <2>5
    <2> QED
      BY <1>1, <1>3, <1>13, <2>3, <2>5, <2>6, ScanGoesOn
  <1>14. CASE IsUndef(s) /\ InLibs(s) = 0 /\ MustBeDefined(s) /\ phase' = "refused"
    <2>1. Unresolved' = Unresolved
      BY <1>1 DEF Unresolved
    <2>2. UnresolvedOK'
      BY <1>1, <1>14, <2>1 DEF AnswerInv, UnresolvedOK, MustBeDefined
    <2>3. NoEntryYet' /\ AnswersOK'
      BY <1>14 DEF NoEntryYet, First, AnswersOK, BeforeSymbols
    <2>4. ModeOK' /\ mode.type = "exe"
      BY <1>1, <1>14 DEF AnswerInv, ModeOK, Exe
    <2>5. at \in Missing
      BY <1>4, <1>6, <1>7, <1>14, MissingIs
    <2>6. Missing' = Missing
      BY <1>1 DEF Missing
    <2>7. EndOK'
      BY <1>1, <1>14, <2>4, <2>5, <2>6 DEF EndOK
    <2> QED
      BY <2>2, <2>3, <2>4, <2>7 DEF AnswerInv
  <1>15. CASE ~IsUndef(s) /\ dyn' = put_elf_sym(dyn, s) /\ UNCHANGED phase
    <2>1. /\ dyn'.got_offsets = dyn.got_offsets
          /\ Keeps(dyn.syms, dyn'.syms)
      BY <1>2, <1>4, <1>15, PutSymAnswers
    <2> QED
      BY <1>1, <1>3, <1>7, <1>15, <2>1, ScanGoesOn
  <1>16. CASE /\ ~(IsUndef(s) /\ InLibs(s) # 0 /\ esym.type = "func")
              /\ ~(IsUndef(s) /\ InLibs(s) # 0 /\ esym.type = "object")
              /\ ~(IsUndef(s) /\ InLibs(s) = 0 /\ MustBeDefined(s))
              /\ UNCHANGED <<dyn, phase>>
    <2>1. IsUndef(s) => ~MustBeDefined(s)
      BY <1>6, <1>7, <1>8, <1>16
    <2>2. at \in Unresolved => Answered(at)'
      BY <1>7, <1>10, <2>1 DEF Answered, MustBeDefined
    <2>3. Keeps(dyn.syms, dyn'.syms)
      BY <1>16, SameKeeps
    <2> QED
      BY <1>1, <1>3, <1>16, <2>2, <2>3, ScanGoesOn
  <1> QED
    BY <1>5, <1>12, <1>13, <1>14, <1>15, <1>16

\* The executable's symbols have all been looked at.
LEMMA ScannedAnswer ==
  ASSUME EarlyInv, AnswerInv, Scanned
  PROVE  AnswerInv'
PROOF
  <1>1. /\ phase = "scan" /\ phase' = "exports"
        /\ next > Len(symtab_section)
        /\ UNCHANGED <<mode, next, symtab_section, dyn>>
    BY DEF Scanned
  <1>2. Unresolved' = Unresolved
    BY <1>1 DEF Unresolved
  <1>3. UnresolvedOK'
    BY <1>1, <1>2 DEF AnswerInv, UnresolvedOK, MustBeDefined
  <1>4. NoEntryYet' /\ EndOK'
    BY <1>1 DEF NoEntryYet, First, EndOK
  <1>5. ModeOK'
    BY <1>1 DEF AnswerInv, ModeOK, Exe, MakesDll
  <1>6. AnswersOK'
    <2>1. next \in Nat /\ symtab_section \in Seq(SymRec)
      BY DEF EarlyInv, SymbolsOK
    <2>2. \A i \in DOMAIN symtab_section : i < next
      BY <1>1, <2>1
    <2>3. \A i \in Unresolved : Answered(i)
      BY <1>1, <2>2 DEF AnswerInv, AnswersOK, Unresolved
    <2>4. \A i \in Unresolved : Answered(i)'
      BY <1>1, <2>3 DEF Answered, InDynsym
    <2> QED
      BY <1>1, <1>2, <2>4 DEF AnswersOK, BeforeSymbols
  <1> QED
    BY <1>3, <1>4, <1>5, <1>6 DEF AnswerInv

\* What a step between the scan and relocate_syms has to leave.
LEMMA AnswersGoOn ==
  ASSUME AnswerInv, phase \in {"exports"} \cup BeforeSymbols, phase' \in BeforeSymbols,
         mode' = mode, phase' \in {"got", "sections"} \/ mode.type # "obj",
         Resolves(symtab_section, symtab_section'), Keeps(dyn.syms, dyn'.syms),
         symtab_section' \in Seq(SymRec), NEW m \in Nat, DOMAIN dyn'.syms = 1 .. m
  PROVE  AnswerInv'
PROOF
  <1>1. \A i \in Unresolved' :
          /\ i \in Unresolved
          /\ symtab_section'[i].name = symtab_section[i].name
          /\ symtab_section'[i].bind = symtab_section[i].bind
          /\ MustBeDefined(symtab_section'[i]) <=> MustBeDefined(symtab_section[i])
    BY ResolvesKeeps
  <1>2. UnresolvedOK'
    BY <1>1 DEF AnswerInv, UnresolvedOK, BeforeSymbols
  <1>3. NoEntryYet' /\ EndOK'
    BY DEF NoEntryYet, First, EndOK, BeforeSymbols
  <1>4. ModeOK'
    BY DEF AnswerInv, ModeOK, Exe, MakesDll, BeforeSymbols
  <1>5. AnswersOK'
    <2>1. \A i \in Unresolved' :
            /\ Answered(i) => Answered(i)'
            /\ InDynsym(symtab_section[i].name) => InDynsym(symtab_section[i].name)'
      BY AnswersStay
    <2>2. Exe' <=> Exe
      BY DEF Exe
    <2>3. HasDynamic' <=> HasDynamic
      BY DEF HasDynamic, InMemory
    <2>4. MakesDll' <=> MakesDll
      BY DEF MakesDll
    <2>5. Exe /\ HasDynamic => \A i \in Unresolved' : Answered(i)'
      BY <1>1, <2>1 DEF AnswerInv, AnswersOK
    <2>6. MakesDll => \A i \in Unresolved' : InDynsym(symtab_section[i].name)'
      <3>1. MakesDll => phase \in BeforeSymbols
        BY DEF AnswerInv, ModeOK, Exe, MakesDll
      <3> QED
        BY <1>1, <2>1, <3>1 DEF AnswerInv, AnswersOK
    <2>7. phase' # "scan"
      BY DEF BeforeSymbols
    <2> QED
      BY <2>2, <2>3, <2>4, <2>5, <2>6, <2>7 DEF AnswersOK
  <1> QED
    BY <1>2, <1>3, <1>4, <1>5 DEF AnswerInv

\* What DLLs use is added to .dynsym.
LEMMA ExportAnswer ==
  ASSUME WellFormed, EarlyInv, AnswerInv, ExportToLibs
  PROVE  AnswerInv'
PROOF
  <1>1. /\ phase = "exports" /\ phase' = "got"
        /\ UNCHANGED <<mode, symtab_section>>
    BY Zenon DEF ExportToLibs
  <1>2. EarlyInv' /\ Extends(dyn.syms, dyn'.syms)
    BY ExportStep
  <1>3. symtab_section' \in Seq(SymRec) /\ dyn'.syms \in Seq(SymRec)
    BY <1>2 DEF EarlyInv, SymbolsOK, DynRec
  <1>4. PICK m \in Nat : DOMAIN dyn'.syms = 1 .. m
    BY <1>3
  <1>5. Keeps(dyn.syms, dyn'.syms)
    BY <1>2 DEF Extends, Keeps
  <1>6. Resolves(symtab_section, symtab_section')
    BY <1>1, SameResolves
  <1>7. phase \in {"exports"} \cup BeforeSymbols /\ phase' \in BeforeSymbols
    BY <1>1 DEF BeforeSymbols
  <1> QED
    BY <1>1, <1>3, <1>4, <1>5, <1>6, <1>7, AnswersGoOn

\* A DLL's symbols that are not local, the undefined ones too, are in .dynsym.
LEMMA ExportAllAnswer ==
  ASSUME EarlyInv, AnswerInv, ExportAll
  PROVE  AnswerInv'
PROOF
  <1>1. PICK nonlocal, back :
          /\ nonlocal = {i \in DOMAIN symtab_section : symtab_section[i].bind # "local"}
          /\ dyn' = [dyn EXCEPT !.syms = Picked(symtab_section, nonlocal), !.symtab_to_dynsym = back]
    BY DEF ExportAll
  <1>2. /\ phase = "export all" /\ phase' = "got"
        /\ UNCHANGED <<mode, symtab_section>>
    BY DEF ExportAll
  <1>3. symtab_section \in Seq(SymRec) /\ DynRec(dyn)
    BY DEF EarlyInv, SymbolsOK
  <1>4. nonlocal \in SUBSET DOMAIN symtab_section
    BY <1>1
  <1>5. PICK syms \in Seq(SymRec) :
          /\ syms = Picked(symtab_section, nonlocal)
          /\ \A i \in nonlocal : \E k \in DOMAIN syms : syms[k] = symtab_section[i]
    <2>1. PICK syms : syms = Picked(symtab_section, nonlocal)
      OBVIOUS
    <2>2. PicksOf(SymRec, symtab_section, nonlocal, syms)
      BY <1>3, <1>4, <2>1, PickedIs
    <2> QED
      BY <2>1, <2>2 DEF PicksOf
  <1>6. dyn'.syms = syms
    <2>1. PICK a, b, c, f, g : dyn = [syms |-> a, got |-> b, plt |-> c, symtab_to_dynsym |-> f, got_offsets |-> g]
      BY <1>3 DEF DynRec
    <2>2. dyn' = [syms |-> syms, got |-> b, plt |-> c, symtab_to_dynsym |-> back, got_offsets |-> g]
      BY <1>1, <1>5, <2>1
    <2> QED
      BY <2>2
  <1>7. Unresolved' = Unresolved
    BY <1>2 DEF Unresolved
  <1>8. UnresolvedOK'
    BY <1>2, <1>7 DEF AnswerInv, UnresolvedOK, MustBeDefined
  <1>9. NoEntryYet' /\ EndOK'
    BY <1>2 DEF NoEntryYet, First, EndOK
  <1>10. ModeOK'
    BY <1>2 DEF AnswerInv, ModeOK
  <1>11. AnswersOK'
    <2>1. MakesDll /\ ~Exe'
      BY <1>2 DEF AnswerInv, ModeOK, MakesDll, Exe
    <2>2. ASSUME NEW i \in Unresolved'
          PROVE  InDynsym(symtab_section[i].name)'
      <3>1. i \in nonlocal
        BY <1>1, <1>7, <2>2 DEF AnswerInv, UnresolvedOK, Unresolved
      <3>2. PICK k \in DOMAIN syms : syms[k] = symtab_section[i]
        BY <1>5, <3>1
      <3>3. symtab_section[i].bind # "local"
        BY <1>1, <3>1
      <3> QED
        BY <1>2, <1>6, <3>2, <3>3 DEF InDynsym
    <2>3. \E m \in Nat : DOMAIN dyn'.syms = 1 .. m
      BY <1>6
    <2> QED
      BY <1>2, <1>3, <2>1, <2>2, <2>3 DEF AnswersOK
  <1> QED
    BY <1>8, <1>9, <1>10, <1>11 DEF AnswerInv

\* A relocation may take a place in the GOT, and one in .dynsym.
LEMMA BuildGotAnswer ==
  ASSUME EarlyInv, AnswerInv, BuildGotEntry
  PROVE  AnswerInv'
PROOF
  <1>1. PICK got, d, list, rt, r :
          /\ r = sites[next]
          /\ d = IF got THEN build_got(dyn) ELSE dyn
          /\ rt = IF r.type = "GOT32" THEN "GLOB_DAT" ELSE "JMP_SLOT"
          /\ symtab_section' = IF got THEN WithGotSymbol(symtab_section) ELSE symtab_section
          /\ \/ PutGotEntry(d, list, rt, symtab_section[r.sym], r.sym)
             \/ dyn' = d
    <2> DEFINE r == sites[next]
               got == r.type \in {"GOT32", "PLT32", "GOTOFF", "GOTPC"} /\ dyn.got = <<>>
               d == IF got THEN build_got(dyn) ELSE dyn
               list == IF got THEN Append(secs, GotSection) ELSE secs
               rt == IF r.type = "GOT32" THEN "GLOB_DAT" ELSE "JMP_SLOT"
    <2>1. /\ symtab_section' = IF got THEN WithGotSymbol(symtab_section) ELSE symtab_section
          /\ \/ PutGotEntry(d, list, rt, symtab_section[r.sym], r.sym)
             \/ dyn' = d
      BY Zenon DEF BuildGotEntry
    <2>2. d = (IF got THEN build_got(dyn) ELSE dyn) /\ rt = IF r.type = "GOT32" THEN "GLOB_DAT" ELSE "JMP_SLOT"
      OBVIOUS
    <2> HIDE DEF got, d, list, rt, r
    <2> QED
      BY <2>1, <2>2, Zenon DEF r
  <1>2. /\ phase = "got" /\ phase' = "got"
        /\ next <= Len(Sites)
        /\ mode' = mode
    BY Zenon DEF BuildGotEntry
  <1>3. EarlyInv'
    BY BuildGotStep
  <1>4. /\ symtab_section \in Seq(SymRec) /\ DynRec(dyn) /\ SymbolsOK /\ next \in Nat \ {0}
        /\ symtab_section' \in Seq(SymRec) /\ dyn'.syms \in Seq(SymRec)
    BY <1>3 DEF EarlyInv, SymbolsOK, DynRec
  <1>5. Resolves(symtab_section, symtab_section')
    BY <1>1, <1>4, GotSymbolResolves, SameResolves
  <1>6. DynRec(d) /\ d.syms = dyn.syms
    BY <1>1, <1>4, BuildGotIs
  <1>7. r.sym \in DOMAIN symtab_section
    <2>1. next \in 1 .. Len(Sites)
      BY <1>2, <1>4
    <2> QED
      BY <1>1, <1>4, <2>1 DEF SymbolsOK
  <1>8. Keeps(dyn.syms, dyn'.syms)
    <2>1. CASE dyn' = d
      BY <1>6, <2>1, SameKeeps
    <2>2. CASE PutGotEntry(d, list, rt, symtab_section[r.sym], r.sym)
      <3>1. PICK info, e : info = symtab_section[r.sym] /\ e = put_got_entry(d, rt, info, r.sym)
        OBVIOUS
      <3>2. dyn' = e
        BY <2>2, <3>1 DEF PutGotEntry
      <3>3. info.type \in Strings /\ info.bind \in Strings /\ rt \in Strings
        <4>1. info \in SymRec
          BY <1>4, <1>7, <3>1
        <4>2. "GLOB_DAT" \in Strings /\ "JMP_SLOT" \in Strings
          BY DEF Strings
        <4> QED
          BY <1>1, <4>1, <4>2 DEF SymRec
      <3>4. Extends(d.syms, e.syms)
        BY <1>4, <1>6, <1>7, <3>1, <3>3, GotEntryIs
      <3> QED
        BY <1>6, <3>2, <3>4 DEF Extends, Keeps
    <2> QED
      BY <1>1, <2>1, <2>2
  <1>9. PICK m \in Nat : DOMAIN dyn'.syms = 1 .. m
    BY <1>4
  <1>10. phase \in {"exports"} \cup BeforeSymbols /\ phase' \in BeforeSymbols
    BY <1>2 DEF BeforeSymbols
  <1> QED
    BY <1>2, <1>4, <1>5, <1>8, <1>9, <1>10, AnswersGoOn

\* Placing sections is no concern of the symbols.
LEMMA LayoutAnswer ==
  ASSUME AnswerInv, phase \in BeforeSymbols, phase' \in BeforeSymbols,
         UNCHANGED <<mode, symtab_section, dyn>>,
         phase' \in {"got", "sections"} \/ mode.type # "obj"
  PROVE  AnswerInv'
PROOF
  <1>1. PICK m \in Nat : DOMAIN dyn.syms = 1 .. m
    BY DEF AnswerInv, AnswersOK
  <1>2. symtab_section' \in Seq(SymRec)
    BY DEF AnswerInv, AnswersOK
  <1>3. Resolves(symtab_section, symtab_section')
    BY SameResolves
  <1>4. Keeps(dyn.syms, dyn'.syms)
    BY SameKeeps
  <1>5. mode' = mode /\ DOMAIN dyn'.syms = 1 .. m /\ phase \in {"exports"} \cup BeforeSymbols
    BY <1>1
  <1> QED
    BY <1>2, <1>3, <1>4, <1>5, AnswersGoOn

LEMMA PlacesAnswer ==
  ASSUME AnswerInv, Reserve \/ PlaceSection \/ NextSegment \/ PlaceInMemory
  PROVE  AnswerInv'
PROOF
  <1>1. UNCHANGED <<mode, symtab_section, dyn>>
    BY DEF Reserve, PlaceSection, NextSegment, PlaceInMemory
  <1>2. CASE Reserve
    <2>1. /\ phase = "got"
          /\ phase' = IF mode.type = "obj" THEN "sections" ELSE "segments"
      BY <1>2 DEF Reserve
    <2> QED
      BY <1>1, <2>1, LayoutAnswer DEF BeforeSymbols
  <1>3. CASE PlaceSection
    <2>1. phase = "segments" /\ phase' = phase
      BY <1>3 DEF PlaceSection
    <2>2. mode.type # "obj"
      BY <2>1 DEF AnswerInv, ModeOK
    <2> QED
      BY <1>1, <2>1, <2>2, LayoutAnswer DEF BeforeSymbols
  <1>4. CASE NextSegment
    <2>1. phase = "segments" /\ phase' \in {"segments", "dynamic"}
      BY <1>4 DEF NextSegment
    <2>2. mode.type # "obj"
      BY <2>1 DEF AnswerInv, ModeOK
    <2> QED
      BY <1>1, <2>1, <2>2, LayoutAnswer DEF BeforeSymbols
  <1>5. CASE PlaceInMemory
    <2>1. phase = "got" /\ phase' = "symbols" /\ mode.type # "obj"
      BY <1>5 DEF PlaceInMemory, InMemory
    <2> QED
      BY <1>1, <2>1, LayoutAnswer DEF BeforeSymbols
  <1> QED
    BY <1>2, <1>3, <1>4, <1>5

\* .dynsym gets addresses, and keeps its names.
LEMMA FinishAnswer ==
  ASSUME InMemory \/ LateInv, AnswerInv, FinishDynamic
  PROVE  AnswerInv'
PROOF
  <1>1. /\ phase = "dynamic" /\ phase' = "sections"
        /\ UNCHANGED <<mode, symtab_section>>
    BY Zenon DEF FinishDynamic
  <1>2. phase \in BeforeSymbols /\ phase' \in BeforeSymbols
    BY <1>1 DEF BeforeSymbols
  <1>3. CASE ~HasDynamic
    <2>1. dyn' = dyn
      BY <1>3 DEF FinishDynamic
    <2> QED
      BY <1>1, <1>2, <2>1, LayoutAnswer
  <1>4. CASE HasDynamic
    <2>1. DynRec(dyn)
      BY <1>1, <1>4 DEF HasDynamic, LateInv
    <2>2. PICK a, b, c, f, g : dyn = [syms |-> a, got |-> b, plt |-> c, symtab_to_dynsym |-> f, got_offsets |-> g]
      BY <2>1 DEF DynRec
    <2>3. dyn.syms = a /\ dyn.got = b /\ dyn.plt = c /\ a \in Seq(SymRec)
      BY <2>1, <2>2 DEF DynRec
    <2>4. PICK w, p, n :
            /\ w = [b EXCEPT ![1] = addr[".dynamic"]]
            /\ p = IF Exe THEN [k \in DOMAIN c |-> c[k] + addr[".got"]] ELSE c
            /\ n = [k \in DOMAIN a |-> [a[k] EXCEPT !.value = DynsymAddress(a[k])]]
      OBVIOUS
    <2>5. dyn' = [dyn EXCEPT !.got = w, !.plt = p, !.syms = n]
      BY <1>4, <2>3, <2>4 DEF FinishDynamic
    <2>6. dyn' = [syms |-> n, got |-> w, plt |-> p, symtab_to_dynsym |-> f, got_offsets |-> g]
      BY <2>2, <2>5
    <2>7. dyn'.syms = n
      BY <2>6
    <2>8. DOMAIN n = DOMAIN a /\ \A k \in DOMAIN a : n[k].name = a[k].name /\ n[k].bind = a[k].bind
      <3>1. \A s \in SymRec : \A v : [s EXCEPT !.value = v].name = s.name /\ [s EXCEPT !.value = v].bind = s.bind
        BY DEF SymRec
      <3>2. \A k \in DOMAIN a : a[k] \in SymRec
        BY <2>3
      <3> QED
        BY <2>4, <3>1, <3>2
    <2>9. Keeps(dyn.syms, dyn'.syms)
      BY <2>3, <2>7, <2>8 DEF Keeps
    <2>10. PICK m \in Nat : DOMAIN dyn'.syms = 1 .. m
      BY <2>3, <2>7, <2>8
    <2>11. Resolves(symtab_section, symtab_section')
      BY <1>1, SameResolves
    <2>12. symtab_section' \in Seq(SymRec)
      BY <1>1, <1>2 DEF AnswerInv, AnswersOK
    <2> QED
      BY <1>1, <1>2, <2>9, <2>10, <2>11, <2>12, AnswersGoOn
  <1> QED
    BY <1>3, <1>4

\* An object file is written without any symbol being looked for.
LEMMA OthersAnswer ==
  ASSUME AnswerInv, PlaceOthers
  PROVE  AnswerInv'
PROOF
  <1>1. /\ phase = "sections"
        /\ \/ phase' = phase
           \/ phase' = IF mode.type = "obj" THEN "written" ELSE "symbols"
        /\ UNCHANGED <<mode, symtab_section, dyn>>
    BY Zenon DEF PlaceOthers
  <1>2. CASE phase' = "written" /\ mode.type = "obj"
    <2>1. Unresolved' = Unresolved
      BY <1>1 DEF Unresolved
    <2>2. UnresolvedOK'
      BY <1>1, <1>2, <2>1 DEF AnswerInv, UnresolvedOK, MustBeDefined
    <2>3. NoEntryYet' /\ AnswersOK'
      BY <1>2 DEF NoEntryYet, First, AnswersOK, BeforeSymbols
    <2>4. ModeOK' /\ EndOK'
      BY <1>1, <1>2 DEF AnswerInv, ModeOK, EndOK
    <2> QED
      BY <2>2, <2>3, <2>4 DEF AnswerInv
  <1>3. CASE phase' = phase \/ (phase' = "symbols" /\ mode.type # "obj")
    BY <1>1, <1>3, LayoutAnswer DEF BeforeSymbols
  <1> QED
    BY <1>1, <1>2, <1>3

\* relocate_syms refuses just when a symbol is missing.
LEMMA SymbolsAnswer ==
  ASSUME WellFormed, LibsTell, AnswerInv, relocate_syms
  PROVE  AnswerInv'
PROOF
  <1> DEFINE Lost(i) == IsUndef(symtab_section[i]) /\ ~Resolvable(symtab_section[i]) /\ MustBeDefined(symtab_section[i])
  <1>1. phase = "symbols" /\ mode' = mode
    BY DEF relocate_syms
  <1>2. PICK m \in Nat : DOMAIN dyn.syms = 1 .. m
    BY <1>1 DEF AnswerInv, AnswersOK, BeforeSymbols
  <1>3. symtab_section \in Seq(SymRec)
    BY <1>1 DEF AnswerInv, AnswersOK, BeforeSymbols
  <1>4. \A i \in Unresolved : MustBeDefined(symtab_section[i]) => ~OnlyUsedByLibs(symtab_section[i].name)
    BY DEF AnswerInv, UnresolvedOK
  <1>5. /\ mode.type \in {"exe", "dll", "memory"}
        /\ mode.static => mode.type = "exe"
    BY <1>1 DEF AnswerInv, ModeOK, LibsTell
  <1>6. \A i \in Unresolved : InDynsym(symtab_section[i].name) =>
          find_elf_sym_in(dyn.syms, symtab_section[i].name) # 0
    <2> TAKE i \in Unresolved
    <2>1. PICK n : n = symtab_section[i].name
      OBVIOUS
    <2>2. find_elf_sym_in(dyn.syms, n) = 0 => \A k \in DOMAIN dyn.syms : dyn.syms[k].name = n => dyn.syms[k].bind = "local"
      BY <1>2, Found
    <2> QED
      BY <2>1, <2>2 DEF InDynsym
  <1>7. ASSUME NEW i \in Unresolved, MustBeDefined(symtab_section[i])
        PROVE  /\ ~Resolvable(symtab_section[i]) => mode.type \in {"exe", "memory"}
               /\ mode.type \in {"exe", "memory"} => (i \in Missing <=> ~Resolvable(symtab_section[i]))
    <2>1. PICK s : s = symtab_section[i]
      OBVIOUS
    <2>2. i \in Missing <=> mode.static \/ ~DefinedInLibs(s.name)
      BY <1>7, <2>1, MissingIs
    <2>3. CASE mode.type = "memory"
      <3>1. /\ InLibs(s) = 0 => ~DefinedInLibs(s.name)
            /\ InLibs(s) # 0 /\ ~IsUndef(Libs[InLibs(s)]) => DefinedInLibs(s.name)
            /\ InLibs(s) # 0 /\ IsUndef(Libs[InLibs(s)]) => OnlyUsedByLibs(s.name)
        BY LibsHave
      <3>2. ~OnlyUsedByLibs(s.name) /\ ~mode.static
        BY <1>4, <1>5, <1>7, <2>1, <2>3
      <3>3. Resolvable(s) <=> InLibs(s) # 0 /\ ~IsUndef(Libs[InLibs(s)])
        BY <2>3 DEF Resolvable, InMemory
      <3>4. Resolvable(s) <=> DefinedInLibs(s.name)
        BY <3>1, <3>2, <3>3
      <3> QED
        BY <2>1, <2>2, <2>3, <3>2, <3>4
    <2>4. CASE mode.type = "exe" /\ mode.static
      <3>1. ~Resolvable(s)
        BY <2>4 DEF Resolvable, InMemory, HasDynamic
      <3> QED
        BY <2>1, <2>2, <2>4, <3>1
    <2>5. CASE mode.type \in {"exe", "dll"} /\ ~mode.static
      <3>1. ~InMemory /\ HasDynamic
        BY <2>5 DEF InMemory, HasDynamic
      <3>2. mode.type = "exe" => Answered(i)
        BY <1>1, <1>7, <3>1 DEF AnswerInv, AnswersOK, BeforeSymbols, Exe
      <3>3. mode.type = "dll" => InDynsym(s.name)
        BY <1>1, <1>7, <2>1 DEF AnswerInv, AnswersOK, BeforeSymbols, MakesDll
      <3>4. InDynsym(s.name) /\ (mode.type = "exe" => DefinedInLibs(s.name))
        BY <1>7, <2>1, <2>5, <3>2, <3>3 DEF Answered
      <3>5. Resolvable(s)
        BY <1>6, <1>7, <2>1, <3>1, <3>4 DEF Resolvable
      <3> QED
        BY <2>1, <2>2, <2>5, <3>4, <3>5
    <2> QED
      BY <1>5, <2>3, <2>4, <2>5
  <1>8. \/ (\E i \in DOMAIN symtab_section : Lost(i)) /\ phase' = "refused" /\ UNCHANGED symtab_section
        \/ /\ ~\E i \in DOMAIN symtab_section : Lost(i)
           /\ symtab_section' = [i \in DOMAIN symtab_section |->
                                   [symtab_section[i] EXCEPT !.value = SymbolValue(symtab_section[i])]]
           /\ phase' = "relocate"
    BY Zenon DEF relocate_syms
  <1>9. \A i : (i \in DOMAIN symtab_section /\ Lost(i)) <=>
               (i \in Unresolved /\ MustBeDefined(symtab_section[i]) /\ ~Resolvable(symtab_section[i]))
    BY Zenon DEF Unresolved
  <1> HIDE DEF Lost
  <1>10. phase' \in {"refused", "relocate"} /\ mode.type # "obj"
    BY <1>5, <1>8
  <1>11. DOMAIN symtab_section' = DOMAIN symtab_section
         /\ \A i \in DOMAIN symtab_section :
              /\ symtab_section'[i].name = symtab_section[i].name
              /\ symtab_section'[i].bind = symtab_section[i].bind
              /\ symtab_section'[i].sec = symtab_section[i].sec
    <2>1. \A s \in SymRec : \A v : /\ [s EXCEPT !.value = v].name = s.name
                                   /\ [s EXCEPT !.value = v].bind = s.bind
                                   /\ [s EXCEPT !.value = v].sec = s.sec
      BY DEF SymRec
    <2>2. \A i \in DOMAIN symtab_section : symtab_section[i] \in SymRec
      BY <1>3
    <2>3. CASE symtab_section' = symtab_section
      BY <2>3
    <2>4. CASE symtab_section' = [i \in DOMAIN symtab_section |->
                                    [symtab_section[i] EXCEPT !.value = SymbolValue(symtab_section[i])]]
      <3>1. DOMAIN symtab_section' = DOMAIN symtab_section
        BY <2>4
      <3>2. \A i \in DOMAIN symtab_section : \E v : symtab_section'[i] = [symtab_section[i] EXCEPT !.value = v]
        BY <2>4
      <3>3. ASSUME NEW i \in DOMAIN symtab_section
            PROVE  /\ symtab_section'[i].name = symtab_section[i].name
                   /\ symtab_section'[i].bind = symtab_section[i].bind
                   /\ symtab_section'[i].sec = symtab_section[i].sec
        <4>1. PICK s, t : s = symtab_section[i] /\ t = symtab_section'[i]
          OBVIOUS
        <4>2. PICK v : t = [s EXCEPT !.value = v]
          BY <3>2, <4>1
        <4>3. s \in SymRec
          BY <2>2, <4>1
        <4>4. t.name = s.name /\ t.bind = s.bind /\ t.sec = s.sec
          BY <2>1, <4>2, <4>3
        <4> QED
          BY <4>1, <4>4
      <3> QED
        BY <3>1, <3>3
    <2> QED
      BY <1>8, <2>3, <2>4
  <1>12. Missing' = Missing
    BY <1>1, <1>11 DEF Missing, IsUndef
  <1>13. Unresolved' = Unresolved
    BY <1>11 DEF Unresolved, IsUndef
  <1>14. UnresolvedOK'
    <2>1. \A i \in Unresolved : i \in DOMAIN symtab_section
      BY DEF Unresolved
    <2>2. \A i \in Unresolved : MustBeDefined(symtab_section'[i]) <=> MustBeDefined(symtab_section[i])
      BY <1>11, <2>1 DEF MustBeDefined
    <2> QED
      BY <1>10, <1>11, <1>13, <2>1, <2>2 DEF AnswerInv, UnresolvedOK
  <1>15. NoEntryYet' /\ AnswersOK'
    BY <1>10 DEF NoEntryYet, First, AnswersOK, BeforeSymbols
  <1>16. ModeOK'
    BY <1>1, <1>10 DEF AnswerInv, ModeOK
  <1>17. EndOK'
    <2>1. CASE phase' = "refused"
      <3>1. PICK i \in Unresolved : MustBeDefined(symtab_section[i]) /\ ~Resolvable(symtab_section[i])
        BY <1>8, <1>9, <2>1
      <3>2. mode.type \in {"exe", "memory"} /\ i \in Missing
        BY <1>7, <3>1
      <3> QED
        BY <1>1, <1>12, <2>1, <3>2 DEF EndOK
    <2>2. CASE phase' = "relocate"
      <3>1. \A i \in Unresolved : MustBeDefined(symtab_section[i]) => Resolvable(symtab_section[i])
        BY <1>8, <1>9, <2>2
      <3>2. \A i \in Missing : i \in Unresolved /\ MustBeDefined(symtab_section[i])
        BY MissingIs
      <3>3. mode.type \in {"exe", "memory"} => Missing = {}
        BY <1>7, <3>1, <3>2
      <3> QED
        BY <1>1, <1>12, <2>2, <3>3 DEF EndOK
    <2> QED
      BY <1>10, <2>1, <2>2
  <1> QED
    BY <1>14, <1>15, <1>16, <1>17 DEF AnswerInv

\* Once there are addresses, nothing is refused any more.
LEMMA RelocatingAnswer ==
  ASSUME AnswerInv, relocate_section \/ relocate_rel
  PROVE  AnswerInv'
PROOF
  <1>1. /\ phase \in {"relocate", "relocations"} /\ phase' \in {"relocations", "written"}
        /\ UNCHANGED <<mode, symtab_section>>
    <2>1. CASE relocate_section
      <3>1. /\ phase = "relocate" /\ phase' = IF InMemory THEN "written" ELSE "relocations"
            /\ UNCHANGED <<mode, symtab_section>>
        BY <2>1, Zenon DEF relocate_section
      <3> QED
        BY <3>1
    <2>2. CASE relocate_rel
      BY <2>2, Zenon DEF relocate_rel
    <2> QED
      BY <2>1, <2>2
  <1>2. Unresolved' = Unresolved /\ Missing' = Missing
    BY <1>1 DEF Unresolved, Missing
  <1>3. UnresolvedOK'
    BY <1>1, <1>2 DEF AnswerInv, UnresolvedOK, MustBeDefined
  <1>4. NoEntryYet' /\ AnswersOK'
    BY <1>1 DEF NoEntryYet, First, AnswersOK, BeforeSymbols
  <1>5. ModeOK' /\ EndOK'
    BY <1>1, <1>2 DEF AnswerInv, ModeOK, EndOK
  <1> QED
    BY <1>3, <1>4, <1>5 DEF AnswerInv

LEMMA AnswersRest ==
  ASSUME AnswerInv, UNCHANGED outputVars
  PROVE  AnswerInv'
PROOF
  <1>1. UNCHANGED <<mode, phase, next, secs, symtab_section, dyn>>
    BY DEF outputVars
  <1>2. Unresolved' = Unresolved /\ Missing' = Missing
    BY <1>1 DEF Unresolved, Missing
  <1>3. UnresolvedOK' /\ NoEntryYet'
    BY <1>1, <1>2 DEF AnswerInv, UnresolvedOK, NoEntryYet, MustBeDefined
  <1>4. ModeOK' /\ EndOK'
    BY <1>1, <1>2 DEF AnswerInv, ModeOK, EndOK, Exe, MakesDll
  <1>5. \A i \in Unresolved : (Answered(i)' <=> Answered(i))
                              /\ (InDynsym(symtab_section[i].name)' <=> InDynsym(symtab_section[i].name))
    BY <1>1 DEF Answered, InDynsym, MustBeDefined
  <1>6. (Exe' <=> Exe) /\ (MakesDll' <=> MakesDll) /\ (HasDynamic' <=> HasDynamic)
    BY <1>1 DEF Exe, MakesDll, HasDynamic, InMemory
  <1>7. AnswersOK'
    BY <1>1, <1>2, <1>5, <1>6 DEF AnswerInv, AnswersOK
  <1> QED
    BY <1>3, <1>4, <1>7 DEF AnswerInv

LEMMA AnswerInit ==
  ASSUME WellFormed, LibsTell, OutputInit
  PROVE  AnswerInv
PROOF
  <1>1. /\ mode \in Modes /\ symtab_section \in Tables
        /\ phase = IF mode.type = "obj" THEN "got" ELSE "commons"
        /\ secs = Sections
    BY DEF OutputInit
  <1>2. /\ dyn.syms = <<>>
        /\ dyn.got_offsets = [i \in DOMAIN symtab_section |-> 0]
    <2>1. PICK f, g : /\ dyn = [syms |-> <<>>, got |-> <<>>, plt |-> <<>>, symtab_to_dynsym |-> f, got_offsets |-> g]
                      /\ g = [i \in DOMAIN symtab_section |-> 0]
      BY DEF OutputInit
    <2> QED
      BY <2>1
  <1>3. symtab_section \in Seq(SymRec)
    BY <1>1 DEF WellFormed
  <1>4. UnresolvedOK
    BY <1>1 DEF UnresolvedOK, Unresolved, LibsTell
  <1>5. NoEntryYet
    BY <1>2 DEF NoEntryYet, Unresolved
  <1>6. ModeOK
    BY <1>1 DEF ModeOK
  <1>7. AnswersOK
    <2>1. phase \in BeforeSymbols => ~Exe /\ ~MakesDll
      BY <1>1 DEF BeforeSymbols, Exe, MakesDll
    <2>2. DOMAIN dyn.syms = 1 .. 0
      BY <1>2
    <2>3. phase \notin {"scan", "exports"}
      BY <1>1
    <2> QED
      BY <1>3, <2>1, <2>2, <2>3 DEF AnswersOK
  <1>8. EndOK
    BY <1>1 DEF EndOK
  <1> QED
    BY <1>4, <1>5, <1>6, <1>7, <1>8 DEF AnswerInv

LEMMA AnswerStep ==
  ASSUME WellFormed, LibsTell, ImageInv, AnswerInv, [OutputNext]_outputVars
  PROVE  AnswerInv'
PROOF
  <1>1. phase \in First \cup Second => EarlyInv
    BY DEF ImageInv
  <1>2. CASE relocate_common_syms
    <2>1. EarlyInv
      BY <1>1, <1>2 DEF relocate_common_syms, First
    <2> QED
      BY <1>2, <2>1, CommonsAnswer
  <1>3. CASE tcc_add_linker_symbols
    <2>1. EarlyInv
      BY <1>1, <1>3 DEF tcc_add_linker_symbols, First
    <2> QED
      BY <1>3, <2>1, LinkersAnswer
  <1>4. CASE new_dynamic_sections
    <2>1. EarlyInv
      BY <1>1, <1>4 DEF new_dynamic_sections, First
    <2> QED
      BY <1>4, <2>1, DynamicAnswer
  <1>5. CASE ScanSymbol
    <2>1. EarlyInv
      BY <1>1, <1>5 DEF ScanSymbol, Second
    <2> QED
      BY <1>5, <2>1, ScanAnswer
  <1>6. CASE Scanned
    <2>1. EarlyInv
      BY <1>1, <1>6 DEF Scanned, Second
    <2> QED
      BY <1>6, <2>1, ScannedAnswer
  <1>7. CASE ExportToLibs
    <2>1. EarlyInv
      BY <1>1, <1>7 DEF ExportToLibs, Second
    <2> QED
      BY <1>7, <2>1, ExportAnswer
  <1>8. CASE ExportAll
    <2>1. EarlyInv
      BY <1>1, <1>8 DEF ExportAll, Second
    <2> QED
      BY <1>8, <2>1, ExportAllAnswer
  <1>9. CASE BuildGotEntry
    <2>1. phase = "got"
      BY <1>9, Zenon DEF BuildGotEntry
    <2>2. EarlyInv
      BY <1>1, <2>1 DEF Second
    <2> QED
      BY <1>9, <2>2, BuildGotAnswer
  <1>10. CASE Reserve \/ PlaceSection \/ NextSegment \/ PlaceInMemory
    BY <1>10, PlacesAnswer
  <1>11. CASE FinishDynamic
    <2>1. phase = "dynamic"
      BY <1>11, Zenon DEF FinishDynamic
    <2>2. InMemory \/ LateInv
      BY <2>1 DEF ImageInv, Late
    <2> QED
      BY <1>11, <2>2, FinishAnswer
  <1>12. CASE PlaceOthers
    BY <1>12, OthersAnswer
  <1>13. CASE relocate_syms
    BY <1>13, SymbolsAnswer
  <1>14. CASE relocate_section \/ relocate_rel
    BY <1>14, RelocatingAnswer
  <1>15. CASE UNCHANGED outputVars
    BY <1>15, AnswersRest
  <1> QED
    BY <1>2, <1>3, <1>4, <1>5, <1>6, <1>7, <1>8, <1>9, <1>10, <1>11, <1>12, <1>13, <1>14, <1>15
    DEF OutputNext

\* A link is refused just when an executable, or a program to be run, misses a
\* symbol that must be defined: put_elf_sym and the scan answer every other
\* symbol, build_got_entries and the layout leave the answers alone, and
\* relocate_syms finds them (error_noabort in tcc_output_file, relocate_syms).
THEOREM LinkIsRefusedRightly == ASSUME WellFormed, LibsTell PROVE OutputSpec => []RefusedJustUndefined
PROOF
  <1>1. OutputInit => ImageInv /\ AnswerInv
    BY ImageInit, AnswerInit
  <1>2. ImageInv /\ AnswerInv /\ [OutputNext]_outputVars => (ImageInv /\ AnswerInv)'
    BY ImageStep, AnswerStep
  <1>3. AnswerInv => RefusedJustUndefined
    BY DEF AnswerInv, EndOK, RefusedJustUndefined
  <1> QED
    BY <1>1, <1>2, <1>3, PTL DEF OutputSpec

(***************************************************************************)
(* What words reach when nothing is left to a loader                       *)
(***************************************************************************)
\* A program that is run from memory, or linked statically.
Direct == InMemory \/ (Exe /\ mode.static)

Beginning == {"commons", "linker symbols"}
Addressed == {"relocate", "relocations", "written"}
DirectPhases == Beginning \cup BeforeSymbols \cup Addressed

\* The symbol that site k names, and where a symbol is that is left undefined.
SiteSymbol(k) == symtab_section[sites[k].sym]
Offered(n) == IF ~mode.static /\ DefinedInLibs(n) THEN DllAddress(n) ELSE 0

\* Relocations need no entry of the GOT, name symbols, and there are no copies.
SitesOK ==
  /\ \A k \in 1 .. Len(Sites) : /\ sites[k].type \in {"32", "PC32", "PLT32", "GOTOFF", "GOTPC"}
                                /\ sites[k].sym \in DOMAIN symtab_section
  /\ ".bss" \in DOMAIN rels /\ ~HasCopies(rels[".bss"])

\* What is relocated is loaded, relocation sections are not.
SecsLoaded ==
  /\ \A i \in DOMAIN secs : secs[i].type = "rel" => "alloc" \notin secs[i].flags
  /\ \A k \in 1 .. Len(Sites) : LoadedIn(secs, Sites[k][1])
  /\ phase \in Beginning =>
       \A i \in DOMAIN secs : secs[i].name \in MarkedSections => "alloc" \in secs[i].flags

\* The symbols that sites name are in what is loaded, or will be.
SymsLoaded ==
  phase \in Beginning \cup BeforeSymbols =>
    \A k \in 1 .. Len(Sites) : \/ SiteSymbol(k).sec \in {"undef", "abs"}
                               \/ SiteSymbol(k).sec = "common" /\ phase = "commons"
                               \/ LoadedIn(secs, SiteSymbol(k).sec)

\* The GOT is there for those that have been looked at.
WantsGot(k) == sites[k].type \in {"PLT32", "GOTOFF", "GOTPC"}
GotLoaded ==
  /\ phase \in Beginning => dyn.got = <<>>
  /\ phase = "got" => /\ dyn.got # <<>> => LoadedIn(secs, ".got")
                      /\ \A k \in 1 .. Len(Sites) : k < next /\ WantsGot(k) => LoadedIn(secs, ".got")
  /\ phase \notin Beginning \cup {"got"} =>
       \A k \in 1 .. Len(Sites) : WantsGot(k) => LoadedIn(secs, ".got")

\* What is loaded has an address.
AddressesOK ==
  phase \in {"symbols"} \cup Addressed =>
    \A i \in DOMAIN secs : "alloc" \in secs[i].flags => addr[secs[i].name] \in Int

ValuesOK ==
  phase \in Addressed =>
    \A k \in 1 .. Len(Sites) :
      /\ SiteSymbol(k).value \in Int
      /\ IsUndef(SiteSymbol(k)) => SiteSymbol(k).value = Offered(SiteSymbol(k).name)

\* A word is 0 until it is relocated, once.
WordsOK ==
  \A k \in 1 .. Len(Sites) :
    IF phase \in {"relocations", "written"}
    THEN mem[Sites[k]] = Relocated(sites[k], SiteAddress(k), 0)
    ELSE Sites[k] \in DOMAIN mem /\ mem[Sites[k]] = 0

DirectOK ==
  /\ phase \in DirectPhases
  /\ SitesOK /\ SecsLoaded /\ SymsLoaded /\ GotLoaded
  /\ AddressesOK /\ ValuesOK /\ WordsOK

DirectInv == Direct => phase = "refused" \/ DirectOK

\* From old to new, sections stay what they are, and no section of relocations
\* is added.
SecsGrow(old, new) ==
  /\ \A i \in DOMAIN old : /\ i \in DOMAIN new
                           /\ new[i].name = old[i].name
                           /\ new[i].type = old[i].type
                           /\ new[i].flags = old[i].flags
  /\ \A i \in DOMAIN new \ DOMAIN old : new[i].type # "rel"

LEMMA StaysLoaded ==
  ASSUME NEW old, NEW new, SecsGrow(old, new)
  PROVE  /\ \A n : LoadedIn(old, n) => LoadedIn(new, n)
         /\ (\A i \in DOMAIN old : old[i].type = "rel" => "alloc" \notin old[i].flags) =>
              \A i \in DOMAIN new : new[i].type = "rel" => "alloc" \notin new[i].flags
PROOF
  BY Zenon DEF SecsGrow, LoadedIn

LEMMA SitesFromOne == ASSUME WellFormed PROVE DOMAIN Sites = 1 .. Len(Sites) /\ Len(Sites) \in Nat
PROOF
  <1>1. Sites \in Seq(Strings \X Nat)
    BY DEF WellFormed
  <1> QED
    BY <1>1

\* There is no dynamic section then.
LEMMA DirectMode ==
  ASSUME Direct
  PROVE  ~HasDynamic /\ ~MakesDll /\ mode.type # "obj"
PROOF
  BY DEF Direct, HasDynamic, MakesDll, InMemory, Exe

LEMMA DirectInit ==
  ASSUME WellFormed, LibsTell, SitesTell, "got without loader" \notin Doubtful, OutputInit
  PROVE  DirectInv
PROOF
  <1> SUFFICES ASSUME Direct PROVE DirectOK
    BY DEF DirectInv
  <1>1. /\ mode \in Modes /\ symtab_section \in Tables
        /\ phase = IF mode.type = "obj" THEN "got" ELSE "commons"
        /\ secs = Sections
        /\ rels = [of \in {".text", ".data", ".got", ".bss"} |-> SiteRelocations(of)]
        /\ mem = [c \in {Sites[k] : k \in DOMAIN Sites} |-> 0]
        /\ Doubts \subseteq Doubtful
    BY DEF OutputInit
  <1>2. phase = "commons"
    BY <1>1, DirectMode
  <1>3. DOMAIN Sites = 1 .. Len(Sites)
    BY SitesFromOne
  <1>4. \A k \in 1 .. Len(Sites) : sites[k] \in Relocations[k]
    <2>1. /\ sites \in [1 .. Len(Sites) -> UNION Range(Relocations)]
          /\ \A k \in DOMAIN sites : sites[k] \in Relocations[k]
      BY DEF OutputInit
    <2> QED
      BY <2>1
  <1>5. \A k \in 1 .. Len(Sites) :
          /\ sites[k].type \in Strings \ {"COPY"} /\ sites[k].sym \in Nat
          /\ sites[k].sym \in DOMAIN symtab_section
    <2>1. \A k \in 1 .. Len(Sites) : \A r \in Relocations[k] :
            r \in [type : Strings \ {"COPY"}, sym : Nat] /\ r.sym \in DOMAIN symtab_section
      BY <1>1 DEF WellFormed
    <2> QED
      BY <1>4, <2>1
  <1>6. Named({"GOT32"}) = {}
    <2>1. "got without loader" \notin Doubts
      BY <1>1
    <2>2. "got without loader" \in Doubts <=> Direct /\ Named({"GOT32"}) # {}
      BY DEF Doubts, Direct
    <2> QED
      BY <2>1, <2>2
  <1>7. \A k \in 1 .. Len(Sites) : sites[k].type \in {"32", "PC32", "PLT32", "GOTOFF", "GOTPC"}
    <2>1. \A k \in 1 .. Len(Sites) : sites[k].type \in {"32", "PC32", "PLT32", "GOT32", "GOTOFF", "GOTPC"}
      BY <1>3, <1>4 DEF SitesTell
    <2>2. DOMAIN sites = 1 .. Len(Sites)
      BY DEF OutputInit
    <2>3. \A k \in 1 .. Len(Sites) : sites[k].type = "GOT32" => sites[k].sym \in Named({"GOT32"})
      BY <2>2 DEF Named
    <2> QED
      BY <1>6, <2>1, <2>3
  <1>8. ".bss" \in DOMAIN rels /\ ~HasCopies(rels[".bss"])
    <2>1. rels[".bss"] = SiteRelocations(".bss")
      BY <1>1
    <2> QED
      BY <1>1, <1>5, <2>1, SitesGiven
  <1>9. SitesOK
    BY <1>5, <1>7, <1>8 DEF SitesOK
  <1>10. SecsLoaded
    <2>1. \A i \in DOMAIN secs : secs[i].name \in MarkedSections => "alloc" \in secs[i].flags
      BY <1>1 DEF SitesTell, MarkedSections
    <2>2. /\ \A i \in DOMAIN secs : secs[i].type = "rel" => "alloc" \notin secs[i].flags
          /\ \A k \in 1 .. Len(Sites) : LoadedIn(secs, Sites[k][1])
      BY <1>1, <1>3 DEF SitesTell
    <2> QED
      BY <2>1, <2>2 DEF SecsLoaded
  <1>11. SymsLoaded
    <2>1. \A k \in 1 .. Len(Sites) : \/ SiteSymbol(k).sec \in {"undef", "abs", "common"}
                                     \/ LoadedIn(secs, SiteSymbol(k).sec)
      BY <1>1, <1>3, <1>4 DEF SitesTell, SiteSymbol
    <2> QED
      BY <1>2, <2>1 DEF SymsLoaded
  <1>12. GotLoaded
    <2>1. dyn.got = <<>>
      BY DEF OutputInit
    <2> QED
      BY <1>2, <2>1 DEF GotLoaded, Beginning
  <1>13. AddressesOK /\ ValuesOK
    BY <1>2 DEF AddressesOK, ValuesOK, Addressed
  <1>14. WordsOK
    <2>1. \A k \in 1 .. Len(Sites) : Sites[k] \in DOMAIN mem /\ mem[Sites[k]] = 0
      BY <1>1, <1>3
    <2> QED
      BY <1>2, <2>1 DEF WordsOK
  <1> QED
    BY <1>2, <1>9, <1>10, <1>11, <1>12, <1>13, <1>14 DEF DirectOK, DirectPhases, Beginning

\* Common symbols get storage in .bss.
LEMMA DirectCommons ==
  ASSUME WellFormed, EarlyInv, DirectOK, relocate_common_syms
  PROVE  DirectOK'
PROOF
  <1> DEFINE size == StorageEnd[Len(symtab_section)]
  <1>1. /\ phase = "commons" /\ phase' = "linker symbols"
        /\ symtab_section' = WithStorage
        /\ secs' = Grown(secs, ".bss", size)
        /\ UNCHANGED <<mode, sites, next, dyn, rels, addr, mem>>
    BY Zenon DEF relocate_common_syms, WithStorage
  <1>2. /\ symtab_section \in Seq(SymRec)
        /\ SectionsOK(secs)
    BY DEF EarlyInv, SymbolsOK
  <1> HIDE DEF size
  <1>3. SecsGrow(secs, secs') /\ DOMAIN secs' = DOMAIN secs
    <2>1. PICK new : new = secs'
      OBVIOUS
    <2>2. new = [i \in DOMAIN secs |-> IF secs[i].name = ".bss" THEN [secs[i] EXCEPT !.data_offset = size] ELSE secs[i]]
      BY <1>1, <2>1 DEF Grown
    <2>3. \A s \in SecRec : LET t == [s EXCEPT !.data_offset = size]
                            IN t.name = s.name /\ t.type = s.type /\ t.flags = s.flags
      BY DEF SecRec
    <2>4. \A i \in DOMAIN secs : secs[i] \in SecRec
      BY <1>2 DEF SectionsOK
    <2>5. DOMAIN new = DOMAIN secs
      BY <2>2
    <2>6. \A i \in DOMAIN secs : new[i] = [secs[i] EXCEPT !.data_offset = size] \/ new[i] = secs[i]
      BY <2>2
    <2>7. \A i \in DOMAIN secs : /\ new[i].name = secs[i].name
                                 /\ new[i].type = secs[i].type
                                 /\ new[i].flags = secs[i].flags
      <3> TAKE i \in DOMAIN secs
      <3>1. CASE new[i] = secs[i]
        BY <3>1
      <3>2. CASE new[i] = [secs[i] EXCEPT !.data_offset = size]
        BY <2>3, <2>4, <3>2
      <3> QED
        BY <2>6, <3>1, <3>2
    <2> QED
      BY <2>1, <2>5, <2>7 DEF SecsGrow
  <1>4. /\ DOMAIN symtab_section' = DOMAIN symtab_section
        /\ \A i \in DOMAIN symtab_section :
             \/ symtab_section'[i].sec = ".bss"
             \/ symtab_section'[i] = symtab_section[i] /\ symtab_section[i].sec # "common"
    <2>1. PICK new : new = symtab_section'
      OBVIOUS
    <2>2. new = [i \in DOMAIN symtab_section |->
                   IF i \in Commons
                   THEN [symtab_section[i] EXCEPT !.sec = ".bss", !.value = StorageEnd[i] - symtab_section[i].size]
                   ELSE symtab_section[i]]
      BY <1>1, <2>1 DEF WithStorage
    <2>3. \A s \in SymRec : \A v : [s EXCEPT !.sec = ".bss", !.value = v].sec = ".bss"
      BY DEF SymRec
    <2>4. \A i \in DOMAIN symtab_section : symtab_section[i] \in SymRec
      BY <1>2
    <2>5. DOMAIN new = DOMAIN symtab_section
      BY <2>2
    <2>6. ASSUME NEW i \in DOMAIN symtab_section, i \in Commons
          PROVE  new[i].sec = ".bss"
      <3>1. PICK v : new[i] = [symtab_section[i] EXCEPT !.sec = ".bss", !.value = v]
        BY <2>2, <2>6
      <3> QED
        BY <2>3, <2>4, <3>1
    <2>7. ASSUME NEW i \in DOMAIN symtab_section, i \notin Commons
          PROVE  new[i] = symtab_section[i] /\ symtab_section[i].sec # "common"
      BY <2>2, <2>7 DEF Commons
    <2> QED
      BY <2>1, <2>5, <2>6, <2>7
  <1>5. /\ \A n : LoadedIn(secs, n) => LoadedIn(secs', n)
        /\ \A i \in DOMAIN secs' : secs'[i].type = "rel" => "alloc" \notin secs'[i].flags
    BY <1>3, StaysLoaded DEF DirectOK, SecsLoaded
  <1>6. LoadedIn(secs', ".bss")
    <2>1. PICK i \in DOMAIN secs : secs[i].name = ".bss" /\ "alloc" \in secs[i].flags
      BY <1>2 DEF SectionsOK, SectionOK
    <2> QED
      BY <1>5, <2>1 DEF LoadedIn
  <1>7. SitesOK'
    BY <1>1, <1>4 DEF DirectOK, SitesOK
  <1>8. SecsLoaded'
    <2>1. \A i \in DOMAIN secs' : secs'[i].name \in MarkedSections => "alloc" \in secs'[i].flags
      BY <1>1, <1>3 DEF DirectOK, SecsLoaded, SecsGrow, Beginning
    <2> QED
      BY <1>5, <2>1 DEF DirectOK, SecsLoaded
  <1>9. SymsLoaded'
    <2> SUFFICES ASSUME NEW k \in 1 .. Len(Sites)
                 PROVE  SiteSymbol(k)'.sec \in {"undef", "abs"} \/ LoadedIn(secs', SiteSymbol(k)'.sec)
      BY <1>1 DEF SymsLoaded
    <2>1. PICK i \in DOMAIN symtab_section : i = sites[k].sym
      BY DEF DirectOK, SitesOK
    <2>2. SiteSymbol(k) = symtab_section[i] /\ SiteSymbol(k)' = symtab_section'[i]
      BY <1>1, <2>1 DEF SiteSymbol
    <2>3. \/ symtab_section[i].sec \in {"undef", "abs", "common"}
          \/ LoadedIn(secs, symtab_section[i].sec)
      BY <1>1, <2>2 DEF DirectOK, SymsLoaded, Beginning
    <2> QED
      BY <1>4, <1>5, <1>6, <2>2, <2>3
  <1>10. GotLoaded'
    BY <1>1 DEF DirectOK, GotLoaded, Beginning
  <1>11. AddressesOK' /\ ValuesOK'
    BY <1>1 DEF AddressesOK, ValuesOK, Addressed
  <1>12. WordsOK'
    BY <1>1 DEF DirectOK, WordsOK
  <1> QED
    BY <1>1, <1>7, <1>8, <1>9, <1>10, <1>11, <1>12 DEF DirectOK, DirectPhases, Beginning

\* The linker's own symbols are in sections that are loaded.
LEMMA DirectLinkers ==
  ASSUME WellFormed, EarlyInv, Direct, DirectOK, tcc_add_linker_symbols
  PROVE  DirectOK'
PROOF
  <1> DEFINE S == {n \in Strings : LoadedIn(secs', n)}
  <1>1. /\ phase = "linker symbols"
        /\ secs' = WithInitArrays
        /\ phase' = IF HasDynamic THEN "dynamic sections" ELSE "got"
        /\ next' = 1
        /\ UNCHANGED <<mode, sites, dyn, rels, mem>>
    BY DEF tcc_add_linker_symbols
  <1>2. phase' = "got"
    BY <1>1, DirectMode
  <1>3. /\ Adds(secs, secs', {ArrayName(k) : k \in 1 .. 3})
        /\ \A k \in 1 .. 3 : \E i \in DOMAIN secs' : secs'[i].name = ArrayName(k)
        /\ \A i \in DOMAIN secs' \ DOMAIN secs : secs'[i].type = "progbits" /\ "alloc" \in secs'[i].flags
    BY <1>1, AddingArrays DEF EarlyInv
  <1>4. SecsGrow(secs, secs')
    BY <1>3 DEF Adds, SecsGrow
  <1>5. /\ \A n : LoadedIn(secs, n) => LoadedIn(secs', n)
        /\ \A i \in DOMAIN secs' : secs'[i].type = "rel" => "alloc" \notin secs'[i].flags
    BY <1>4, StaysLoaded DEF DirectOK, SecsLoaded
  <1>6. \A i \in DOMAIN secs' : secs'[i].name \in Strings
    <2>1. \A q \in SecRec : q.name \in Strings
      BY DEF SecRec, Strings
    <2> QED
      BY <1>3, <2>1 DEF Adds, SectionsOK
  <1>7. MarkedSections \subseteq S
    <2>1. \A n \in MarkedSections : \E i \in DOMAIN secs' : secs'[i].name = n
      BY <1>3 DEF MarkedSections, Adds, SectionsOK
    <2>2. \A i \in DOMAIN secs' : secs'[i].name \in MarkedSections => "alloc" \in secs'[i].flags
      BY <1>1, <1>3 DEF Adds, DirectOK, SecsLoaded, Beginning
    <2> QED
      BY <1>6, <2>1, <2>2 DEF LoadedIn
  <1>8. \A i \in DOMAIN secs' : "alloc" \in secs'[i].flags => secs'[i].name \in S
    BY <1>6 DEF LoadedIn
  <1>9. /\ DOMAIN symtab_section \subseteq DOMAIN symtab_section'
        /\ \A i \in DOMAIN symtab_section :
              \/ symtab_section'[i] \in NotypeIn(S)
              \/ symtab_section'[i] = symtab_section[i]
    <2>1. S \subseteq Strings
      OBVIOUS
    <2> HIDE DEF S
    <2> QED
      BY <1>7, <1>8, <2>1, LinkerTableIn
  <1>10. SitesOK'
    BY <1>1, <1>9 DEF DirectOK, SitesOK
  <1>11. SecsLoaded'
    BY <1>2, <1>5 DEF DirectOK, SecsLoaded, Beginning
  <1>12. SymsLoaded'
    <2> SUFFICES ASSUME NEW k \in 1 .. Len(Sites)
                 PROVE  SiteSymbol(k)'.sec \in {"undef", "abs"} \/ LoadedIn(secs', SiteSymbol(k)'.sec)
      BY DEF SymsLoaded
    <2>1. PICK i \in DOMAIN symtab_section : i = sites[k].sym
      BY DEF DirectOK, SitesOK
    <2>2. SiteSymbol(k) = symtab_section[i] /\ SiteSymbol(k)' = symtab_section'[i]
      BY <1>1, <2>1 DEF SiteSymbol
    <2>3. symtab_section[i].sec \in {"undef", "abs"} \/ LoadedIn(secs, symtab_section[i].sec)
      BY <1>1, <2>2 DEF DirectOK, SymsLoaded, Beginning
    <2>4. \A s \in NotypeIn(S) : LoadedIn(secs', s.sec)
      BY DEF NotypeIn
    <2> HIDE DEF S
    <2> QED
      BY <1>5, <1>9, <2>2, <2>3, <2>4
  <1>13. GotLoaded'
    <2>1. \A k \in 1 .. Len(Sites) : ~(k < 1)
      BY SitesFromOne
    <2>2. dyn' = dyn /\ dyn.got = <<>>
      BY <1>1 DEF DirectOK, GotLoaded, Beginning
    <2> QED
      BY <1>1, <1>2, <2>1, <2>2 DEF GotLoaded, Beginning
  <1>14. AddressesOK' /\ ValuesOK'
    BY <1>2 DEF AddressesOK, ValuesOK, Addressed
  <1>15. WordsOK'
    BY <1>1, <1>2 DEF DirectOK, WordsOK
  <1> QED
    BY <1>2, <1>10, <1>11, <1>12, <1>13, <1>14, <1>15 DEF DirectOK, DirectPhases, BeforeSymbols

\* A relocation that wants the GOT finds it, or makes it.
LEMMA DirectBuilds ==
  ASSUME WellFormed, EarlyInv, Direct, DirectOK, BuildGotEntry
  PROVE  DirectOK'
PROOF
  <1> DEFINE r == sites[next]
             got == r.type \in {"GOT32", "PLT32", "GOTOFF", "GOTPC"} /\ dyn.got = <<>>
             d == IF got THEN build_got(dyn) ELSE dyn
             list == IF got THEN Append(secs, GotSection) ELSE secs
             rt == IF r.type = "GOT32" THEN "GLOB_DAT" ELSE "JMP_SLOT"
             puts == r.type \in {"GOT32", "PLT32"} /\ PutGotEntry(d, list, rt, symtab_section[r.sym], r.sym)
  <1>1. /\ phase = "got" /\ phase' = "got"
        /\ next <= Len(Sites)
        /\ next' = next + 1
        /\ symtab_section' = IF got THEN WithGotSymbol(symtab_section) ELSE symtab_section
        /\ puts \/ (dyn' = d /\ secs' = list /\ UNCHANGED rels)
        /\ UNCHANGED <<mode, sites, addr, mem>>
    BY Zenon DEF BuildGotEntry
  <1>2. /\ symtab_section \in Seq(SymRec)
        /\ SectionsOK(secs)
        /\ rels \in [Relocated_ -> Seq(RelRec)]
        /\ next \in Nat \ {0}
    BY DEF EarlyInv, SymbolsOK
  <1>3. puts => secs' = list /\ rels'[".bss"] = rels[".bss"] /\ ".bss" \in DOMAIN rels'
    <2> SUFFICES ASSUME puts
                 PROVE  secs' = list /\ rels'[".bss"] = rels[".bss"] /\ ".bss" \in DOMAIN rels'
      OBVIOUS
    <2> HIDE DEF got, d, list, rt, r
    <2>1. /\ secs' = WithRelSection(list, ".got")
          /\ \E x : rels' = [rels EXCEPT ![".got"] = x]
      BY Zenon DEF PutGotEntry
    <2>2. WithRelSection(list, ".got") = list
      BY DirectMode DEF WithRelSection
    <2>3. rels'[".bss"] = rels[".bss"] /\ ".bss" \in DOMAIN rels'
      BY <1>2, <2>1 DEF Relocated_
    <2> QED
      BY <2>1, <2>2, <2>3
  <1>4. /\ secs' = list
        /\ rels'[".bss"] = rels[".bss"] /\ ".bss" \in DOMAIN rels'
        /\ r.type \notin {"GOT32", "PLT32"} => dyn' = d
    <2>1. ".bss" \in DOMAIN rels
      BY DEF DirectOK, SitesOK
    <2> HIDE DEF d, list, rt, got
    <2> QED
      BY <1>1, <1>3, <2>1
  <1>5. /\ SecsGrow(secs, secs')
        /\ got => LoadedIn(secs', ".got")
    <2>1. CASE got
      <3>1. PICK s : s = GotSection
        OBVIOUS
      <3>2. s.name = ".got" /\ s.type = "progbits" /\ s.flags = {"alloc", "write"}
        BY <3>1 DEF GotSection, SecOf
      <3>3. secs' = Append(secs, s)
        BY <1>4, <2>1, <3>1
      <3>4. secs \in Seq(SecRec)
        BY <1>2 DEF SectionsOK
      <3>5. /\ DOMAIN secs' = DOMAIN secs \cup {Len(secs) + 1}
            /\ \A i \in DOMAIN secs : secs'[i] = secs[i]
            /\ secs'[Len(secs) + 1] = s
        BY <3>3, <3>4
      <3>6. SecsGrow(secs, secs')
        BY <3>2, <3>5 DEF SecsGrow
      <3>7. LoadedIn(secs', ".got")
        BY <3>2, <3>5 DEF LoadedIn
      <3> QED
        BY <3>6, <3>7
    <2>2. CASE ~got
      BY <1>4, <2>2 DEF SecsGrow
    <2> QED
      BY <2>1, <2>2
  <1>6. /\ \A n : LoadedIn(secs, n) => LoadedIn(secs', n)
        /\ \A i \in DOMAIN secs' : secs'[i].type = "rel" => "alloc" \notin secs'[i].flags
    BY <1>5, StaysLoaded DEF DirectOK, SecsLoaded
  <1>7. /\ DOMAIN symtab_section \subseteq DOMAIN symtab_section'
        /\ \A i \in DOMAIN symtab_section : symtab_section'[i] = symtab_section[i]
    <2>1. symtab_section' \in {symtab_section, WithGotSymbol(symtab_section)}
      BY <1>1
    <2>2. \/ symtab_section' = symtab_section
          \/ \E s : symtab_section' = Append(symtab_section, s)
      BY <2>1 DEF WithGotSymbol
    <2> QED
      BY <1>2, <2>2
  <1>8. next \in 1 .. Len(Sites)
    BY <1>1, <1>2, SitesFromOne
  <1>9. dyn'.got # <<>> \/ WantsGot(next) => LoadedIn(secs', ".got")
    <2>1. CASE got
      BY <1>5, <2>1
    <2>2. CASE ~got
      <3>1. /\ dyn.got # <<>> => LoadedIn(secs', ".got")
            /\ WantsGot(next) => dyn.got # <<>>
        BY <1>1, <1>6, <2>2 DEF DirectOK, GotLoaded, WantsGot
      <3>2. r.type \notin {"GOT32", "PLT32"} => dyn' = dyn
        BY <1>4, <2>2
      <3>3. r.type # "GOT32" /\ (r.type = "PLT32" => WantsGot(next))
        BY <1>8 DEF DirectOK, SitesOK, WantsGot
      <3> QED
        BY <3>1, <3>2, <3>3
    <2> QED
      BY <2>1, <2>2
  <1> HIDE DEF got, d, list, rt, r, puts
  <1>10. SitesOK'
    BY <1>1, <1>4, <1>7 DEF DirectOK, SitesOK
  <1>11. SecsLoaded'
    BY <1>1, <1>6 DEF DirectOK, SecsLoaded, Beginning
  <1>12. SymsLoaded'
    <2> SUFFICES ASSUME NEW k \in 1 .. Len(Sites)
                 PROVE  SiteSymbol(k)'.sec \in {"undef", "abs"} \/ LoadedIn(secs', SiteSymbol(k)'.sec)
      BY DEF SymsLoaded
    <2>1. sites[k].sym \in DOMAIN symtab_section
      BY DEF DirectOK, SitesOK
    <2>2. SiteSymbol(k)' = SiteSymbol(k)
      BY <1>1, <1>7, <2>1 DEF SiteSymbol
    <2>3. SiteSymbol(k).sec \in {"undef", "abs"} \/ LoadedIn(secs, SiteSymbol(k).sec)
      BY <1>1 DEF DirectOK, SymsLoaded, BeforeSymbols
    <2> QED
      BY <1>6, <2>2, <2>3
  <1>13. GotLoaded'
    <2>1. \A k \in 1 .. Len(Sites) : k < next' => k < next \/ k = next
      BY <1>1, <1>2
    <2>2. \A k \in 1 .. Len(Sites) : WantsGot(k)' = WantsGot(k)
      BY <1>1 DEF WantsGot
    <2>3. \A k \in 1 .. Len(Sites) : k < next /\ WantsGot(k) => LoadedIn(secs', ".got")
      BY <1>1, <1>6 DEF DirectOK, GotLoaded
    <2> QED
      BY <1>1, <1>9, <2>1, <2>2, <2>3 DEF GotLoaded, Beginning
  <1>14. AddressesOK' /\ ValuesOK'
    BY <1>1 DEF AddressesOK, ValuesOK, Addressed
  <1>15. WordsOK'
    BY <1>1 DEF DirectOK, WordsOK
  <1> QED
    BY <1>1, <1>10, <1>11, <1>12, <1>13, <1>14, <1>15 DEF DirectOK, DirectPhases, BeforeSymbols

\* Layout leaves symbols, relocations and words alone.
LEMMA DirectLayout ==
  ASSUME WellFormed, DirectOK, phase \in BeforeSymbols, phase' \in BeforeSymbols \ {"got"},
         phase = "got" => next > Len(Sites) /\ next \in Nat,
         SecsGrow(secs, secs'), AddressesOK',
         UNCHANGED <<mode, sites, symtab_section, rels, mem>>
  PROVE  DirectOK'
PROOF
  <1>1. /\ \A n : LoadedIn(secs, n) => LoadedIn(secs', n)
        /\ \A i \in DOMAIN secs' : secs'[i].type = "rel" => "alloc" \notin secs'[i].flags
    BY StaysLoaded DEF DirectOK, SecsLoaded
  <1>2. /\ phase' \in DirectPhases /\ phase' \notin Beginning /\ phase \notin Beginning
        /\ phase' \notin Addressed /\ phase \notin Addressed /\ phase' # "got"
    BY DEF DirectPhases, Beginning, Addressed, BeforeSymbols
  <1>3. SitesOK'
    BY DEF DirectOK, SitesOK
  <1>4. SecsLoaded'
    BY <1>1, <1>2 DEF DirectOK, SecsLoaded
  <1>5. SymsLoaded'
    <2>1. \A k \in 1 .. Len(Sites) : SiteSymbol(k)' = SiteSymbol(k)
      BY DEF SiteSymbol
    <2>2. \A k \in 1 .. Len(Sites) : SiteSymbol(k).sec \in {"undef", "abs"} \/ LoadedIn(secs, SiteSymbol(k).sec)
      BY DEF DirectOK, SymsLoaded, BeforeSymbols
    <2> QED
      BY <1>1, <2>1, <2>2 DEF SymsLoaded
  <1>6. GotLoaded'
    <2>1. \A k \in 1 .. Len(Sites) : WantsGot(k) => LoadedIn(secs, ".got")
      <3>1. CASE phase = "got"
        <4>1. \A k \in 1 .. Len(Sites) : k < next
          BY <3>1, SitesFromOne
        <4> QED
          BY <3>1, <4>1 DEF DirectOK, GotLoaded
      <3>2. CASE phase # "got"
        BY <1>2, <3>2 DEF DirectOK, GotLoaded
      <3> QED
        BY <3>1, <3>2
    <2>2. \A k \in 1 .. Len(Sites) : WantsGot(k)' = WantsGot(k)
      BY DEF WantsGot
    <2> QED
      BY <1>1, <1>2, <2>1, <2>2 DEF GotLoaded
  <1>7. ValuesOK'
    BY <1>2 DEF ValuesOK
  <1>8. WordsOK'
    BY <1>2 DEF DirectOK, WordsOK, Addressed
  <1> QED
    BY <1>2, <1>3, <1>4, <1>5, <1>6, <1>7, <1>8 DEF DirectOK

SameKind(s, t) == t.name = s.name /\ t.type = s.type /\ t.flags = s.flags

\* Unless a DLL is made, reserving room changes the sizes only.
LEMMA ReservedKeeps ==
  ASSUME Direct, NEW s \in SecRec, NEW last \in BOOLEAN
  PROVE  SameKind(s, Reserved(s, last))
PROOF
  <1>1. ~MakesDll
    BY DirectMode
  <1>2. PICK size : size = DataOffset(s)
    OBVIOUS
  <1>3. Reserved(s, last) = [s EXCEPT !.data_offset = size, !.flags = s.flags,
                                      !.sh_size = IF "alloc" \in s.flags \/ last \/ mode.type = "obj" THEN size ELSE 0]
    BY <1>1, <1>2 DEF Reserved
  <1>4. PICK z : Reserved(s, last) = [s EXCEPT !.data_offset = size, !.flags = s.flags, !.sh_size = z]
    BY <1>3
  <1>5. PICK t : t = [s EXCEPT !.data_offset = size, !.flags = s.flags, !.sh_size = z]
    OBVIOUS
  <1>6. t.name = s.name /\ t.type = s.type /\ t.flags = s.flags
    BY ONLY s \in SecRec, <1>5 DEF SecRec
  <1> QED
    BY <1>4, <1>5, <1>6 DEF SameKind

\* Without a dynamic section, sizes are reserved for sections as they are.
LEMMA DirectReserve ==
  ASSUME WellFormed, EarlyInv, Direct, DirectOK, Reserve
  PROVE  DirectOK'
PROOF
  <1>1. /\ phase = "got" /\ next > Len(Sites)
        /\ secs' = [i \in 1 .. Len(secs) + 1 |->
                      IF i > Len(secs) THEN Reserved(ShStrTab, TRUE) ELSE Reserved(secs[i], FALSE)]
        /\ phase' = IF mode.type = "obj" THEN "sections" ELSE "segments"
        /\ UNCHANGED <<mode, sites, symtab_section, rels, mem>>
    BY DEF Reserve
  <1>2. /\ secs \in Seq(SecRec) /\ next \in Nat
    BY DEF EarlyInv, SectionsOK
  <1>3. PICK n \in Nat : n = Len(secs)
    BY <1>2
  <1>4. DOMAIN secs = 1 .. n /\ \A i \in 1 .. n : secs[i] \in SecRec
    BY <1>2, <1>3
  <1>5. PICK last : last = secs'[n + 1]
    OBVIOUS
  <1>6. /\ DOMAIN secs' = 1 .. n + 1
        /\ \A i \in 1 .. n : secs'[i] = Reserved(secs[i], FALSE)
        /\ last = Reserved(ShStrTab, TRUE)
    <2>1. secs' = [i \in 1 .. n + 1 |-> IF i > n THEN Reserved(ShStrTab, TRUE) ELSE Reserved(secs[i], FALSE)]
      BY <1>1, <1>3
    <2>2. \A i \in 1 .. n : i \in 1 .. n + 1 /\ ~(i > n)
      OBVIOUS
    <2>3. n + 1 \in 1 .. n + 1 /\ n + 1 > n
      OBVIOUS
    <2> QED
      BY <1>5, <2>1, <2>2, <2>3
  <1>7. SameKind(ShStrTab, last) /\ ShStrTab.type = "strtab"
    <2>1. ".shstrtab" \in SectionNames /\ ".shstrtab" # RelName(".bss") /\ "strtab" \in Strings /\ {} \in SUBSET Flags
      BY NamesAssumption DEF SectionNames, OwnSections, NamedSections, Strings
    <2>2. ShStrTab \in SecRec
      BY <2>1, MadeIsOK DEF ShStrTab
    <2>3. ShStrTab.type = "strtab"
      BY DEF ShStrTab, SecOf
    <2>4. SameKind(ShStrTab, Reserved(ShStrTab, TRUE))
      BY <2>2, ReservedKeeps
    <2> QED
      BY <1>6, <2>3, <2>4
  <1>8. \A i \in 1 .. n : SameKind(secs[i], secs'[i])
    <2> TAKE i \in 1 .. n
    <2>1. secs[i] \in SecRec
      BY <1>4
    <2>2. SameKind(secs[i], Reserved(secs[i], FALSE))
      BY <2>1, ReservedKeeps
    <2> QED
      BY <1>6, <2>2
  <1>9. SecsGrow(secs, secs')
    <2>1. \A i \in DOMAIN secs' \ DOMAIN secs : i = n + 1
      BY <1>4, <1>6
    <2>2. secs'[n + 1].type # "rel"
      BY <1>5, <1>7 DEF SameKind
    <2>3. \A i \in DOMAIN secs : i \in DOMAIN secs'
      BY <1>4, <1>6
    <2>4. \A i \in DOMAIN secs : /\ secs'[i].name = secs[i].name
                                 /\ secs'[i].type = secs[i].type
                                 /\ secs'[i].flags = secs[i].flags
      BY <1>4, <1>8 DEF SameKind
    <2> QED
      BY <2>1, <2>2, <2>3, <2>4 DEF SecsGrow
  <1>10. phase \in BeforeSymbols /\ phase' \in BeforeSymbols \ {"got"} /\ AddressesOK'
    BY <1>1 DEF BeforeSymbols, AddressesOK, Addressed
  <1> QED
    BY <1>1, <1>2, <1>9, <1>10, DirectLayout

\* In memory, every section that is loaded gets an address.
LEMMA DirectInMemory ==
  ASSUME WellFormed, EarlyInv, DirectOK, PlaceInMemory
  PROVE  DirectOK'
PROOF
  <1>1. /\ phase = "got" /\ next > Len(Sites)
        /\ secs' = [i \in DOMAIN secs |-> [secs[i] EXCEPT !.data_offset = DataOffset(secs[i])]]
        /\ addr' = [n \in {secs[i].name : i \in {k \in DOMAIN secs : "alloc" \in secs[k].flags}} |->
                      Start + Page * (CHOOSE i \in DOMAIN secs : secs[i].name = n)]
        /\ phase' = "symbols"
        /\ UNCHANGED <<mode, sites, next, symtab_section, dyn, rels, off, here, mem>>
    BY DEF PlaceInMemory
  <1>2. secs \in Seq(SecRec) /\ next \in Nat
    BY DEF EarlyInv, SectionsOK
  <1>3. /\ DOMAIN secs' = DOMAIN secs
        /\ \A i \in DOMAIN secs : /\ secs'[i].name = secs[i].name
                                  /\ secs'[i].type = secs[i].type
                                  /\ secs'[i].flags = secs[i].flags
    <2>1. \A s \in SecRec : \A v : LET t == [s EXCEPT !.data_offset = v]
                                   IN t.name = s.name /\ t.type = s.type /\ t.flags = s.flags
      BY DEF SecRec
    <2>2. \A i \in DOMAIN secs : secs[i] \in SecRec
      BY <1>2
    <2>3. \A i \in DOMAIN secs : \E v : secs'[i] = [secs[i] EXCEPT !.data_offset = v]
      BY <1>1
    <2>4. DOMAIN secs' = DOMAIN secs
      BY <1>1
    <2>5. ASSUME NEW i \in DOMAIN secs
          PROVE  /\ secs'[i].name = secs[i].name
                 /\ secs'[i].type = secs[i].type
                 /\ secs'[i].flags = secs[i].flags
      <3>1. PICK v : secs'[i] = [secs[i] EXCEPT !.data_offset = v]
        BY <2>3
      <3> QED
        BY <2>1, <2>2, <3>1
    <2> QED
      BY <2>4, <2>5
  <1>4. SecsGrow(secs, secs')
    BY <1>3 DEF SecsGrow
  <1>5. AddressesOK'
    <2> SUFFICES ASSUME NEW i \in DOMAIN secs, "alloc" \in secs[i].flags
                 PROVE  addr'[secs[i].name] \in Int
      BY <1>3 DEF AddressesOK
    <2>1. PICK n : n = secs[i].name
      OBVIOUS
    <2>2. PICK j : j = CHOOSE k \in DOMAIN secs : secs[k].name = n
      OBVIOUS
    <2>3. j \in DOMAIN secs
      BY <2>1, <2>2
    <2>4. j \in Nat
      BY <1>2, <2>3
    <2>5. addr'[n] = Start + Page * j
      BY <1>1, <2>1, <2>2
    <2>6. Start \in Nat /\ Page \in Nat
      BY OutputAssumption
    <2>7. Page * j \in Nat
      BY <2>4, <2>6
    <2> QED
      BY <2>1, <2>5, <2>6, <2>7
  <1>6. phase \in BeforeSymbols /\ phase' \in BeforeSymbols \ {"got"}
    BY <1>1 DEF BeforeSymbols
  <1> QED
    BY <1>1, <1>2, <1>4, <1>5, <1>6, DirectLayout

\* In a file, layout places what is loaded.
LEMMA DirectPlaces ==
  ASSUME WellFormed, LateInv, Direct, DirectOK,
         PlaceSection \/ NextSegment \/ FinishDynamic \/ PlaceOthers
  PROVE  DirectOK'
PROOF
  <1>1. /\ phase \in {"segments", "dynamic", "sections"}
        /\ phase' \in {"segments", "dynamic", "sections", "symbols"}
        /\ phase' = "symbols" => phase = "sections" /\ addr' = addr
        /\ UNCHANGED <<mode, sites, secs, symtab_section, rels, mem>>
    <2>1. CASE PlaceSection
      BY <2>1 DEF PlaceSection
    <2>2. CASE NextSegment
      BY <2>2 DEF NextSegment
    <2>3. CASE FinishDynamic
      BY <2>3, Zenon DEF FinishDynamic
    <2>4. CASE PlaceOthers
      <3>1. /\ phase = "sections"
            /\ phase' \in {"sections", IF mode.type = "obj" THEN "written" ELSE "symbols"}
            /\ UNCHANGED <<mode, sites, secs, symtab_section, rels, addr, mem>>
        BY <2>4 DEF PlaceOthers
      <3> QED
        BY <3>1, DirectMode
    <2> QED
      BY <2>1, <2>2, <2>3, <2>4
  <1>2. SecsGrow(secs, secs')
    BY <1>1 DEF SecsGrow
  <1>3. AddressesOK'
    <2> SUFFICES ASSUME phase' = "symbols", NEW i \in DOMAIN secs, "alloc" \in secs[i].flags
                 PROVE  addr[secs[i].name] \in Int
      BY <1>1 DEF AddressesOK, Addressed
    <2>1. AllPlaced /\ MemoryOK
      BY <1>1, DirectMode DEF LateInv, LayoutOK, Image
    <2>2. Placed(i)
      BY <2>1 DEF AllPlaced, InMem
    <2> QED
      BY <2>1, <2>2 DEF Placed, MemoryOK
  <1>4. phase \in BeforeSymbols /\ phase' \in BeforeSymbols \ {"got"} /\ phase # "got"
    BY <1>1 DEF BeforeSymbols
  <1> QED
    BY <1>1, <1>2, <1>3, <1>4, DirectLayout

\* What relocate_syms makes of a symbol: of one that is undefined, what is
\* offered for it, and of any other, where it is.
LEMMA DirectValue ==
  ASSUME WellFormed, LibsTell, SitesTell, Direct, mode \in Modes, NEW s \in SymRec, NEW n, n = s.sec,
         n \in {"undef", "abs"} \/ addr[n] \in Int
  PROVE  /\ SymbolValue(s) \in Int
         /\ IsUndef(s) => SymbolValue(s) = Offered(s.name)
PROOF
  <1>1. s.value \in Nat
    BY DEF SymRec
  <1>2. CASE n = "undef"
    <2>1. IsUndef(s) /\ SymbolValue(s) = IF Resolvable(s) THEN ResolvedValue(s) ELSE 0
      BY <1>2 DEF IsUndef, SymbolValue
    <2>2. CASE InMemory
      <3>1. ~mode.static
        BY <2>2 DEF LibsTell, InMemory
      <3>2. Resolvable(s) <=> InLibs(s) # 0 /\ ~IsUndef(Libs[InLibs(s)])
        BY <2>2 DEF Resolvable
      <3>3. /\ InLibs(s) = 0 => ~DefinedInLibs(s.name)
            /\ InLibs(s) # 0 => /\ InLibs(s) \in DOMAIN Libs
                                /\ Libs[InLibs(s)].name = s.name
                                /\ ~IsUndef(Libs[InLibs(s)]) => DefinedInLibs(s.name)
        BY LibsHave
      <3>4. \A k, l \in DOMAIN Libs : Libs[k].name = Libs[l].name => k = l
        BY DEF SitesTell
      <3>5. Resolvable(s) <=> DefinedInLibs(s.name)
        BY <3>2, <3>3, <3>4 DEF DefinedInLibs
      <3>6. DefinedInLibs(s.name) => DllAddress(s.name) \in Int
        BY DEF DefinedInLibs, SitesTell
      <3>7. ResolvedValue(s) = DllAddress(s.name)
        BY <2>2 DEF ResolvedValue
      <3>8. PICK x : x = DllAddress(s.name)
        OBVIOUS
      <3>9. SymbolValue(s) = IF DefinedInLibs(s.name) THEN x ELSE 0
        BY <2>1, <3>5, <3>7, <3>8
      <3>10. Offered(s.name) = IF DefinedInLibs(s.name) THEN x ELSE 0
        BY <3>1, <3>8 DEF Offered
      <3> QED
        BY <3>6, <3>8, <3>9, <3>10
    <2>3. CASE ~InMemory
      <3>1. mode.static
        BY <2>3 DEF Direct
      <3>2. ~Resolvable(s)
        BY <2>3, DirectMode DEF Resolvable
      <3>3. Offered(s.name) = 0
        BY <3>1 DEF Offered
      <3> QED
        BY <2>1, <3>2, <3>3
    <2> QED
      BY <2>2, <2>3
  <1>3. CASE n = "abs"
    <2>1. ~IsUndef(s) /\ SymbolValue(s) = s.value
      BY <1>3 DEF IsUndef, SymbolValue
    <2> QED
      BY <1>1, <2>1
  <1>4. CASE n \notin {"undef", "abs"}
    <2>1. ~IsUndef(s) /\ SymbolValue(s) = s.value + addr[n]
      BY <1>4 DEF IsUndef, SymbolValue
    <2> QED
      BY <1>1, <1>4, <2>1
  <1> QED
    BY <1>2, <1>3, <1>4

\* Symbols get their addresses.
LEMMA DirectSymbols ==
  ASSUME WellFormed, LibsTell, SitesTell, AnswerInv, Direct, DirectOK, relocate_syms, phase' # "refused"
  PROVE  DirectOK'
PROOF
  <1>1. /\ phase = "symbols" /\ phase' = "relocate"
        /\ symtab_section' = [i \in DOMAIN symtab_section |->
                                [symtab_section[i] EXCEPT !.value = SymbolValue(symtab_section[i])]]
        /\ UNCHANGED <<mode, sites, next, secs, dyn, rels, addr, mem>>
    BY Zenon DEF relocate_syms
  <1>2. symtab_section \in Seq(SymRec) /\ mode \in Modes
    BY <1>1 DEF AnswerInv, AnswersOK, ModeOK, BeforeSymbols
  <1>3. /\ DOMAIN symtab_section' = DOMAIN symtab_section
        /\ \A i \in DOMAIN symtab_section : /\ symtab_section[i] \in SymRec
                                            /\ symtab_section'[i].value = SymbolValue(symtab_section[i])
                                            /\ symtab_section'[i].name = symtab_section[i].name
                                            /\ symtab_section'[i].sec = symtab_section[i].sec
    <2>1. \A s \in SymRec : \A v : LET t == [s EXCEPT !.value = v]
                                   IN t.value = v /\ t.name = s.name /\ t.sec = s.sec
      BY DEF SymRec
    <2>2. \A i \in DOMAIN symtab_section : symtab_section[i] \in SymRec
      BY <1>2
    <2> QED
      BY <1>1, <2>1, <2>2
  <1>4. \A i \in DOMAIN secs : "alloc" \in secs[i].flags => addr[secs[i].name] \in Int
    BY <1>1 DEF DirectOK, AddressesOK
  <1>5. SitesOK'
    BY <1>1, <1>3 DEF DirectOK, SitesOK
  <1>6. SecsLoaded' /\ AddressesOK' /\ GotLoaded'
    BY <1>1, <1>4 DEF DirectOK, SecsLoaded, AddressesOK, GotLoaded, WantsGot, Beginning
  <1>7. SymsLoaded'
    BY <1>1 DEF SymsLoaded, Beginning, BeforeSymbols
  <1>8. ValuesOK'
    <2> SUFFICES ASSUME NEW k \in 1 .. Len(Sites)
                 PROVE  /\ SiteSymbol(k)'.value \in Int
                        /\ IsUndef(SiteSymbol(k)') => SiteSymbol(k)'.value = Offered(SiteSymbol(k).name)'
      BY DEF ValuesOK
    <2>1. PICK i \in DOMAIN symtab_section : i = sites[k].sym
      BY DEF DirectOK, SitesOK
    <2>2. SiteSymbol(k) = symtab_section[i] /\ SiteSymbol(k)' = symtab_section'[i]
      BY <1>1, <2>1 DEF SiteSymbol
    <2>3. PICK s \in SymRec : s = symtab_section[i]
      BY <1>3
    <2>4. PICK n : n = s.sec
      OBVIOUS
    <2>5. n \in {"undef", "abs"} \/ LoadedIn(secs, n)
      BY <1>1, <2>2, <2>3, <2>4 DEF DirectOK, SymsLoaded, BeforeSymbols
    <2>6. n \in {"undef", "abs"} \/ addr[n] \in Int
      BY <1>4, <2>5 DEF LoadedIn
    <2>7. /\ SymbolValue(s) \in Int
          /\ IsUndef(s) => SymbolValue(s) = Offered(s.name)
      BY <1>2, <2>4, <2>6, DirectValue
    <2>8. Offered(SiteSymbol(k).name)' = Offered(s.name)
      BY <1>1, <1>3, <2>2, <2>3 DEF Offered
    <2>9. IsUndef(symtab_section'[i]) <=> IsUndef(s)
      BY <1>3, <2>3 DEF IsUndef
    <2> QED
      BY <1>3, <2>2, <2>3, <2>7, <2>8, <2>9
  <1>9. WordsOK'
    BY <1>1 DEF DirectOK, WordsOK
  <1> QED
    BY <1>1, <1>5, <1>6, <1>7, <1>8, <1>9 DEF DirectOK, DirectPhases, Addressed

\* Each word is relocated with its symbol's address, once.
LEMMA DirectSection ==
  ASSUME WellFormed, SitesTell, Direct, DirectOK, relocate_section
  PROVE  DirectOK'
PROOF
  <1>1. /\ phase = "relocate" /\ phase' \in {"written", "relocations"}
        /\ mem' = [c \in DOMAIN mem |->
                     LET here_ == {k \in DOMAIN Sites : Sites[k] = c}
                     IN IF here_ = {} THEN mem[c]
                        ELSE LET k == CHOOSE k \in here_ : TRUE
                             IN  Relocated(sites[k], addr[c[1]] + c[2], mem[c])]
        /\ rels' = [of \in DOMAIN rels |-> IF MakesDll /\ of \in Relocatable THEN Compacted(of) ELSE rels[of]]
        /\ UNCHANGED <<mode, sites, next, secs, symtab_section, dyn, addr>>
    BY Zenon DEF relocate_section
  <1>2. \A k \in 1 .. Len(Sites) : Sites[k] \in DOMAIN mem /\ mem[Sites[k]] = 0
    BY <1>1 DEF DirectOK, WordsOK
  <1>3. ".bss" \in DOMAIN rels' /\ ~HasCopies(rels'[".bss"])
    <2>1. ~MakesDll
      BY DirectMode
    <2>2. rels' = [of \in DOMAIN rels |-> rels[of]]
      BY <1>1, <2>1
    <2> QED
      BY <2>2 DEF DirectOK, SitesOK
  <1>4. SitesOK'
    BY <1>1, <1>3 DEF DirectOK, SitesOK
  <1>5. SecsLoaded' /\ AddressesOK' /\ GotLoaded'
    BY <1>1 DEF DirectOK, SecsLoaded, AddressesOK, GotLoaded, WantsGot, Beginning, Addressed
  <1>6. SymsLoaded'
    BY <1>1 DEF SymsLoaded, Beginning, BeforeSymbols
  <1>7. ValuesOK'
    BY <1>1 DEF DirectOK, ValuesOK, SiteSymbol, Offered, Addressed
  <1>8. WordsOK'
    <2> SUFFICES ASSUME NEW k \in 1 .. Len(Sites)
                 PROVE  mem'[Sites[k]] = Relocated(sites[k], SiteAddress(k), 0)'
      BY <1>1 DEF WordsOK
    <2>1. k \in DOMAIN Sites /\ \A l \in DOMAIN Sites : Sites[l] = Sites[k] => l = k
      BY SitesFromOne DEF SitesTell
    <2>2. {l \in DOMAIN Sites : Sites[l] = Sites[k]} = {k}
      BY <2>1
    <2>3. PICK c : c = Sites[k]
      OBVIOUS
    <2>4. PICK a : a = addr[c[1]] + c[2]
      OBVIOUS
    <2>5. mem'[c] = Relocated(sites[k], a, 0)
      <3>1. c \in DOMAIN mem /\ mem[c] = 0
        BY <1>2, <2>3
      <3>2. {l \in DOMAIN Sites : Sites[l] = c} = {k}
        BY <2>2, <2>3
      <3>3. (CHOOSE l \in {k} : TRUE) = k
        OBVIOUS
      <3> QED
        BY <1>1, <2>4, <3>1, <3>2, <3>3
    <2>6. SiteAddress(k)' = a
      BY <1>1, <2>3, <2>4 DEF SiteAddress
    <2>7. Relocated(sites[k], a, 0)' = Relocated(sites[k], a, 0)
      BY <1>1 DEF Relocated, EsymIndex, MakesDll
    <2> QED
      BY <1>1, <2>3, <2>5, <2>6, <2>7
  <1> QED
    BY <1>1, <1>4, <1>5, <1>6, <1>7, <1>8 DEF DirectOK, DirectPhases, Addressed

\* There are no entries for a loader.
LEMMA DirectRel ==
  ASSUME WellFormed, Direct, DirectOK, relocate_rel
  PROVE  DirectOK'
PROOF
  <1>1. /\ phase = "relocations" /\ phase' = "written"
        /\ rels' = [of \in DOMAIN rels |->
                      IF Moves(of) THEN [k \in DOMAIN rels[of] |-> [rels[of][k] EXCEPT !.offset = rels[of][k].offset + addr[of]]]
                      ELSE rels[of]]
        /\ UNCHANGED <<mode, sites, next, secs, symtab_section, dyn, addr, mem>>
    BY Zenon DEF relocate_rel
  <1>2. ".bss" \in DOMAIN rels' /\ ~HasCopies(rels'[".bss"])
    <2>1. \A of : ~Moves(of)
      BY DEF DirectOK, SecsLoaded, Moves, RelSections
    <2>2. rels' = [of \in DOMAIN rels |-> rels[of]]
      BY <1>1, <2>1
    <2> QED
      BY <2>2 DEF DirectOK, SitesOK
  <1>3. SitesOK'
    BY <1>1, <1>2 DEF DirectOK, SitesOK
  <1>4. SecsLoaded' /\ AddressesOK' /\ GotLoaded'
    BY <1>1 DEF DirectOK, SecsLoaded, AddressesOK, GotLoaded, WantsGot, Beginning, Addressed
  <1>5. SymsLoaded'
    BY <1>1 DEF SymsLoaded, Beginning, BeforeSymbols
  <1>6. ValuesOK'
    BY <1>1 DEF DirectOK, ValuesOK, SiteSymbol, Offered, Addressed
  <1>7. WordsOK'
    <2>1. \A r, a : Relocated(r, a, 0)' = Relocated(r, a, 0)
      BY <1>1 DEF Relocated, EsymIndex, MakesDll
    <2>2. \A k : SiteAddress(k)' = SiteAddress(k)
      BY <1>1 DEF SiteAddress
    <2> QED
      BY <1>1, <2>1, <2>2 DEF DirectOK, WordsOK
  <1> QED
    BY <1>1, <1>3, <1>4, <1>5, <1>6, <1>7 DEF DirectOK, DirectPhases, Addressed

LEMMA DirectRests ==
  ASSUME DirectOK, UNCHANGED outputVars
  PROVE  DirectOK'
PROOF
  <1>1. UNCHANGED <<mode, sites, phase, next, secs, symtab_section, dyn, rels, addr, mem>>
    BY DEF outputVars
  <1>2. SitesOK' /\ SecsLoaded'
    BY <1>1 DEF DirectOK, SitesOK, SecsLoaded
  <1>3. SymsLoaded' /\ ValuesOK'
    BY <1>1 DEF DirectOK, SymsLoaded, ValuesOK, SiteSymbol, Offered
  <1>4. GotLoaded' /\ AddressesOK'
    BY <1>1 DEF DirectOK, GotLoaded, AddressesOK, WantsGot
  <1>5. WordsOK'
    <2>1. \A r, a : Relocated(r, a, 0)' = Relocated(r, a, 0)
      BY <1>1 DEF Relocated, EsymIndex, MakesDll
    <2>2. \A k : SiteAddress(k)' = SiteAddress(k)
      BY <1>1 DEF SiteAddress
    <2> QED
      BY <1>1, <2>1, <2>2 DEF DirectOK, WordsOK
  <1> QED
    BY <1>1, <1>2, <1>3, <1>4, <1>5 DEF DirectOK

\* In memory there is no layout of a file.
NoLayout == InMemory => phase \notin {"segments", "dynamic", "sections"}

LEMMA NoLayoutStep ==
  ASSUME NoLayout, [OutputNext]_outputVars
  PROVE  NoLayout' /\ mode' = mode
PROOF
  <1> DEFINE layout(p) == p \in {"segments", "dynamic", "sections"}
  <1>1. mode' = mode /\ (layout(phase') => layout(phase) \/ ~InMemory)
    <2>1. CASE relocate_common_syms \/ new_dynamic_sections
      BY <2>1 DEF relocate_common_syms, new_dynamic_sections
    <2>2. CASE tcc_add_linker_symbols
      <3>1. mode' = mode /\ phase' \in {"dynamic sections", "got"}
        BY <2>2 DEF tcc_add_linker_symbols
      <3> QED
        BY <3>1
    <2>3. CASE ScanSymbol
      <3>1. mode' = mode /\ phase = "scan" /\ phase' \in {phase, "refused"}
        BY <2>3, Zenon DEF ScanSymbol
      <3> QED
        BY <3>1
    <2>4. CASE Scanned
      BY <2>4 DEF Scanned
    <2>5. CASE ExportToLibs
      <3>1. mode' = mode /\ phase' = "got"
        BY <2>5, Zenon DEF ExportToLibs
      <3> QED
        BY <3>1
    <2>6. CASE ExportAll
      <3>1. mode' = mode /\ phase' = "got"
        BY <2>6, Zenon DEF ExportAll
      <3> QED
        BY <3>1
    <2>7. CASE BuildGotEntry
      <3>1. mode' = mode /\ phase' = phase /\ phase = "got"
        BY <2>7, Zenon DEF BuildGotEntry
      <3> QED
        BY <3>1
    <2>8. CASE Reserve
      BY <2>8 DEF Reserve
    <2>9. CASE PlaceSection \/ NextSegment
      BY <2>9 DEF PlaceSection, NextSegment
    <2>10. CASE FinishDynamic
      <3>1. mode' = mode /\ phase = "dynamic"
        BY <2>10, Zenon DEF FinishDynamic
      <3> QED
        BY <3>1
    <2>11. CASE PlaceOthers
      <3>1. mode' = mode /\ phase = "sections"
        BY <2>11, Zenon DEF PlaceOthers
      <3> QED
        BY <3>1
    <2>12. CASE PlaceInMemory
      BY <2>12 DEF PlaceInMemory
    <2>13. CASE relocate_syms
      <3>1. mode' = mode /\ phase' \in {"refused", "relocate"}
        BY <2>13, Zenon DEF relocate_syms
      <3> QED
        BY <3>1
    <2>14. CASE relocate_section
      <3>1. mode' = mode /\ phase' \in {"written", "relocations"}
        BY <2>14, Zenon DEF relocate_section
      <3> QED
        BY <3>1
    <2>15. CASE relocate_rel
      <3>1. mode' = mode /\ phase' = "written"
        BY <2>15, Zenon DEF relocate_rel
      <3> QED
        BY <3>1
    <2>16. CASE UNCHANGED outputVars
      BY <2>16 DEF outputVars
    <2> QED
      BY <2>1, <2>2, <2>3, <2>4, <2>5, <2>6, <2>7, <2>8, <2>9, <2>10, <2>11, <2>12, <2>13, <2>14, <2>15, <2>16
      DEF OutputNext
  <1> HIDE DEF layout
  <1>2. NoLayout' <=> ~(InMemory /\ layout(phase'))
    BY <1>1 DEF NoLayout, InMemory, layout
  <1>3. NoLayout => ~(InMemory /\ layout(phase))
    BY DEF NoLayout, layout
  <1> QED
    BY <1>1, <1>2, <1>3

\* Every step keeps the invariant.
LEMMA DirectStep ==
  ASSUME WellFormed, LibsTell, SitesTell, ImageInv, AnswerInv, NoLayout, DirectInv,
         [OutputNext]_outputVars
  PROVE  DirectInv'
PROOF
  <1> SUFFICES ASSUME Direct', phase' # "refused" PROVE DirectOK'
    BY DEF DirectInv
  <1>1. Direct
    BY NoLayoutStep DEF Direct, InMemory, Exe
  <1>2. phase = "refused" \/ DirectOK
    BY <1>1 DEF DirectInv
  <1>3. phase \in First \cup Second => EarlyInv
    BY DEF ImageInv
  <1>4. CASE relocate_common_syms
    <2>1. phase = "commons"
      BY <1>4 DEF relocate_common_syms
    <2> QED
      BY <1>2, <1>3, <1>4, <2>1, DirectCommons DEF First
  <1>5. CASE tcc_add_linker_symbols
    <2>1. phase = "linker symbols"
      BY <1>5 DEF tcc_add_linker_symbols
    <2> QED
      BY <1>1, <1>2, <1>3, <1>5, <2>1, DirectLinkers DEF First
  <1>6. CASE new_dynamic_sections \/ ScanSymbol \/ Scanned \/ ExportToLibs \/ ExportAll
    <2>1. phase \in {"dynamic sections", "scan", "exports", "export all"}
      BY <1>6, Zenon DEF new_dynamic_sections, ScanSymbol, Scanned, ExportToLibs, ExportAll
    <2>2. phase \notin DirectPhases /\ phase # "refused"
      BY <2>1 DEF DirectPhases, Beginning, BeforeSymbols, Addressed
    <2> QED
      BY <1>2, <2>2 DEF DirectOK
  <1>7. CASE BuildGotEntry
    <2>1. phase = "got"
      BY <1>7, Zenon DEF BuildGotEntry
    <2> QED
      BY <1>1, <1>2, <1>3, <1>7, <2>1, DirectBuilds DEF Second
  <1>8. CASE Reserve
    <2>1. phase = "got"
      BY <1>8 DEF Reserve
    <2> QED
      BY <1>1, <1>2, <1>3, <1>8, <2>1, DirectReserve DEF Second
  <1>9. CASE PlaceInMemory
    <2>1. phase = "got"
      BY <1>9 DEF PlaceInMemory
    <2> QED
      BY <1>2, <1>3, <1>9, <2>1, DirectInMemory DEF Second
  <1>10. CASE PlaceSection \/ NextSegment \/ FinishDynamic \/ PlaceOthers
    <2>1. phase \in {"segments", "dynamic", "sections"}
      <3>1. CASE PlaceSection \/ NextSegment
        BY <3>1 DEF PlaceSection, NextSegment
      <3>2. CASE FinishDynamic \/ PlaceOthers
        BY <3>2, Zenon DEF FinishDynamic, PlaceOthers
      <3> QED
        BY <1>10, <3>1, <3>2
    <2>2. ~InMemory /\ phase \in Late
      BY <2>1 DEF NoLayout, Late
    <2>3. LateInv
      BY <2>2 DEF ImageInv
    <2> QED
      BY <1>1, <1>2, <1>10, <2>1, <2>3, DirectPlaces
  <1>11. CASE relocate_syms
    <2>1. phase = "symbols"
      BY <1>11 DEF relocate_syms
    <2> QED
      BY <1>1, <1>2, <1>11, <2>1, DirectSymbols
  <1>12. CASE relocate_section
    <2>1. phase = "relocate"
      BY <1>12, Zenon DEF relocate_section
    <2> QED
      BY <1>1, <1>2, <1>12, <2>1, DirectSection
  <1>13. CASE relocate_rel
    <2>1. phase = "relocations"
      BY <1>13, Zenon DEF relocate_rel
    <2> QED
      BY <1>1, <1>2, <1>13, <2>1, DirectRel
  <1>14. CASE UNCHANGED outputVars
    <2>1. phase' = phase
      BY <1>14 DEF outputVars
    <2> QED
      BY <1>2, <1>14, <2>1, DirectRests
  <1> QED
    BY <1>4, <1>5, <1>6, <1>7, <1>8, <1>9, <1>10, <1>11, <1>12, <1>13, <1>14 DEF OutputNext

\* A site's symbol stands for the value it was given.
LEMMA DirectDenoted ==
  ASSUME WellFormed, LibsTell, SitesTell, Direct, DirectOK, phase = "written", NEW k \in 1 .. Len(Sites)
  PROVE  Denoted(sites[k].sym) = SiteSymbol(k).value
PROOF
  <1>1. PICK i : i = sites[k].sym
    OBVIOUS
  <1>2. PICK s : s = symtab_section[i]
    OBVIOUS
  <1>3. s = SiteSymbol(k)
    BY <1>1, <1>2 DEF SiteSymbol
  <1>4. s.value \in Int /\ (IsUndef(s) => s.value = Offered(s.name))
    BY <1>3 DEF DirectOK, ValuesOK, Addressed
  <1>5. Base = 0
    BY DirectMode DEF Base
  <1>6. CopyOf(s.name) = {}
    BY DEF CopyOf, Copies, DirectOK, SitesOK, HasCopies
  <1>7. PICK libs : libs = {l \in Number(Libs, s.name) : ~IsUndef(Libs[l]) /\ ~mode.static}
    OBVIOUS
  <1>8. libs # {} <=> ~mode.static /\ DefinedInLibs(s.name)
    BY <1>7 DEF Number, DefinedInLibs
  <1>9. Denoted(i) = CASE ~IsUndef(s) -> Base + s.value
                       [] IsUndef(s) /\ CopyOf(s.name) # {} -> rels[".bss"][CHOOSE l \in CopyOf(s.name) : TRUE].offset
                       [] IsUndef(s) /\ CopyOf(s.name) = {} /\ libs # {} -> DllAddress(s.name)
                       [] OTHER -> 0
    BY <1>2, <1>7 DEF Denoted
  <1>10. CASE ~IsUndef(s)
    <2>1. Denoted(i) = Base + s.value
      BY <1>9, <1>10
    <2> QED
      BY <1>1, <1>3, <1>4, <1>5, <2>1
  <1>11. CASE IsUndef(s)
    <2>1. PICK a : a = DllAddress(s.name)
      OBVIOUS
    <2>2. Denoted(i) = IF libs # {} THEN a ELSE 0
      BY <1>6, <1>9, <1>11, <2>1
    <2>3. s.value = IF libs # {} THEN a ELSE 0
      BY <1>4, <1>8, <1>11, <2>1 DEF Offered
    <2> QED
      BY <1>1, <1>3, <2>2, <2>3
  <1> QED
    BY <1>10, <1>11

\* So each word reaches its symbol.
LEMMA DirectReaches ==
  ASSUME WellFormed, LibsTell, SitesTell, Direct, DirectOK, phase = "written", NEW k \in 1 .. Len(Sites)
  PROVE  SiteReaches(k)
PROOF
  <1> DEFINE w == mem[Sites[k]]
             a == SiteAddress(k)
             i == sites[k].sym
             val == SiteSymbol(k).value
             g == addr[".got"]
  <1>1. Base = 0 /\ \A r : EsymIndex(r) = 0
    BY DirectMode DEF Base, EsymIndex
  <1>2. \A b, word : Loaded(b, word) = word
    <2>1. LoaderEntries = {}
      BY DEF LoaderEntries, RelSections, DirectOK, SecsLoaded
    <2> QED
      BY <2>1, Zenon DEF Loaded
  <1>3. \A n : LoadedIn(secs, n) => addr[n] \in Int
    BY DEF DirectOK, AddressesOK, Addressed, LoadedIn
  <1>4. a \in Int
    <2>1. LoadedIn(secs, Sites[k][1])
      BY DEF DirectOK, SecsLoaded
    <2>2. Sites[k] \in Strings \X Nat
      BY SitesFromOne DEF WellFormed
    <2>3. addr[Sites[k][1]] \in Int /\ Sites[k][2] \in Nat
      BY <1>3, <2>1, <2>2
    <2> QED
      BY <2>3 DEF SiteAddress
  <1>5. val \in Int /\ Denoted(i) = val
    BY DirectDenoted DEF DirectOK, ValuesOK, Addressed
  <1>6. WantsGot(k) => g \in Int
    BY <1>3 DEF DirectOK, GotLoaded, Beginning
  <1>7. w = Relocated(sites[k], a, 0)
    BY DEF DirectOK, WordsOK
  <1>8. SiteWord(k) = w
    BY <1>2 DEF SiteWord
  <1>9. symtab_section[sites[k].sym].value = val
    BY DEF SiteSymbol
  <1>10. \A b : b = val => Reaches(b, i)
    BY <1>5 DEF Reaches
  <1>11. sites[k].type \in {"32", "PC32", "PLT32", "GOTOFF", "GOTPC"}
    BY DEF DirectOK, SitesOK
  <1> HIDE DEF w, a, i, val, g
  <1>12. CASE sites[k].type = "32"
    <2>1. w = 0 + val
      BY <1>1, <1>7, <1>9, <1>12 DEF Relocated
    <2>2. Reaches(w, i)
      BY <1>5, <1>10, <2>1
    <2>3. SiteReaches(k) <=> Reaches(SiteWord(k), i)
      BY <1>12 DEF SiteReaches, i
    <2> QED
      BY <1>8, <2>2, <2>3
  <1>13. CASE sites[k].type \in {"PC32", "PLT32"}
    <2>1. w = 0 + val - a
      BY <1>1, <1>7, <1>9, <1>13 DEF Relocated
    <2>2. w + (0 + a) = val
      BY <1>4, <1>5, <2>1
    <2>3. SiteReaches(k) <=> Reaches(SiteWord(k) + (Base + a), i)
      BY <1>13 DEF SiteReaches, i, a
    <2> QED
      BY <1>1, <1>8, <1>10, <2>2, <2>3
  <1>14. CASE sites[k].type = "GOTOFF"
    <2>1. w = 0 + val - g
      BY <1>7, <1>9, <1>14 DEF Relocated, g
    <2>2. g \in Int
      BY <1>6, <1>14 DEF WantsGot
    <2>3. w + g + 0 = val
      BY <1>5, <2>1, <2>2
    <2>4. SiteReaches(k) <=> SiteWord(k) + g + Base = Denoted(i)
      BY <1>14 DEF SiteReaches, i, g
    <2> QED
      BY <1>1, <1>5, <1>8, <2>3, <2>4
  <1>15. CASE sites[k].type = "GOTPC"
    <2>1. w = 0 + g - a
      BY <1>7, <1>15 DEF Relocated, g
    <2>2. g \in Int
      BY <1>6, <1>15 DEF WantsGot
    <2>3. w + (0 + a) = g + 0
      BY <1>4, <2>1, <2>2
    <2>4. SiteReaches(k) <=> SiteWord(k) + (Base + a) = g + Base
      BY <1>15 DEF SiteReaches, a, g
    <2> QED
      BY <1>1, <1>8, <2>3, <2>4
  <1> QED
    BY <1>11, <1>12, <1>13, <1>14, <1>15

\* What is run from memory or linked statically has nobody to finish it: every
\* word of it that needs no entry of the GOT holds what it was relocated with
\* once and leads to its symbol, in the program, in .bss, in a section the
\* linker made or in the host program, from the start (relocate_syms,
\* relocate_section, tcc_relocate).
THEOREM WordsReachWithoutLoader ==
  ASSUME WellFormed, LibsTell, SitesTell, "got without loader" \notin Doubtful
  PROVE  OutputSpec => [](~HasDynamic => WordsReach)
PROOF
  <1> DEFINE Inv == ImageInv /\ AnswerInv /\ NoLayout /\ DirectInv
  <1>1. OutputInit => Inv
    <2>1. OutputInit => NoLayout
      <3>1. OutputInit => phase = IF mode.type = "obj" THEN "got" ELSE "commons"
        BY Zenon DEF OutputInit
      <3> QED
        BY <3>1 DEF NoLayout
    <2> QED
      BY <2>1, ImageInit, AnswerInit, DirectInit
  <1>2. Inv /\ [OutputNext]_outputVars => Inv'
    BY ImageStep, AnswerStep, NoLayoutStep, DirectStep
  <1>3. Inv => (~HasDynamic => WordsReach)
    <2> SUFFICES ASSUME Inv, ~HasDynamic PROVE WordsReach
      OBVIOUS
    <2>1. NamesAgree
      BY DEF NamesAgree
    <2>2. ASSUME Linked PROVE \A k \in DOMAIN Sites : SiteReaches(k)
      <3>1. phase = "written" /\ mode.type # "obj"
        BY <2>2 DEF Linked
      <3>2. mode \in Modes
        BY DEF AnswerInv, ModeOK
      <3>3. Direct
        BY <3>1, <3>2 DEF Direct, HasDynamic, InMemory, Exe, LibsTell
      <3>4. DirectOK
        BY <3>1, <3>3 DEF DirectInv
      <3> QED
        BY <3>1, <3>3, <3>4, DirectReaches, SitesFromOne
    <2> QED
      BY <2>1, <2>2 DEF WordsReach, SitesReach
  <1> QED
    BY <1>1, <1>2, <1>3, PTL DEF OutputSpec
=============================================================================

------------------------------ MODULE LinkOutput ------------------------------
(***************************************************************************)
(* What the linker makes of its inputs (tccelf.c: tcc_output_file and what *)
(* it calls; tcc.c: tcc_relocate).  Common symbols get storage, undefined  *)
(* ones a PLT entry, a copy in .bss or a place in the dynamic symbol table,*)
(* sections get addresses, and relocations are performed now or are left to *)
(* the dynamic loader, which is modelled from outside.                     *)
(*                                                                         *)
(* Sizes and addresses are in words of 4 bytes.                            *)
(***************************************************************************)
EXTENDS Integers, Sequences, FiniteSets, SequencesExt

CONSTANTS
  Tables,        \* symtab_section when the inputs are in: a set of sequences
  Libs,          \* dynsymtab_section: what the DLLs define and use, a sequence
  Sections,      \* the sections with contents, as a sequence
  Sites,         \* the words that are relocated: <<section, offset>>, in order
  Relocations,   \* what each site may be relocated with: sets of [type, sym]
  Modes,         \* the outputs: [type, static, rdynamic]
  Page,          \* ELF_PAGE_SIZE
  Start,         \* ELF_START_ADDR
  LoadBase,      \* where a DLL is loaded
  DllAddress(_),  \* the address of what a DLL defines
  Doubtful       \* the kinds of link in Doubts that are tried

ASSUME OutputAssumption ==
  /\ Page \in Nat \ {0}
  /\ Start \in Nat /\ Start % Page = 0
  /\ LoadBase % Page = 0

VARIABLES
  mode,        \* tccg_output_type, tccg_static_link, tccg_rdynamic
  sites,       \* ghost: the relocation each site was given
  phase,       \* how far tcc_output_file has come
  next,        \* the loop index of the phase
  secs,        \* s1->sections: name, type, flags, alignment, data_offset, sh_size
  symtab_section,      \* symtab_section
  dyn,         \* .dynsym, symtab_to_dynsym, .got, got_offsets, .plt
  rels,        \* for each section, the entries of its relocation section
  addr,        \* sh_addr of the sections placed so far
  off,         \* sh_offset of them
  here,        \* addr, file_offset, the program header: where layout has come to
  mem          \* the words of the sections

outputVars == <<mode, sites, phase, next, secs, symtab_section, dyn, rels, addr, off, here, mem>>

Exe == mode.type = "exe"
MakesDll == mode.type = "dll"
InMemory == mode.type = "memory"
HasDynamic == ~InMemory /\ ~mode.static

\* The elements of s at the places in T, in their order.
Picked(s, T) ==
  [n \in 1 .. Cardinality(T) |-> s[CHOOSE i \in T : Cardinality({j \in T : j <= i}) = n]]

AlignedTo(n, a) == ((n + a - 1) \div a) * a

\* of: the section that a relocation section is for.
SecOf(name, type, flags, align, size) ==
  [name |-> name, of |-> "", type |-> type, flags |-> flags, align |-> align,
   data_offset |-> size, sh_size |-> 0]
RelName(of) == ".rel" \o of
RelSec(of, flags) == [SecOf(RelName(of), "rel", flags, 1, 0) EXCEPT !.of = of]

Number(list, n) == {i \in DOMAIN list : list[i].name = n}
HasSection(n) == Number(secs, n) # {}
Section(n) == secs[CHOOSE i \in Number(secs, n) : TRUE]
Grown(list, n, size) ==
  [i \in DOMAIN list |-> IF list[i].name = n THEN [list[i] EXCEPT !.data_offset = size] ELSE list[i]]

find_elf_sym_in(tab, n) ==
  LET hits == {i \in Number(tab, n) : tab[i].bind # "local"}
  IN  IF hits = {} THEN 0 ELSE CHOOSE i \in hits : \A j \in hits : j <= i

IsUndef(s) == s.sec = "undef"

(***************************************************************************)
(* Common symbols and the linker's own                                     *)
(***************************************************************************)
Commons == {i \in DOMAIN symtab_section : symtab_section[i].sec = "common"}

\* Where .bss ends when symbol i and those before it have storage.  A common
\* symbol's value is its alignment.
StorageEnd[i \in 0 .. Len(symtab_section)] ==
  IF i = 0 THEN Section(".bss").data_offset
  ELSE IF i \in Commons
       THEN AlignedTo(StorageEnd[i - 1], symtab_section[i].value) + symtab_section[i].size
  ELSE StorageEnd[i - 1]

relocate_common_syms ==
  /\ phase = "commons"
  /\ LET end == StorageEnd
     IN /\ symtab_section' = [i \in DOMAIN symtab_section |->
                        IF i \in Commons
                        THEN [symtab_section[i] EXCEPT !.sec = ".bss", !.value = end[i] - symtab_section[i].size]
                        ELSE symtab_section[i]]
        /\ secs' = Grown(secs, ".bss", end[Len(symtab_section)])
  /\ phase' = "linker symbols"
  /\ UNCHANGED <<mode, sites, next, dyn, rels, addr, off, here, mem>>

Notype(n, sec, value) ==
  [name |-> n, bind |-> "global", type |-> "notype", sec |-> sec, value |-> value, size |-> 0]

InitArrays == <<"preinit_array", "init_array", "fini_array">>

ArrayName(k) == "." \o InitArrays[k]

\* What the linker calls the sections it makes for itself.
NamedSections == {".interp", ".dynsym", ".dynstr", ".hash", ".dynamic", ".plt", ".got", ".shstrtab"}
OwnSections == NamedSections \cup {RelName(".got"), RelName(".bss")}

ASSUME NamesAssumption ==
  /\ \A k \in 1 .. 3 : ArrayName(k) \notin OwnSections \cup {".bss", "undef"}
  /\ \A j, k \in 1 .. 3 : ArrayName(j) = ArrayName(k) => j = k
  /\ \A of \in {".got", ".bss"} : RelName(of) \notin NamedSections \cup {".bss"}
  /\ RelName(".got") # RelName(".bss")

\* find_section creates the sections that are not there, read-only.
WithInitArrays ==
  secs \o Picked([k \in 1 .. 3 |-> SecOf(ArrayName(k), "progbits", {"alloc"}, 8, 0)],
                 {k \in 1 .. 3 : ~HasSection(ArrayName(k))})

\* Ends of sections and of those whose name is a C identifier.
LinkerSymbols(list) ==
  LET Size(n) == list[CHOOSE i \in Number(list, n) : TRUE].data_offset
      named == Picked(list, {i \in DOMAIN list : /\ list[i].type = "progbits"
                                             /\ {"alloc", "cname"} \subseteq list[i].flags})
  IN <<Notype("_etext", ".text", Size(".text")), Notype("_edata", ".data", Size(".data")),
       Notype("_end", ".bss", Size(".bss"))>>
     \o [k \in 1 .. 3 |-> Notype("__" \o InitArrays[k] \o "_start", ArrayName(k), 0)]
     \o [k \in 1 .. 3 |-> Notype("__" \o InitArrays[k] \o "_end", ArrayName(k), Size(ArrayName(k)))]
     \o [k \in DOMAIN named |-> Notype("__start_" \o named[k].name, named[k].name, 0)]
     \o [k \in DOMAIN named |-> Notype("__stop_" \o named[k].name, named[k].name,
                                       named[k].data_offset)]

tcc_add_linker_symbols ==
  LET list == WithInitArrays
      added == LinkerSymbols(list)
      Given(i) == {k \in DOMAIN added : added[k].name = symtab_section[i].name /\ find_elf_sym_in(symtab_section, added[k].name) = i}
  IN /\ phase = "linker symbols"
     /\ secs' = list
     /\ symtab_section' = [i \in DOMAIN symtab_section |->
                     IF Given(i) # {} /\ IsUndef(symtab_section[i])
                     THEN added[CHOOSE k \in Given(i) : TRUE] ELSE symtab_section[i]]
                  \o Picked(added, {k \in DOMAIN added : find_elf_sym_in(symtab_section, added[k].name) = 0})
     /\ phase' = IF HasDynamic THEN "dynamic sections" ELSE "got"
     /\ next' = 1
     /\ UNCHANGED <<mode, sites, dyn, rels, addr, off, here, mem>>

(***************************************************************************)
(* The dynamic symbol table, the GOT and the PLT                           *)
(***************************************************************************)
\* build_got keeps three words: _DYNAMIC and two for the loader.
build_got(d) == [d EXCEPT !.got = <<0, 0, 0>>]
GotSection == SecOf(".got", "progbits", {"alloc", "write"}, 8, 3)
WithGotSymbol(tab) ==
  IF find_elf_sym_in(tab, "_GLOBAL_OFFSET_TABLE_") # 0 THEN tab
  ELSE Append(tab, [Notype("_GLOBAL_OFFSET_TABLE_", ".got", 0) EXCEPT !.type = "object"])

new_dynamic_sections ==
  /\ phase = "dynamic sections"
  /\ secs' = secs \o (IF Exe THEN <<SecOf(".interp", "progbits", {"alloc"}, 1, 5)>> ELSE <<>>)
                  \o <<SecOf(".dynsym", "dynsym", {"alloc"}, 1, 4),
                       SecOf(".dynstr", "strtab", {"alloc"}, 1, 1),
                       SecOf(".hash", "hash", {"alloc"}, 1, 4),
                       SecOf(".dynamic", "dynamic", {"alloc", "write"}, 1, 0),
                       SecOf(".plt", "progbits", {"alloc", "exec"}, 8, 0),
                       GotSection>>
  /\ dyn' = build_got(dyn)
  /\ symtab_section' = WithGotSymbol(symtab_section)
  /\ phase' = IF Exe THEN "scan" ELSE "export all"
  /\ next' = 1
  /\ UNCHANGED <<mode, sites, rels, addr, off, here, mem>>

put_elf_sym(d, s) == [d EXCEPT !.syms = Append(@, s)]

\* Mutant: the symbol keeps its own value in .dynsym.
ValueIsOwn(plt, i) == symtab_section[i].value

\* In an executable a function that has a PLT entry "is modified so that it
\* will be relocated to the PLT".
GotSymbolValue(plt, i) == IF plt # <<>> /\ Exe THEN 4 * (Len(plt) - 1) ELSE symtab_section[i].value

\* Mutant: the offset is taken after the word has been added.
GotOffsetAfter(d) == Len(d.got) + 1
GotOffset(d) == Len(d.got)

\* A GOT entry for symbol i, and a PLT entry if it is to be jumped through, one
\* for each symbol.  Returns what becomes of dyn; GotRel is the entry for .got.
\* 'info' is the DLL's, if it is known to have the symbol.
put_got_entry(d, reloc_type, info, i) ==
  IF d.got_offsets[i] # 0 THEN d
  ELSE LET at == GotOffset(d)
           plt == IF HasDynamic /\ reloc_type = "JMP_SLOT"
                  THEN Append(IF d.plt = <<>> THEN <<0>> ELSE d.plt, at) ELSE <<>>
           e == [d EXCEPT !.got = Append(@, 0), !.got_offsets[i] = at,
                          !.plt = IF plt = <<>> THEN @ ELSE plt]
       IN IF HasDynamic
          THEN put_elf_sym(e, [symtab_section[i] EXCEPT !.value = GotSymbolValue(plt, i),
                                                !.type = info.type, !.bind = info.bind])
          ELSE e

GotRel(d, e, reloc_type) ==
  IF Len(e.got) = Len(d.got) \/ ~HasDynamic THEN <<>>
  ELSE <<[offset |-> Len(d.got), type |-> reloc_type, sym |-> Len(e.syms)]>>

\* put_elf_reloc creates the relocation section, allocated as .dynsym is.
WithRelSection(list, of) ==
  IF Number(list, RelName(of)) # {} \/ ~HasDynamic THEN list
  ELSE Append(list, RelSec(of, {"alloc"}))

PutGotEntry(d, list, reloc_type, info, i) ==
  \E e \in {put_got_entry(d, reloc_type, info, i)} :
    /\ dyn' = e
    /\ rels' = [rels EXCEPT ![".got"] = @ \o GotRel(d, e, reloc_type)]
    /\ secs' = WithRelSection(list, ".got")

\* R_COPY: the variable is moved into the executable's .bss.
PutCopy(s, esym) ==
  LET at == AlignedTo(Section(".bss").data_offset, 4) IN
  /\ dyn' = put_elf_sym(dyn, [s EXCEPT !.value = at, !.size = esym.size, !.type = "object",
                                       !.bind = esym.bind, !.sec = ".bss"])
  /\ rels' = [rels EXCEPT ![".bss"] = Append(@, [offset |-> at, type |-> "COPY",
                                                 sym |-> Len(dyn.syms) + 1])]
  /\ secs' = WithRelSection(Grown(secs, ".bss", at + esym.size), ".bss")

\* What the DLLs have of symbol s.
InLibs(s) == find_elf_sym_in(Libs, s.name)

\* Mutant: weak symbols must be defined too.
MustBeDefinedAlways(s) == TRUE
\* "_fp_hw seems to be part of the ABI, so we ignore it".
MustBeDefined(s) == s.bind # "weak" /\ s.name # "_fp_hw"

\* One symbol of the executable: is it in a DLL, is it to be exported?
ScanSymbol ==
  LET s == symtab_section[next]
      esym == Libs[InLibs(s)]
      export == mode.rdynamic /\ s.bind # "local"
  IN /\ phase = "scan"
     /\ next <= Len(symtab_section)
     /\ next' = next + 1
     /\ CASE IsUndef(s) /\ InLibs(s) # 0 /\ esym.type = "func" ->
               PutGotEntry(dyn, secs, "JMP_SLOT", esym, next) /\ UNCHANGED phase
          [] IsUndef(s) /\ InLibs(s) # 0 /\ esym.type = "object" ->
               PutCopy(s, esym) /\ UNCHANGED phase
          [] IsUndef(s) /\ InLibs(s) = 0 /\ MustBeDefined(s) ->
               phase' = "refused" /\ UNCHANGED <<dyn, rels, secs>>
          [] ~IsUndef(s) /\ export ->
               dyn' = put_elf_sym(dyn, s) /\ UNCHANGED <<rels, secs, phase>>
          [] OTHER -> UNCHANGED <<dyn, rels, secs, phase>>
     /\ UNCHANGED <<mode, sites, symtab_section, addr, off, here, mem>>

Scanned ==
  /\ phase = "scan"
  /\ next > Len(symtab_section)
  /\ phase' = "exports"
  /\ UNCHANGED <<mode, sites, next, secs, symtab_section, dyn, rels, addr, off, here, mem>>

\* Mutant: only functions are looked for.
UsedFunction(e) == IsUndef(e) /\ e.type = "func"

\* A name a DLL uses and none defines is exported.
UsedByLibs(e) == IsUndef(e)

ExportToLibs ==
  LET used == Picked(Libs, {k \in DOMAIN Libs : /\ UsedByLibs(Libs[k])
                                               /\ find_elf_sym_in(symtab_section, Libs[k].name) # 0})
  IN /\ phase = "exports"
     /\ dyn' = [dyn EXCEPT !.syms = @ \o [k \in DOMAIN used |-> symtab_section[find_elf_sym_in(symtab_section, used[k].name)]]]
     /\ phase' = "got"
     /\ next' = 1
     /\ UNCHANGED <<mode, sites, secs, symtab_section, rels, addr, off, here, mem>>

\* A DLL exports all that is not local, undefined symbols as well.
ExportAll ==
  LET nonlocal == {i \in DOMAIN symtab_section : symtab_section[i].bind # "local"}
      Nth(i) == Cardinality({j \in nonlocal : j <= i})
  IN /\ phase = "export all"
     /\ dyn' = [dyn EXCEPT !.syms = Picked(symtab_section, nonlocal),
                           !.symtab_to_dynsym = [i \in DOMAIN symtab_section |->
                                                   IF i \in nonlocal THEN Nth(i) ELSE 0]]
     /\ phase' = "got"
     /\ next' = 1
     /\ UNCHANGED <<mode, sites, secs, symtab_section, rels, addr, off, here, mem>>

\* build_got_entries, one relocation at a time.  Without a dynamic section the
\* GOT is made when it is first wanted.
BuildGotEntry ==
  LET r == sites[next]
      got == r.type \in {"GOT32", "PLT32", "GOTOFF", "GOTPC"} /\ dyn.got = <<>>
      d == IF got THEN build_got(dyn) ELSE dyn
      list == IF got THEN Append(secs, GotSection) ELSE secs
  IN /\ phase = "got"
     /\ next <= Len(Sites)
     /\ next' = next + 1
     /\ symtab_section' = IF got THEN WithGotSymbol(symtab_section) ELSE symtab_section
     /\ IF r.type \in {"GOT32", "PLT32"}
        THEN PutGotEntry(d, list, IF r.type = "GOT32" THEN "GLOB_DAT" ELSE "JMP_SLOT",
                         symtab_section[r.sym], r.sym)
        ELSE dyn' = d /\ secs' = list /\ UNCHANGED rels
     /\ UNCHANGED <<mode, sites, phase, addr, off, here, mem>>

(***************************************************************************)
(* Sizes and addresses                                                     *)
(***************************************************************************)
\* prepare_dynamic_rel: what a DLL leaves to the loader.
Prepared(of) ==
  Picked(rels[of],
         {k \in DOMAIN rels[of] :
            \/ rels[of][k].type = "32"
            \/ rels[of][k].type = "PC32" /\ dyn.symtab_to_dynsym[rels[of][k].sym] # 0})

DataOffset(s) ==
  CASE s.type = "rel" -> 2 * Len(rels[s.of])
    [] s.name = ".dynsym" -> 4 * (Len(dyn.syms) + 1)
    [] s.name = ".dynamic" -> 2 * 10
    [] s.name = ".plt" -> 4 * Len(dyn.plt)
    [] s.name = ".got" -> Len(dyn.got)
    [] OTHER -> s.data_offset

\* Sections that are not loaded are left out, but for the last.
Reserved(s, last) ==
  LET dynamic == MakesDll /\ s.type = "rel" /\ "alloc" \notin s.flags IN
  [s EXCEPT !.data_offset = DataOffset(s),
            !.flags = IF dynamic /\ Prepared(s.of) # <<>> THEN @ \cup {"alloc"} ELSE @,
            !.sh_size = IF dynamic THEN 2 * Len(Prepared(s.of))
                        ELSE IF "alloc" \in s.flags \/ last \/ mode.type = "obj"
                        THEN DataOffset(s) ELSE 0]

Headers == IF mode.type = "obj" THEN 0 ELSE IF Exe /\ ~mode.static THEN 4 ELSE IF Exe THEN 2 ELSE 3

\* Whether section s is in program header j (0 or 1), and its rank there.
InSegment(s, j) ==
  "alloc" \in s.flags /\ (j = 1 <=> "write" \in s.flags)
Rank(s) ==
  CASE s.name = ".interp" -> 0
    [] s.type \in {"dynsym", "strtab", "hash"} -> 1
    [] s.type = "rel" -> 2
    [] s.type = "nobits" -> 4
    [] OTHER -> 3

ShStrTab == SecOf(".shstrtab", "strtab", {}, 1, 1)

Reserve ==
  /\ phase = "got"
  /\ next > Len(Sites)
  /\ ~InMemory
  /\ secs' = [i \in 1 .. Len(secs) + 1 |->
                IF i > Len(secs) THEN Reserved(ShStrTab, TRUE) ELSE Reserved(secs[i], FALSE)]
  /\ here' = [j |-> 0, addr |-> (IF MakesDll THEN 0 ELSE Start) + ((13 + 8 * Headers) % Page),
              file_offset |-> 13 + 8 * Headers]
  /\ phase' = IF mode.type = "obj" THEN "sections" ELSE "segments"
  /\ UNCHANGED <<mode, sites, next, symtab_section, dyn, rels, addr, off, mem>>

Unplaced(i) == secs[i].name \notin DOMAIN addr

\* The section that comes next: by rank, then in the order of creation.
Following(i, S) ==
  \A k \in S : Rank(secs[i]) < Rank(secs[k]) \/ (Rank(secs[i]) = Rank(secs[k]) /\ i <= k)

\* A NOBITS section takes addresses but no room in the file.
PlaceSection ==
  LET left == {i \in DOMAIN secs : Unplaced(i) /\ InSegment(secs[i], here.j)} IN
  /\ phase = "segments"
  /\ \E i \in left :
       LET s == secs[i]
           a == AlignedTo(here.addr, s.align)
           o == here.file_offset + (a - here.addr)
       IN /\ Following(i, left)
          /\ addr' = [n \in DOMAIN addr \cup {s.name} |-> IF n = s.name THEN a ELSE addr[n]]
          /\ off' = [n \in DOMAIN off \cup {s.name} |-> IF n = s.name THEN o ELSE off[n]]
          /\ here' = [here EXCEPT !.addr = a + s.sh_size,
                                  !.file_offset = o + (IF s.type = "nobits" THEN 0 ELSE s.sh_size)]
  /\ UNCHANGED <<mode, sites, phase, next, secs, symtab_section, dyn, rels, mem>>

\* Mutant: the second segment goes on where the first ends.
SegmentGoesOn(a) == a
SecondSegment(a) == IF a % Page # 0 THEN a + Page ELSE a

\* "if in the middle of a page, we duplicate the page in memory".
NextSegment ==
  /\ phase = "segments"
  /\ here.j < 2
  /\ ~\E i \in DOMAIN secs : Unplaced(i) /\ InSegment(secs[i], here.j)
  /\ here' = [here EXCEPT !.j = @ + 1,
                          !.addr = IF here.j = 0 THEN SecondSegment(@) ELSE @]
  /\ phase' = IF here.j = 1 THEN "dynamic" ELSE phase
  /\ UNCHANGED <<mode, sites, next, secs, symtab_section, dyn, rels, addr, off, mem>>

\* Allocated relocation sections are next to each other.
RelSections == {i \in DOMAIN secs : secs[i].type = "rel" /\ "alloc" \in secs[i].flags}

\* .dynsym gets addresses; an undefined symbol with a value is at the PLT.
DynsymAddress(s) ==
  CASE IsUndef(s) -> IF s.value # 0 THEN s.value + addr[".plt"] ELSE 0
    [] s.sec = "abs" -> s.value
    [] OTHER -> s.value + addr[s.sec]

\* The GOT's first word, the PLT's operands, .dynsym.
FinishDynamic ==
  /\ phase = "dynamic"
  /\ dyn' = IF ~HasDynamic THEN dyn
            ELSE [dyn EXCEPT !.got[1] = addr[".dynamic"],
                             !.plt = IF Exe THEN [k \in DOMAIN @ |-> @[k] + addr[".got"]] ELSE @,
                             !.syms = [k \in DOMAIN @ |-> [@[k] EXCEPT !.value = DynsymAddress(dyn.syms[k])]]]
  /\ phase' = "sections"
  /\ UNCHANGED <<mode, sites, next, secs, symtab_section, rels, addr, off, here, mem>>

\* What is not loaded comes last in the file.
PlaceOthers ==
  LET left == {i \in DOMAIN secs : IF mode.type = "obj" THEN Unplaced(i) ELSE "alloc" \notin secs[i].flags}
      Left(i) == {k \in left : secs[k].name \notin DOMAIN off /\ k < i}
  IN /\ phase = "sections"
     /\ IF \E i \in left : secs[i].name \notin DOMAIN off
        THEN \E i \in left :
               LET s == secs[i]
                   o == AlignedTo(here.file_offset, s.align)
               IN /\ s.name \notin DOMAIN off /\ Left(i) = {}
                  /\ off' = [n \in DOMAIN off \cup {s.name} |-> IF n = s.name THEN o ELSE off[n]]
                  /\ here' = [here EXCEPT !.file_offset = o + (IF s.type = "nobits" THEN 0 ELSE s.sh_size)]
                  /\ UNCHANGED phase
        ELSE /\ phase' = IF mode.type = "obj" THEN "written" ELSE "symbols"
             /\ UNCHANGED <<off, here>>
     /\ UNCHANGED <<mode, sites, next, secs, symtab_section, dyn, rels, addr, mem>>

\* tcc_relocate: sections stay where they are, wherever that is.
PlaceInMemory ==
  /\ phase = "got"
  /\ next > Len(Sites)
  /\ InMemory
  /\ secs' = [i \in DOMAIN secs |-> [secs[i] EXCEPT !.data_offset = DataOffset(secs[i])]]
  /\ addr' = [n \in {secs[i].name : i \in {k \in DOMAIN secs : "alloc" \in secs[k].flags}} |->
                Start + Page * (CHOOSE i \in DOMAIN secs : secs[i].name = n)]
  /\ phase' = "symbols"
  /\ UNCHANGED <<mode, sites, next, symtab_section, dyn, rels, off, here, mem>>

(***************************************************************************)
(* Relocation                                                              *)
(***************************************************************************)
\* resolve_sym finds what the host program has; else .dynsym is asked.
Resolvable(s) ==
  IF InMemory THEN InLibs(s) # 0 /\ ~IsUndef(Libs[InLibs(s)])
  ELSE HasDynamic /\ find_elf_sym_in(dyn.syms, s.name) # 0

ResolvedValue(s) ==
  IF InMemory THEN DllAddress(s.name) ELSE dyn.syms[find_elf_sym_in(dyn.syms, s.name)].value

\* Mutant: .dynsym is not asked for the address of the PLT entry or the copy.
ValueUnresolved(s) ==
  CASE IsUndef(s) -> 0 [] s.sec = "abs" -> s.value [] OTHER -> s.value + addr[s.sec]

SymbolValue(s) ==
  CASE IsUndef(s) -> IF Resolvable(s) THEN ResolvedValue(s) ELSE 0
    [] s.sec = "abs" -> s.value
    [] OTHER -> s.value + addr[s.sec]

relocate_syms ==
  /\ phase = "symbols"
  /\ IF \E i \in DOMAIN symtab_section : IsUndef(symtab_section[i]) /\ ~Resolvable(symtab_section[i]) /\ MustBeDefined(symtab_section[i])
     THEN phase' = "refused" /\ UNCHANGED symtab_section
     ELSE /\ symtab_section' = [i \in DOMAIN symtab_section |-> [symtab_section[i] EXCEPT !.value = SymbolValue(symtab_section[i])]]
          /\ phase' = "relocate"
  /\ UNCHANGED <<mode, sites, next, secs, dyn, rels, addr, off, here, mem>>

\* Mutant: a DLL's relocation against a symbol of its own is left as it is.
NoRelative(r, esym) == r.type \in {"32", "PC32"} /\ esym # 0
KeptForLoader(r, esym) == r.type = "32" \/ (r.type = "PC32" /\ esym # 0)

EsymIndex(r) == IF MakesDll THEN dyn.symtab_to_dynsym[r.sym] ELSE 0

\* What is put at the site, whose address is a.
Relocated(r, a, word) ==
  LET val == symtab_section[r.sym].value
      esym == EsymIndex(r)
  IN CASE r.type = "32" -> IF esym # 0 THEN word ELSE word + val
       [] r.type = "PC32" -> IF esym # 0 THEN word ELSE word + val - a
       [] r.type = "PLT32" -> word + val - a
       [] r.type = "GOTPC" -> word + addr[".got"] - a
       [] r.type = "GOTOFF" -> word + val - addr[".got"]
       [] r.type = "GOT32" -> word + dyn.got_offsets[r.sym]
       [] OTHER -> word

\* The entries a DLL keeps are moved to the front of their section; what is
\* behind them stays.
Compacted(of) ==
  LET kept == Picked(rels[of], {k \in DOMAIN rels[of] :
                                  KeptForLoader(rels[of][k], EsymIndex(rels[of][k]))})
      Converted(r) == IF EsymIndex(r) # 0 THEN [r EXCEPT !.sym = EsymIndex(r)]
                      ELSE [r EXCEPT !.type = "RELATIVE", !.sym = 0]
  IN [k \in DOMAIN rels[of] |-> IF k <= Len(kept) THEN Converted(kept[k]) ELSE rels[of][k]]

\* Sections whose relocations are those of the inputs.
Relocatable == {".text", ".data"}

relocate_section ==
  /\ phase = "relocate"
  /\ mem' = [c \in DOMAIN mem |->
               LET here_ == {k \in DOMAIN Sites : Sites[k] = c}
               IN IF here_ = {} THEN mem[c]
                  ELSE LET k == CHOOSE k \in here_ : TRUE
                       IN  Relocated(sites[k], addr[c[1]] + c[2], mem[c])]
  /\ rels' = [of \in DOMAIN rels |->
                IF MakesDll /\ of \in Relocatable THEN Compacted(of) ELSE rels[of]]
  /\ phase' = IF InMemory THEN "written" ELSE "relocations"
  /\ UNCHANGED <<mode, sites, next, secs, symtab_section, dyn, addr, off, here>>

\* Mutant: only the relocations of the GOT are moved.
OnlyGotMoves(of) == of = ".got"
Moves(of) == \E i \in RelSections : secs[i].of = of

\* The entries the loader reads hold addresses.
relocate_rel ==
  /\ phase = "relocations"
  /\ rels' = [of \in DOMAIN rels |->
                IF Moves(of) THEN [k \in DOMAIN rels[of] |-> [rels[of][k] EXCEPT !.offset = @ + addr[of]]]
                ELSE rels[of]]
  /\ phase' = "written"
  /\ UNCHANGED <<mode, sites, next, secs, symtab_section, dyn, addr, off, here, mem>>

(***************************************************************************)
(* The whole                                                               *)
(***************************************************************************)
SiteRelocations(of) ==
  LET at == Picked([k \in DOMAIN Sites |-> k], {k \in DOMAIN Sites : Sites[k][1] = of})
  IN  [n \in DOMAIN at |-> [offset |-> Sites[at[n]][2], type |-> sites[at[n]].type, sym |-> sites[at[n]].sym]]

\* The symbols that a relocation of one of these types names.
Named(types) == {sites[k].sym : k \in {k \in DOMAIN sites : sites[k].type \in types}}

\* Links the code does not do right, by what it says itself or by what a run
\* shows; they are tried only if Doubtful has them.
Doubts ==
  {kind \in {"got without loader", "plt of own", "plt in dll", "got of copied"} :
     CASE kind = "got without loader" -> (InMemory \/ (Exe /\ mode.static)) /\ Named({"GOT32"}) # {}
       [] kind = "plt of own" ->
            Exe /\ HasDynamic /\ \E i \in Named({"PLT32"}) : ~IsUndef(symtab_section[i])
       [] kind = "plt in dll" -> MakesDll /\ \E i \in Named({"PLT32"}) : IsUndef(symtab_section[i])
       [] kind = "got of copied" ->
            Exe /\ \E i \in Named({"GOT32"}) : IsUndef(symtab_section[i]) /\ InLibs(symtab_section[i]) # 0
                                           /\ Libs[InLibs(symtab_section[i])].type = "object"}

OutputInit ==
  /\ mode \in Modes
  /\ symtab_section \in Tables
  /\ sites \in {f \in [1 .. Len(Sites) -> UNION Range(Relocations)] :
                 \A k \in DOMAIN f : f[k] \in Relocations[k]}
  /\ Doubts \subseteq Doubtful
  /\ phase = IF mode.type = "obj" THEN "got" ELSE "commons"
  /\ next = IF mode.type = "obj" THEN Len(Sites) + 1 ELSE 1
  /\ secs = Sections
  /\ dyn = [syms |-> <<>>, got |-> <<>>, plt |-> <<>>,
            symtab_to_dynsym |-> [i \in DOMAIN symtab_section |-> 0],
            got_offsets |-> [i \in DOMAIN symtab_section |-> 0]]
  /\ rels = [of \in {".text", ".data", ".got", ".bss"} |-> SiteRelocations(of)]
  /\ addr = [n \in {} |-> 0]
  /\ off = [n \in {} |-> 0]
  /\ here = [j |-> 0, addr |-> 0, file_offset |-> 0]
  /\ mem = [c \in {Sites[k] : k \in DOMAIN Sites} |-> 0]

OutputNext ==
  \/ relocate_common_syms \/ tcc_add_linker_symbols \/ new_dynamic_sections
  \/ ScanSymbol \/ Scanned \/ ExportToLibs \/ ExportAll \/ BuildGotEntry
  \/ Reserve \/ PlaceSection \/ NextSegment \/ FinishDynamic \/ PlaceOthers \/ PlaceInMemory
  \/ relocate_syms \/ relocate_section \/ relocate_rel

OutputSpec == OutputInit /\ [][OutputNext]_outputVars

(***************************************************************************)
(* The loader: what the dynamic linker does with the file                  *)
(***************************************************************************)
Base == IF MakesDll THEN LoadBase ELSE 0

\* A name is looked for in the output, then in the DLLs.  An undefined symbol
\* with a value is the address of a function, but not where to jump to.
Lookup(name, jump) ==
  LET own == {k \in DOMAIN dyn.syms :
                /\ dyn.syms[k].name = name /\ dyn.syms[k].bind # "local"
                /\ \/ ~IsUndef(dyn.syms[k])
                   \/ (dyn.syms[k].value # 0 /\ ~jump)}
      libs == {k \in Number(Libs, name) : ~IsUndef(Libs[k])}
  IN CASE own # {} -> Base + dyn.syms[CHOOSE k \in own : \A m \in own : m <= k].value
       [] own = {} /\ libs # {} -> DllAddress(name)
       [] OTHER -> 0

LoaderValue(k, jump) ==
  IF dyn.syms[k].bind = "local" THEN Base + dyn.syms[k].value ELSE Lookup(dyn.syms[k].name, jump)

\* The entries of DT_REL: numbers of a section and of an entry.
LoaderEntries ==
  UNION {{<<i, k>> : k \in 1 .. secs[i].sh_size \div 2} : i \in RelSections}
LoaderRel(e) == rels[secs[e[1]].of][e[2]]

\* The word at address a when the program starts.
Loaded(a, word) ==
  LET hits == {e \in LoaderEntries : LoaderRel(e).offset = a}
      r == LoaderRel(CHOOSE e \in hits : TRUE)
  IN IF hits = {} \/ InMemory THEN word
     ELSE CASE r.type = "32" -> word + LoaderValue(r.sym, FALSE)
            [] r.type = "PC32" -> word + LoaderValue(r.sym, FALSE) - (a + Base)
            [] r.type = "RELATIVE" -> word + Base
            [] r.type = "JMP_SLOT" -> LoaderValue(r.sym, TRUE)
            [] OTHER -> LoaderValue(r.sym, FALSE)

(***************************************************************************)
(* Properties                                                              *)
(***************************************************************************)
Linked == phase = "written" /\ mode.type # "obj"

\* A variable of a DLL that the executable uses has its place in .bss.
Copies == {k \in DOMAIN rels[".bss"] : rels[".bss"][k].type = "COPY"}
CopyOf(name) == {k \in Copies : dyn.syms[rels[".bss"][k].sym].name = name}

\* What symbol i stands for when the program runs; with what is linked
\* statically no DLL is loaded.
Denoted(i) ==
  LET s == symtab_section[i]
      libs == {k \in Number(Libs, s.name) : ~IsUndef(Libs[k]) /\ ~mode.static}
  IN CASE ~IsUndef(s) -> Base + s.value
       [] IsUndef(s) /\ CopyOf(s.name) # {} ->
            rels[".bss"][CHOOSE k \in CopyOf(s.name) : TRUE].offset
       [] IsUndef(s) /\ CopyOf(s.name) = {} /\ libs # {} -> DllAddress(s.name)
       [] OTHER -> 0

\* Address a is symbol i or a PLT entry that jumps there.
Reaches(a, i) ==
  \/ a = Denoted(i)
  \/ \E k \in 2 .. Len(dyn.plt) :
       LET slot == dyn.plt[k] + (IF MakesDll THEN addr[".got"] ELSE 0)
       IN /\ a = Base + addr[".plt"] + 4 * (k - 1)
          /\ Loaded(slot, 0) = Denoted(i)

SiteAddress(k) == addr[Sites[k][1]] + Sites[k][2]
SiteWord(k) == Loaded(SiteAddress(k), mem[Sites[k]])

SiteReaches(k) ==
  LET w == SiteWord(k)
      a == Base + SiteAddress(k)
      i == sites[k].sym
      got == addr[".got"]
  IN CASE sites[k].type = "32" -> Reaches(w, i)
       [] sites[k].type \in {"PC32", "PLT32"} -> Reaches(w + a, i)
       [] sites[k].type = "GOT32" -> /\ w + 1 \in DOMAIN dyn.got
                                     /\ Loaded(got + w, dyn.got[w + 1]) = Denoted(i)
       [] sites[k].type = "GOTOFF" -> w + got + Base = Denoted(i)
       [] sites[k].type = "GOTPC" -> w + a = got + Base

\* Whatever a word of the inputs is relocated with, when the program starts it
\* leads to the symbol it names: at once, through the PLT, through the GOT, or
\* because the loader performs what was left to it (relocate_section,
\* put_got_entry, prepare_dynamic_rel).
SitesReach == Linked => \A k \in DOMAIN Sites : SiteReaches(k)

\* The symbols that the output has in common with the DLLs.  A definition that
\* stands both in the executable and in a DLL is not exported: there are two.
InCommon(i) ==
  LET s == symtab_section[i] IN
  /\ s.bind # "local" /\ find_elf_sym_in(symtab_section, s.name) = i
  /\ \/ MakesDll
     \/ mode.rdynamic /\ ~IsUndef(s)
     \/ InLibs(s) # 0 /\ (IsUndef(s) \/ IsUndef(Libs[InLibs(s)]))

\* A name that the output takes from the DLLs, that they take from it, or that
\* is exported, means one address: what the loader finds for the name is what
\* the words of the output hold ("export corresponding symbol", tccelf.c:1233).
NamesAgree ==
  Linked /\ HasDynamic =>
    \A i \in DOMAIN symtab_section : InCommon(i) =>
      LET seen == Lookup(symtab_section[i].name, FALSE) IN
      /\ Reaches(seen, i)
      /\ \A k \in DOMAIN Sites :
           sites[k].sym = i /\ sites[k].type = "32" => SiteWord(k) = seen

Span(i) == addr[secs[i].name] .. addr[secs[i].name] + secs[i].sh_size - 1
FileSpan(i) == off[secs[i].name] .. off[secs[i].name] + secs[i].sh_size - 1
InMem == {i \in DOMAIN secs : "alloc" \in secs[i].flags}
InFile == {i \in DOMAIN secs : secs[i].type # "nobits"}
PagesOf(i) == {a \div Page : a \in Span(i)}

\* The places in .bss: <<first word, size>>.
BssPlaces ==
  {<<symtab_section[i].value, symtab_section[i].size>> : i \in {k \in DOMAIN symtab_section : symtab_section[k].sec = ".bss"
                                                                    /\ symtab_section[k].type = "object"}}
  \cup {<<rels[".bss"][k].offset, dyn.syms[rels[".bss"][k].sym].size>> : k \in Copies}

FilesApart == \A i, j \in InFile : i # j => FileSpan(i) \cap FileSpan(j) = {}

MemoryApart == \A i, j \in InMem : i # j => Span(i) \cap Span(j) = {}

PagesApart ==
  \A i, j \in InMem :
    InSegment(secs[i], 0) /\ InSegment(secs[j], 1) => PagesOf(i) \cap PagesOf(j) = {}

\* How far section i is from where its segment's file contents are.
Distance(i) == addr[secs[i].name] - off[secs[i].name]

InStep ==
  \A i, j \in InMem \cap InFile :
    /\ Distance(i) % Page = 0
    /\ InSegment(secs[i], 0) = InSegment(secs[j], 0) => Distance(i) = Distance(j)

VariablesApart ==
  \A p, q \in BssPlaces : p # q => p[1] + p[2] <= q[1] \/ q[1] + q[2] <= p[1]

VariablesInside ==
  \A p \in BssPlaces :
    \E i \in Number(secs, ".bss") :
      p[1] >= addr[".bss"] /\ p[1] + p[2] <= addr[".bss"] + secs[i].sh_size

RelsInOnePiece ==
  \E words \in {UNION {Span(i) : i \in RelSections}} : \A a, b \in words : a .. b \subseteq words

\* The image the file describes can be loaded: sections are apart in memory
\* and in the file, what is written is not in a page that is executed, a
\* section is where its segment is mapped, variables in .bss are apart, and
\* the relocations for the loader are in one piece (tccelf.c:1388-1473).
ImageLoads ==
  phase = "written" /\ ~InMemory =>
    /\ FilesApart
    /\ Linked => /\ MemoryApart /\ PagesApart /\ InStep
                 /\ VariablesApart /\ VariablesInside
                 /\ RelsInOnePiece

\* Symbols that nothing defines.
Missing ==
  {i \in DOMAIN symtab_section :
     /\ IsUndef(symtab_section[i]) /\ symtab_section[i].bind # "weak" /\ symtab_section[i].name # "_fp_hw"
     /\ mode.static \/ ~\E k \in Number(Libs, symtab_section[i].name) : ~IsUndef(Libs[k])}

\* A link is refused just when an executable, or a program to be run, misses a
\* symbol that is not weak (error_noabort in tcc_output_file, relocate_syms).
RefusedJustUndefined ==
  /\ phase = "refused" => Missing # {} /\ mode.type \in {"exe", "memory"}
  /\ phase = "written" /\ mode.type \in {"exe", "memory"} => Missing = {}

\* The words of the output and the names it shares with the DLLs, together:
\* each word leads to its symbol (relocate_section), and a shared name is one
\* address wherever it is asked for (put_got_entry, tcc_output_file).
WordsReach == SitesReach /\ NamesAgree

(***************************************************************************)
(* What the linker takes for granted of the DLLs                           *)
(***************************************************************************)
DefinedInLibs(n) == \E k \in DOMAIN Libs : Libs[k].name = n /\ ~IsUndef(Libs[k])
OnlyUsedByLibs(n) == \E k \in DOMAIN Libs : Libs[k].name = n /\ IsUndef(Libs[k])

\* What DLLs have are symbols for all to see, and those they define are
\* functions and variables (a symbol without a type is not resolved,
\* tccelf.c:1190); undefined symbols are not local, and none that must
\* be defined is one that a DLL only uses (TinyCC takes that for a
\* definition, tccelf.c:1188); no section is called "undef", which means none;
\* only executables are linked statically.
LibsTell ==
  /\ \A k \in DOMAIN Libs : /\ Libs[k].bind # "local"
                            /\ ~IsUndef(Libs[k]) => Libs[k].type \in {"func", "object"}
  /\ \A tab \in Tables : \A i \in DOMAIN tab : IsUndef(tab[i]) =>
       /\ tab[i].bind # "local"
       /\ MustBeDefined(tab[i]) => ~OnlyUsedByLibs(tab[i].name)
  /\ \A i \in DOMAIN Sections : Sections[i].name # "undef"
  /\ \A m \in Modes : m.type \in {"exe", "dll", "memory", "obj"} /\ (m.static => m.type \in {"exe", "obj"})

LoadedIn(list, n) == \E i \in DOMAIN list : list[i].name = n /\ "alloc" \in list[i].flags

\* What it takes for granted of relocations: each word is relocated once, in a
\* section that is loaded, in a way that is known and with a symbol that is
\* undefined, absolute, common, or in a section that is loaded; relocation
\* sections of the inputs are not loaded, sections the linker puts symbols into
\* are; and the DLLs have one symbol of a name, which has an address.
SitesTell ==
  /\ \A k, l \in DOMAIN Sites : Sites[k] = Sites[l] => k = l
  /\ \A k \in DOMAIN Sites :
       /\ LoadedIn(Sections, Sites[k][1])
       /\ \A r \in Relocations[k] :
            /\ r.type \in {"32", "PC32", "PLT32", "GOT32", "GOTOFF", "GOTPC"}
            /\ \A tab \in Tables : \/ tab[r.sym].sec \in {"undef", "abs", "common"}
                                   \/ LoadedIn(Sections, tab[r.sym].sec)
  /\ \A i \in DOMAIN Sections :
       /\ Sections[i].type = "rel" => "alloc" \notin Sections[i].flags
       /\ Sections[i].name \in {".text", ".data", ".bss"} \cup {ArrayName(k) : k \in 1 .. 3} =>
            "alloc" \in Sections[i].flags
  /\ \A k, l \in DOMAIN Libs : Libs[k].name = Libs[l].name => k = l
  /\ \A k \in DOMAIN Libs : DllAddress(Libs[k].name) \in Int
=============================================================================

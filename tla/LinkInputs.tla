------------------------------ MODULE LinkInputs ------------------------------
(***************************************************************************)
(* What the linker is given (tcc.c: tcc_add_file, tcc_add_dll,              *)
(* tcc_add_library; tccelf.c: tcc_load_object_file, tcc_load_archive,       *)
(* tcc_load_dll, tcc_load_ldscript).  The user names files and libraries;  *)
(* linker scripts and DLLs name more of them, archives give the members    *)
(* that are wanted.  Sections of one name are joined, and the relocations  *)
(* of every object are moved to where its sections went.                   *)
(***************************************************************************)
EXTENDS Integers, Sequences, FiniteSets, SequencesExt

CONSTANTS
  LibraryPaths,   \* tccg_library_paths: a sequence of directories
  Files,          \* what is stored at <<directory, file name>>
  Libraries,      \* names for -l
  Shared(_),      \* the file name lib%s.so
  Static(_),      \* the file name lib%s.a
  MaxRequests     \* bound: files and libraries the user names

ASSUME LinkAssumption == MaxRequests \in Nat /\ LibraryPaths # <<>>

VARIABLES
  sections,       \* s1->sections, without section 0 and the symbol table
  symtab,         \* symtab_section
  dynsymtab,      \* dynsymtab_section: the names DLLs define and use
  loaded_dlls,    \* names and levels
  static_link,    \* tccg_static_link
  stack,          \* the calls that run, the innermost last
  ret,            \* "call" while a call has just begun, else what one returned
  requests,       \* files and libraries named so far
  objects,        \* ghost: for each object file loaded, whether it succeeded
  named           \* ghost: DLLs that the user or a script named

vars == <<sections, symtab, dynsymtab, loaded_dlls, static_link, stack, ret,
          requests, objects, named>>
data == <<sections, symtab, dynsymtab, loaded_dlls, objects, named>>

(***************************************************************************)
(* Symbols                                                                 *)
(***************************************************************************)
find_elf_sym(tab, n) ==
  LET hits == {i \in DOMAIN tab : tab[i].name = n /\ tab[i].bind # "local"}
  IN  IF hits = {} THEN 0 ELSE CHOOSE i \in hits : TRUE

\* sec is the number of the section, 0 if the symbol is undefined.
Undefined(tab, n) == find_elf_sym(tab, n) # 0 /\ tab[find_elf_sym(tab, n)].sec = 0
Defined(tab, n) == find_elf_sym(tab, n) # 0 /\ tab[find_elf_sym(tab, n)].sec # 0

\* An undefined entry is patched, and a weak one by a global definition.
GivesWay(e, s) == e.sec = 0 \/ (s.sec # 0 /\ s.bind = "global" /\ e.bind = "weak")

\* add_elf_sym for the symbols `these' of one file, whose names differ: the
\* table after it, and the number of each.  (Module ElfSymtab has the rest.)
add_elf_syms(tab, syms, these) ==
  LET At(k) == IF syms[k].bind = "local" THEN 0 ELSE find_elf_sym(tab, syms[k].name)
      New == {k \in these : At(k) = 0}
      Number(k) == IF At(k) # 0 THEN At(k) ELSE Len(tab) + Cardinality({l \in New : l <= k})
      Patches(i) == {k \in these : At(k) = i /\ GivesWay(tab[i], syms[k])}
  IN [tab |-> [i \in 1 .. Len(tab) + Cardinality(New) |->
                 IF i > Len(tab) THEN syms[CHOOSE k \in New : Number(k) = i]
                 ELSE IF Patches(i) # {} THEN syms[CHOOSE k \in Patches(i) : TRUE]
                 ELSE tab[i]],
      map |-> [k \in these |-> Number(k)]]

(***************************************************************************)
(* Object files                                                            *)
(***************************************************************************)
AlignUp(n, a) == ((n + a - 1) \div a) * a

FindSection(secs, name) ==
  LET hits == {j \in DOMAIN secs : secs[j].name = name}
  IN  IF hits = {} THEN 0 ELSE CHOOSE j \in hits : \A k \in hits : j <= k

new_section(name, type) ==
  [name |-> name, type |-> type, align |-> IF type = "rel" THEN 4 ELSE 32,
   data |-> <<>>, info |-> 0, reloc |-> 0]

\* The contents of a section are cells; each knows the object, the section and
\* the offset it came from.  Padding belongs to nobody.
Pad(n) == [i \in 1 .. n |-> <<0, 0, 0>>]
Cells(id, i, n) == [k \in 1 .. n |-> <<id, i, k - 1>>]

\* The entries of a relocation section as they are in the file.  Ghosts: from,
\* the object; nth, the place among its entries; site, the cell to be
\* relocated; name, the symbol meant.
Entries(id, o, i) ==
  [k \in DOMAIN o.sections[i].rels |->
     LET r == o.sections[i].rels[k]
     IN [offset |-> r.offset, sym |-> r.sym, from |-> id, nth |-> <<i, k>>,
         site |-> <<id, o.sections[i].info, r.offset>>, name |-> o.syms[r.sym].name]]

Handled(o) == {i \in DOMAIN o.sections : o.sections[i].type \in {"progbits", "rel", "nobits"}}

\* The sections in memory that bear the names of the object's.
Found(o) == [i \in DOMAIN o.sections |-> FindSection(sections, o.sections[i].name)]
IsLinkOnce(found, o, i) == o.sections[i].once /\ found[i] # 0

\* The first section of another type than the one of its name in memory ends
\* everything.
Refused(found, o) ==
  {i \in Handled(o) : /\ found[i] # 0
                      /\ ~IsLinkOnce(found, o, i)
                      /\ sections[found[i]].type # o.sections[i].type}
Merged(found, refused, o) ==
  {i \in Handled(o) : ~IsLinkOnce(found, o, i) /\ \A r \in refused : i < r}
Fresh(found, merged) == {i \in merged : found[i] = 0}

Contents(s) == IF s = 0 THEN <<>> ELSE sections[s].data

\* Where what is appended goes.  Relocation entries are never padded.
End(len, sh) == IF sh.type = "rel" THEN len ELSE AlignUp(len, sh.align)

\* sm_table: the section the ith one of the object goes to, and where in it.
SectionMerge(found, merged, o) ==
  [i \in DOMAIN o.sections |->
     IF i \in merged
     THEN [s |-> IF found[i] # 0 THEN found[i]
                 ELSE Len(sections) + Cardinality({k \in Fresh(found, merged) : k <= i}),
           offset |-> End(Len(Contents(found[i])), o.sections[i]), link_once |-> FALSE]
     ELSE [s |-> 0, offset |-> 0, link_once |-> i \in Handled(o) /\ IsLinkOnce(found, o, i)]]

\* Section s with what the ith section of object id brings.
Joined(s, sm, id, o, i) ==
  LET sh == o.sections[i]
      new == IF sh.type = "rel" THEN Entries(id, o, i) ELSE Cells(id, i, sh.size)
  IN [s EXCEPT !.align = IF sh.align > @ THEN sh.align ELSE @,
               !.data = @ \o Pad(sm[i].offset - Len(@)) \o new]

\* The first pass and the second, which ties new relocation sections to the
\* sections they relocate.
MergedSections(sm, fresh, tied, id, o) ==
  LET old(j) == IF j <= Len(sections) THEN sections[j]
                ELSE LET sh == o.sections[CHOOSE i \in fresh : sm[i].s = j]
                     IN  [new_section(sh.name, sh.type) EXCEPT !.align = sh.align]
      Source(j) == {i \in DOMAIN sm : sm[i].s = j}
      Info(j) == {sm[o.sections[i].info].s : i \in {k \in tied : sm[k].s = j}}
      Reloc(j) == {sm[i].s : i \in {k \in tied : sm[o.sections[k].info].s = j}}
      Of(S, default) == IF S = {} THEN default ELSE CHOOSE x \in S : TRUE
      Tie(s, j) == [s EXCEPT !.info = Of(Info(j), @), !.reloc = Of(Reloc(j), @)]
  IN [j \in 1 .. Len(sections) + Cardinality(fresh) |->
        Tie(IF Source(j) = {} THEN old(j)
            ELSE Joined(old(j), sm, id, o, CHOOSE i \in Source(j) : TRUE), j)]

\* The symbols that are entered: undefined ones, and those of merged sections.
Kept(sm, o) == {k \in DOMAIN o.syms : o.syms[k].sec # 0 => sm[o.syms[k].sec].s # 0}

\* Mutant: the symbol is taken to be in the object's part of the section.
ValueInObject(sm, sym) == sym.value
ValueOf(sm, sym) == IF sym.sec = 0 THEN 0 ELSE sym.value + sm[sym.sec].offset

\* They as they are in the table.
Converted(sm, id, o) ==
  [k \in DOMAIN o.syms |->
     [name |-> o.syms[k].name, bind |-> o.syms[k].bind, from |-> id,
      sec |-> IF o.syms[k].sec = 0 THEN 0 ELSE sm[o.syms[k].sec].s,
      value |-> ValueOf(sm, o.syms[k])]]

\* What the others become: global ones of a link-once section that is not added
\* are those defined already.
Elsewhere(sm, o, k) ==
  IF sm[o.syms[k].sec].link_once /\ o.syms[k].bind # "local"
  THEN find_elf_sym(symtab, o.syms[k].name) ELSE 0

old_to_new_syms(sm, added, o) ==
  [k \in DOMAIN o.syms |-> IF k \in DOMAIN added.map THEN added.map[k] ELSE Elsewhere(sm, o, k)]

\* Mutant: relocations for symbols that were not kept are let pass.
AlwaysLinkOnce(sm, o) == TRUE

\* `sm' is left at the section of the object's last defined symbol.
LastIsLinkOnce(sm, o) ==
  LET defined == {k \in DOMAIN o.syms : o.syms[k].sec # 0}
  IN  defined # {} /\ sm[o.syms[CHOOSE k \in defined : \A l \in defined : l <= k].sec].link_once

\* An entry whose symbol was not kept ends the third pass.
Invalids(sm, map, o) ==
  UNION {{<<i, k>> : k \in {l \in DOMAIN o.sections[i].rels :
                              /\ map[o.sections[i].rels[l].sym] = 0
                              /\ ~LastIsLinkOnce(sm, o)}} :
           i \in {j \in DOMAIN sm : sm[j].s # 0}}

\* Mutant: the offset is that of the relocation section itself.
OwnOffset(sm, e) == sm[e.nth[1]].offset

\* `offseti': where the section that the entry relocates went.
SiteOffset(sm, e) == sm[e.site[2]].offset

\* The third pass patches the entries it has just appended, in their order.
Patched(secs, sm, map, invalids, id) ==
  LET Reached(e) == \A b \in invalids :
                      e.nth[1] < b[1] \/ (e.nth[1] = b[1] /\ e.nth[2] < b[2])
      Fix(e) == IF e.from # id \/ ~Reached(e) THEN e
                ELSE [e EXCEPT !.sym = map[@], !.offset = @ + SiteOffset(sm, e)]
  IN [j \in DOMAIN secs |->
        IF secs[j].type = "rel"
        THEN [secs[j] EXCEPT !.data = [k \in DOMAIN @ |-> Fix(@[k])]] ELSE secs[j]]

\* Symbols and sections stay even if an object is refused half-way.
tcc_load_object_file(o) ==
  LET id == Len(objects) + 1 IN
  /\ UNCHANGED <<dynsymtab, loaded_dlls, named>>
  /\ \E found \in {Found(o)} : \E refused \in {Refused(found, o)} :
     \E merged \in {Merged(found, refused, o)} : \E sm \in {SectionMerge(found, merged, o)} :
       LET fresh == Fresh(found, merged)
           rel == {i \in fresh : o.sections[i].type = "rel"}
       IN IF refused # {}
          THEN /\ sections' = MergedSections(sm, fresh, {}, id, o)
               /\ objects' = Append(objects, FALSE)
               /\ UNCHANGED symtab
          ELSE \E added \in {add_elf_syms(symtab, Converted(sm, id, o), Kept(sm, o))} :
               \E map \in {old_to_new_syms(sm, added, o)} : \E bad \in {Invalids(sm, map, o)} :
                 /\ sections' = Patched(MergedSections(sm, fresh, rel, id, o), sm, map, bad, id)
                 /\ symtab' = added.tab
                 /\ objects' = Append(objects, bad = {})

\* tcc_compile, as far as the linker sees it: code in .text (section 1), a
\* function, a name used, and a relocation for it.  put_elf_reloc creates the
\* relocation section of .text when there is none.
tcc_compile(u) ==
  LET id == Len(objects) + 1
      at == Len(sections[1].data)
      G(name, sec, value) == [name |-> name, bind |-> "global", sec |-> sec,
                              value |-> value, from |-> id]
      added == add_elf_syms(symtab, <<G(u.defines, 1, at), G(u.uses, 0, 0)>>, {1, 2})
      sr == IF sections[1].reloc # 0 THEN sections[1].reloc ELSE Len(sections) + 1
      secs == IF sections[1].reloc # 0 THEN sections
              ELSE Append([sections EXCEPT ![1].reloc = sr],
                          [new_section(".rel.text", "rel") EXCEPT !.info = 1])
  IN /\ sections' = [secs EXCEPT ![1].data = @ \o Cells(id, 1, u.size),
                       ![sr].data = Append(@, [offset |-> at, sym |-> added.map[2], from |-> id,
                                               nth |-> <<0, 0>>, site |-> <<id, 1, 0>>, name |-> u.uses])]
     /\ symtab' = added.tab
     /\ objects' = Append(objects, TRUE)
     /\ UNCHANGED <<dynsymtab, loaded_dlls, named>>

(***************************************************************************)
(* Files                                                                   *)
(***************************************************************************)
\* Running calls.  Each returns to the one below it in the stack.
AddDll(name, level) == [fn |-> "tcc_add_dll", name |-> name, level |-> level, i |-> 0]
AddLibrary(lib) == [fn |-> "tcc_add_library", lib |-> lib, tried |-> 0]
\* Ghosts: before, the symbol table at the start, and taken, the members loaded.
Alacarte(ar) == [fn |-> "tcc_load_alacarte", ar |-> ar, i |-> 0, bound |-> FALSE,
                 before |-> symtab, taken |-> <<>>]
Members(ar) == [fn |-> "tcc_load_archive", ar |-> ar, i |-> 0]
Needed(dll) == [fn |-> "tcc_load_dll", needed |-> dll.needed, i |-> 0]
Script(list) == [fn |-> "ld_add_file_list", list |-> list, i |-> 0]

Return(r) == ret' = r
Below(stk, call) == stack' = Append(stk, call) /\ Return("call")

IsLoaded(name) == \E j \in DOMAIN loaded_dlls : loaded_dlls[j].name = name

\* Mutant: the level of a DLL that is already loaded is left alone.
LevelKept(d, name, level) == d

\* A DLL that the user names as well is "level 0" from then on.
LevelUpdated(d, name, level) ==
  IF d.name = name /\ level < d.level THEN [d EXCEPT !.level = level] ELSE d

EnterDynamic(dll) ==
  add_elf_syms(dynsymtab, dll.syms, {k \in DOMAIN dll.syms : dll.syms[k].bind # "local"}).tab

\* tcc_load_dll up to the DLLs that this one needs.
tcc_load_dll(dll, level, stk) ==
  /\ named' = IF level = 0 THEN named \cup {dll.soname} ELSE named
  /\ UNCHANGED <<sections, symtab, objects>>
  /\ IF IsLoaded(dll.soname)
     THEN /\ loaded_dlls' = [j \in DOMAIN loaded_dlls |->
                               LevelUpdated(loaded_dlls[j], dll.soname, level)]
          /\ Return("ok") /\ stack' = stk
          /\ UNCHANGED dynsymtab
     ELSE /\ loaded_dlls' = Append(loaded_dlls, [name |-> dll.soname, level |-> level])
          /\ dynsymtab' = EnterDynamic(dll)
          /\ Below(stk, Needed(dll))

\* tcc_add_file_internal, called by what stk holds: what it does at once, and
\* the call that remains to be done.
tcc_add_file_internal(path, level, stk) ==
  IF path \notin DOMAIN Files
  THEN Return("fail") /\ stack' = stk /\ UNCHANGED data
  ELSE LET f == Files[path] IN
       \/ /\ f.kind = "c"
          /\ tcc_compile(f) /\ Return("ok") /\ stack' = stk
       \/ /\ f.kind = "object"
          /\ tcc_load_object_file(f)
          /\ stack' = stk
          /\ Return(IF objects'[Len(objects')] THEN "ok" ELSE "fail")
       \/ /\ f.kind = "dll"
          /\ tcc_load_dll(f, level, stk)
       \/ /\ f.kind = "archive"
          /\ Below(stk, IF f.index # <<>> THEN Alacarte(f) ELSE Members(f))
          /\ UNCHANGED data
       \/ /\ f.kind = "script"
          /\ Below(stk, Script(f.list))
          /\ UNCHANGED data
       \/ /\ f.kind = "unknown"
          /\ Return("fail") /\ stack' = stk /\ UNCHANGED data

Top == stack[Len(stack)]
Rest == Front(stack)
Runs(fn) == stack # <<>> /\ Top.fn = fn
Returns(r) == Return(r) /\ stack' = Rest /\ UNCHANGED data

(***************************************************************************)
(* The steps of the calls                                                  *)
(***************************************************************************)
\* The next directory.  Not only a missing file but any failure goes on.
SearchNext ==
  /\ Runs("tcc_add_dll")
  /\ ret # "ok"
  /\ Top.i < Len(LibraryPaths)
  /\ tcc_add_file_internal(<<LibraryPaths[Top.i + 1], Top.name>>, Top.level,
                           Append(Rest, [Top EXCEPT !.i = @ + 1]))

\* ret is still that of the caller's last call when the search begins.
Searched ==
  /\ Runs("tcc_add_dll")
  /\ Top.i # 0
  /\ ret = "ok" \/ (ret = "fail" /\ Top.i = Len(LibraryPaths))
  /\ Returns(ret)

\* The shared library unless the link is static, then the archive.
LibraryNext ==
  /\ Runs("tcc_add_library")
  /\ ret # "ok"
  /\ Top.tried < 2
  /\ LET dynamic == Top.tried = 0 /\ ~static_link
     IN Below(Append(Rest, [Top EXCEPT !.tried = IF dynamic THEN 1 ELSE 2]),
              AddDll(IF dynamic THEN Shared(Top.lib) ELSE Static(Top.lib), 0))
  /\ UNCHANGED data

LibraryFound ==
  /\ Runs("tcc_add_library")
  /\ Top.tried # 0
  /\ ret = "ok" \/ (ret = "fail" /\ Top.tried = 2)
  /\ Returns(ret)

\* Mutant: the index is gone through once.
OncePerIndex(f) == FALSE

\* Members may need others that the index listed before them.
Again(f) == f.bound

\* Mutant: `bound' is set to 0 before the first pass only.
PassKeepsBound(f) == [f EXCEPT !.i = 0]
NextPass(f) == [f EXCEPT !.i = 0, !.bound = FALSE]

\* One name of the index; its member is loaded if it is wanted now.
IndexEntry ==
  LET e == Top.ar.index[Top.i + 1]
      wanted == Undefined(symtab, e.name)
      next == [Top EXCEPT !.i = @ + 1, !.bound = @ \/ wanted,
                          !.taken = IF wanted THEN Append(@, e.member) ELSE @]
  IN /\ Runs("tcc_load_alacarte")
     /\ ret # "fail"
     /\ Top.i < Len(Top.ar.index)
     /\ IF ~wanted
        THEN stack' = Append(Rest, next) /\ UNCHANGED <<data, ret>>
        ELSE /\ tcc_load_object_file(Top.ar.members[e.member])
             /\ stack' = Append(Rest, next)
             /\ Return(IF objects'[Len(objects')] THEN ret ELSE "fail")

IndexEnds ==
  /\ Runs("tcc_load_alacarte")
  /\ ret # "fail"
  /\ Top.i = Len(Top.ar.index)
  /\ IF Again(Top)
     THEN stack' = Append(Rest, NextPass(Top)) /\ UNCHANGED <<data, ret>>
     ELSE Returns("ok")

AlacarteFails == Runs("tcc_load_alacarte") /\ ret = "fail" /\ Returns("fail")

\* An archive without an index gives all its members.
MemberNext ==
  /\ Runs("tcc_load_archive")
  /\ ret # "fail"
  /\ Top.i < Len(Top.ar.members)
  /\ tcc_load_object_file(Top.ar.members[Top.i + 1])
  /\ stack' = Append(Rest, [Top EXCEPT !.i = @ + 1])
  /\ Return(IF objects'[Len(objects')] THEN ret ELSE "fail")

MembersEnd ==
  /\ Runs("tcc_load_archive")
  /\ ret = "fail" \/ Top.i = Len(Top.ar.members)
  /\ Returns(IF ret = "fail" THEN "fail" ELSE "ok")

\* DLLs that a DLL needs are "level 1", found by DT_SONAME or file name.
NeededNext ==
  /\ Runs("tcc_load_dll")
  /\ ret # "fail"
  /\ Top.i < Len(Top.needed)
  /\ LET name == Top.needed[Top.i + 1]
         next == Append(Rest, [Top EXCEPT !.i = @ + 1])
     IN IF IsLoaded(name) THEN stack' = next /\ UNCHANGED ret
        ELSE Below(next, AddDll(name, 1))
  /\ UNCHANGED data

NeededEnd ==
  /\ Runs("tcc_load_dll")
  /\ ret = "fail" \/ Top.i = Len(Top.needed)
  /\ Returns(IF ret = "fail" THEN "fail" ELSE "ok")

\* The files of GROUP and INPUT; those in AS_NEEDED are left out.  What becomes
\* of them is not looked at.
ScriptNext ==
  /\ Runs("ld_add_file_list")
  /\ Top.i < Len(Top.list)
  /\ LET item == Top.list[Top.i + 1]
         next == Append(Rest, [Top EXCEPT !.i = @ + 1])
     IN CASE item.as_needed -> stack' = next /\ UNCHANGED <<data, ret>>
          [] ~item.as_needed /\ item.absolute -> tcc_add_file_internal(item.path, 0, next)
          [] OTHER -> Below(next, AddDll(item.path[2], 0)) /\ UNCHANGED data

ScriptEnds ==
  /\ Runs("ld_add_file_list")
  /\ Top.i = Len(Top.list)
  /\ Returns("ok")

Step ==
  /\ \/ SearchNext \/ Searched \/ LibraryNext \/ LibraryFound
     \/ IndexEntry \/ IndexEnds \/ AlacarteFails \/ MemberNext \/ MembersEnd
     \/ NeededNext \/ NeededEnd \/ ScriptNext \/ ScriptEnds
  /\ UNCHANGED <<static_link, requests>>

(***************************************************************************)
(* What the user asks for                                                  *)
(***************************************************************************)
tcc_add_file(path) ==
  /\ stack = <<>>
  /\ requests < MaxRequests
  /\ requests' = requests + 1
  /\ tcc_add_file_internal(path, 0, <<>>)
  /\ UNCHANGED static_link

tcc_add_library(lib) ==
  /\ stack = <<>>
  /\ requests < MaxRequests
  /\ requests' = requests + 1
  /\ Below(<<>>, AddLibrary(lib))
  /\ UNCHANGED <<data, static_link>>

Init ==
  /\ sections = <<new_section(".text", "progbits"), new_section(".data", "progbits"),
                  new_section(".bss", "nobits")>>
  /\ symtab = <<>>
  /\ dynsymtab = <<>>
  /\ loaded_dlls = <<>>
  /\ static_link \in BOOLEAN
  /\ stack = <<>>
  /\ ret = "ok"
  /\ requests = 0
  /\ objects = <<>>
  /\ named = {}

Next == Step \/ (\E p \in DOMAIN Files : tcc_add_file(p)) \/ (\E l \in Libraries : tcc_add_library(l))

Spec == Init /\ [][Next]_vars /\ WF_vars(Step)

(***************************************************************************)
(* Well-formed files: as compilers and assemblers write them.  The loaders *)
(* take this for granted, but for relocations of link-once sections, which *)
(* they get wrong (tccelf.c:1849) and which are left out here.             *)
(***************************************************************************)
\* A sequence of whatever it holds.
Sequence(s) == s \in Seq(ToSet(s))

\* Sections with contents, and the entries and symbols of an object.
HasContents(sh) == sh.type \in {"progbits", "nobits"}
Target(o, i) == o.sections[o.sections[i].info]

\* Relocation entries are inside a section that is not link-once.
SectionOK(o, sh) ==
  /\ sh.align \in Nat \ {0}
  /\ sh.size \in Nat
  /\ Sequence(sh.rels)
  /\ sh.type = "rel" => /\ sh.info \in DOMAIN o.sections
                        /\ HasContents(o.sections[sh.info])
                        /\ ~o.sections[sh.info].once
  /\ \A k \in DOMAIN sh.rels : /\ sh.type = "rel"
                               /\ sh.rels[k].offset \in Nat
                               /\ sh.rels[k].offset < o.sections[sh.info].size
                               /\ sh.rels[k].sym \in DOMAIN o.syms

\* Symbols are undefined or inside a section.
SymbolOK(o, s) ==
  /\ s.value \in Nat
  /\ s.sec # 0 => /\ s.sec \in DOMAIN o.sections
                  /\ o.sections[s.sec].type # "rel"
                  /\ HasContents(o.sections[s.sec]) => s.value < o.sections[s.sec].size

\* It can be found when the section it is in is dropped as link-once.  Entries
\* for other symbols are not refused in an object that has such sections.
Survives(o, s) ==
  s.sec # 0 => /\ HasContents(o.sections[s.sec])
               /\ o.sections[s.sec].once => s.bind # "local"

ObjectOK(o) ==
  /\ Sequence(o.sections) /\ Sequence(o.syms)
  /\ \A i \in DOMAIN o.sections : SectionOK(o, o.sections[i])
  /\ \A i, k \in DOMAIN o.sections : o.sections[i].name = o.sections[k].name => i = k
  /\ \A k \in DOMAIN o.syms : SymbolOK(o, o.syms[k])
  /\ (\E i \in DOMAIN o.sections : o.sections[i].once) =>
       \A i \in DOMAIN o.sections : \A k \in DOMAIN o.sections[i].rels :
         Survives(o, o.syms[o.sections[i].rels[k].sym])

Archives == {Files[p] : p \in {q \in DOMAIN Files : Files[q].kind = "archive"}}
ObjectFiles ==
  {Files[p] : p \in {q \in DOMAIN Files : Files[q].kind = "object"}}
    \cup UNION {ToSet(ar.members) : ar \in Archives}

ArchiveOK(ar) ==
  /\ Sequence(ar.members) /\ Sequence(ar.index)
  /\ \A k \in DOMAIN ar.index : ar.index[k].member \in DOMAIN ar.members

\* The names of relocation sections and of what they relocate: they name each
\* other, as ".rel.text" and ".text" do, and no other section is called so.
Pairs(o) ==
  {<<o.sections[i].name, Target(o, i).name>> :
     i \in {k \in DOMAIN o.sections : o.sections[k].type = "rel"}}
NamePairs == {<<".rel.text", ".text">>} \cup UNION {Pairs(o) : o \in ObjectFiles}
IsRelName(a) == \E t \in NamePairs : t[1] = a
NamesFit ==
  /\ \A s, t \in NamePairs : s[1] = t[1] <=> s[2] = t[2]
  /\ \A a \in {".text", ".data", ".bss"} : ~IsRelName(a)
  /\ \A o \in ObjectFiles : \A i \in DOMAIN o.sections :
       o.sections[i].type # "rel" => ~IsRelName(o.sections[i].name)

\* A section is link-once by its name, and those of one name define the same.
Globals(o, i) ==
  {o.syms[k].name : k \in {l \in DOMAIN o.syms : o.syms[l].sec = i /\ o.syms[l].bind # "local"}}
OnceFits ==
  \A o \in ObjectFiles : \A i \in DOMAIN o.sections :
    o.sections[i].once =>
      /\ o.sections[i].name \notin {".text", ".data", ".bss", ".rel.text"}
      /\ \A p \in ObjectFiles : \A k \in DOMAIN p.sections :
           p.sections[k].name = o.sections[i].name =>
             p.sections[k].once /\ Globals(p, k) = Globals(o, i)

FilesWellFormed ==
  /\ \A p \in DOMAIN Files : Files[p].kind = "c" => Files[p].size \in Nat \ {0}
  /\ \A ar \in Archives : ArchiveOK(ar)
  /\ \A o \in ObjectFiles : ObjectOK(o)
  /\ NamesFit
  /\ OnceFits

\* What an object defines for others.
GlobalsOf(o) == UNION {Globals(o, i) : i \in DOMAIN o.sections}

\* The types that sections of a name are known to have.
NameTypes ==
  {<<".text", "progbits">>, <<".data", "progbits">>, <<".bss", "nobits">>, <<".rel.text", "rel">>}
    \cup UNION {{<<o.sections[i].name, o.sections[i].type>> : i \in DOMAIN o.sections} :
                  o \in ObjectFiles}

\* What an object that can be a member tells others: it has one symbol of a
\* name, and what it uses is not local; what it defines is in a section that is
\* merged; and one with link-once sections is not refused half-way.
TellsNames(o) ==
  /\ \A k, l \in DOMAIN o.syms :
       o.syms[k].bind # "local" /\ o.syms[l].bind # "local" /\ o.syms[k].name = o.syms[l].name => k = l
  /\ \A k \in DOMAIN o.syms :
       /\ o.syms[k].sec = 0 => o.syms[k].bind # "local"
       /\ o.syms[k].sec # 0 /\ o.syms[k].bind # "local" => HasContents(o.sections[o.syms[k].sec])
  /\ \A i \in DOMAIN o.sections : o.sections[i].once =>
       \A k \in DOMAIN o.sections : \A t \in NameTypes :
         o.sections[k].name = t[1] => o.sections[k].type = t[2]

\* The index of an archive lists what its members define, each name for one
\* member.
IndexTells(ar) ==
  /\ \A e, f \in ToSet(ar.index) : e.name = f.name => e.member = f.member
  /\ \A m \in DOMAIN ar.members :
       GlobalsOf(ar.members[m]) = {e.name : e \in {f \in ToSet(ar.index) : f.member = m}}

\* What tcc_load_alacarte takes for granted of archives and of what else is
\* linked.
ArchivesTell ==
  /\ \A p \in DOMAIN Files : Files[p].kind = "c" => Files[p].defines # Files[p].uses
  /\ \A o \in ObjectFiles : TellsNames(o)
  /\ \A ar \in Archives : ar.index # <<>> => IndexTells(ar)

(***************************************************************************)
(* Properties                                                              *)
(***************************************************************************)
Quiet == stack = <<>>

\* What is kept of an object that was refused is not fit to be linked.
NoneRefused == \A id \in DOMAIN objects : objects[id]

\* tcc_load_object_file: whatever was joined to a section before and after it,
\* and whatever its symbols were merged with, an entry of a relocation section
\* is at the cell it was made for, names the symbol it was made for (the
\* object's own if that is local), and is found from the section it relocates;
\* and what a symbol is defined as is the cell it named in its object.
RelocationsStayOnTheirSites ==
  NoneRefused =>
    /\ \A j \in DOMAIN sections : sections[j].type = "rel" =>
         \A k \in DOMAIN sections[j].data :
           LET e == sections[j].data[k]
               target == sections[sections[j].info]
           IN  /\ e.offset < Len(target.data)
               /\ target.data[e.offset + 1] = e.site
               /\ target.reloc = j
               /\ symtab[e.sym].name = e.name
               /\ symtab[e.sym].bind = "local" => symtab[e.sym].from = e.from
    /\ \A i \in DOMAIN symtab : symtab[i].sec # 0 =>
         /\ symtab[i].value < Len(sections[symtab[i].sec].data)
         /\ sections[symtab[i].sec].data[symtab[i].value + 1][1] = symtab[i].from

\* The names a set of members of an archive uses.
Uses(ar, S) == UNION {{s.name : s \in {t \in ToSet(ar.members[k].syms) : t.sec = 0}} : k \in S}

\* The members that are wanted: those that define what is undefined, and what
\* they leave undefined, to the end.
Wanted(ar, before) ==
  LET Missing(S) == {n \in {e.name : e \in ToSet(ar.index)} :
                       \/ Undefined(before, n)
                       \/ n \in Uses(ar, S) /\ ~Defined(before, n)}
      Closed(S) == \A e \in ToSet(ar.index) : e.name \in Missing(S) => e.member \in S
      All == {S \in SUBSET DOMAIN ar.members : Closed(S)}
  IN CHOOSE S \in All : \A T \in All : S \subseteq T

\* tcc_load_alacarte ("load only the objects which resolve undefined symbols"):
\* whatever the order of the index, a member is loaded once if the symbols
\* undefined before lead to it, else not at all.
MembersAsWanted ==
  [][IndexEnds /\ Len(stack') < Len(stack) =>
       /\ ToSet(Top.taken) = Wanted(Top.ar, Top.before)
       /\ Len(Top.taken) = Cardinality(ToSet(Top.taken))]_vars

\* tcc_load_dll ("level = 0 means that the DLL is referenced by the user"): a
\* DLL is loaded once, whatever asks for it and under whatever file name, and
\* is to be named in the output just when the user or a script has named it,
\* before or after other DLLs did.
NeededAsNamed ==
  /\ \A i, j \in DOMAIN loaded_dlls : loaded_dlls[i].name = loaded_dlls[j].name => i = j
  /\ \A j \in DOMAIN loaded_dlls : loaded_dlls[j].level = 0 <=> loaded_dlls[j].name \in named

\* Every file and library the user names is done with in the end, though DLLs
\* need each other and members call for members.
RequestsEnd == []<>Quiet
=============================================================================

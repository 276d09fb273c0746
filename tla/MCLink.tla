------------------------------- MODULE MCLink ---------------------------------
(***************************************************************************)
(* The linker: what it makes of its inputs, and of them the output.  The   *)
(* output begins with the tables of inputs of its own, with every kind of  *)
(* symbol, so that a behaviour is one of the two halves; the state of the  *)
(* other is idle.                                                          *)
(***************************************************************************)
EXTENDS LinkInputs, LinkOutput

(* -------------------------------- inputs --------------------------------- *)

\* An instance of LinkInputs: a unit, objects with sections of several
\* alignments, one that is refused, an archive whose index is in the wrong
\* order, one without index, DLLs that need each other, a linker script.

Paths == <<"d1", "d2">>
SoName(l) == <<l, "so">>
ArName(l) == <<l, "a">>

Sec(name, type, size, align) ==
  [name |-> name, type |-> type, size |-> size, align |-> align, once |-> FALSE,
   info |-> 0, rels |-> <<>>]
Rel(name, info, relocs) ==
  [Sec(name, "rel", 0, 4) EXCEPT !.info = info, !.rels = relocs]
R(offset, sym) == [offset |-> offset, sym |-> sym]
Sym(name, bind, sec, value) == [name |-> name, bind |-> bind, sec |-> sec, value |-> value]
Obj(parts, syms) == [kind |-> "object", sections |-> parts, syms |-> syms]

Unit == [kind |-> "c", size |-> 1, defines |-> "main", uses |-> "f"]

\* A local symbol, a relocation of data, and sections aligned to 2.
MainObject ==
  Obj(<<Sec(".text", "progbits", 3, 2), Rel(".rel.text", 1, <<R(0, 3), R(2, 1)>>),
        Sec(".note", "note", 1, 1),
        Sec(".data", "progbits", 2, 1), Rel(".rel.data", 4, <<R(1, 2)>>),
        Sec(".bss", "nobits", 1, 2)>>,
      <<Sym("s", "local", 4, 1), Sym("g", "weak", 1, 1), Sym("f", "global", 0, 0),
        Sym("s", "local", 6, 0)>>)

\* The type of its second section is not that of the linker's.
BadObject ==
  Obj(<<Sec(".text", "progbits", 1, 1), Rel(".rel.text", 1, <<R(0, 1)>>),
        Sec(".bss", "progbits", 1, 1)>>,
      <<Sym("k", "global", 1, 0)>>)

\* Its relocation is for a symbol in a section that is not merged.
NoteObject ==
  Obj(<<Sec(".text", "progbits", 1, 1), Sec(".note", "note", 1, 1),
        Rel(".rel.text", 1, <<R(0, 1)>>)>>,
      <<Sym("n", "local", 2, 0)>>)

\* An instance of an inline function; calls of it are relocated.
PlainOnceObject(user) ==
  Obj(<<[Sec(".gnu.linkonce.t.i", "progbits", 2, 1) EXCEPT !.once = TRUE],
        Sec(".text", "progbits", 1, 1), Rel(".rel.text", 2, <<R(0, 1)>>)>>,
      <<Sym("i", "weak", 1, 0), Sym(user, "global", 2, 0)>>)

Member(def, use) ==
  Obj(<<Sec(".text", "progbits", 1, 2), Rel(".rel.text", 1, <<R(0, 2)>>)>>,
      <<Sym(def, "global", 1, 0), Sym(use, "global", 0, 0)>>)
E(name, member) == [name |-> name, member |-> member]
Archive1 == [kind |-> "archive",
             members |-> <<Member("f", "g"), Member("g", "h"), BadObject, Member("h", "f")>>,
             index |-> <<E("h", 4), E("g", 2), E("k", 3), E("f", 1)>>]
Archive2 == [kind |-> "archive", members |-> <<Member("p", "k"), MainObject>>, index |-> <<>>]
Archive3 == [kind |-> "archive", members |-> <<Member("p", "f"), BadObject>>, index |-> <<>>]

DynSym(name, sec) == [name |-> name, bind |-> "global", sec |-> sec, value |-> 0, from |-> 0]
Dll(soname, syms, needed) == [kind |-> "dll", soname |-> soname, syms |-> syms, needed |-> needed]
Item(absolute, path, as_needed) == [absolute |-> absolute, path |-> path, as_needed |-> as_needed]

C6 == <<"c", "so.6">>
Ld == <<"ld", "so">>
M6 == <<"m", "so.6">>

Everything ==
  [p \in {<<"d1", <<"main", "c">>>>, <<"d1", <<"main", "o">>>>, <<"d1", <<"bad", "o">>>>,
          <<"d1", <<"note", "o">>>>, <<"d1", <<"i1", "o">>>>, <<"d1", <<"i2", "o">>>>,
          <<"d2", <<"a", "a">>>>, <<"d1", <<"b", "a">>>>, <<"d2", <<"b", "a">>>>,
          <<"d1", <<"c", "so">>>>, <<"d2", C6>>, <<"d1", Ld>>, <<"d2", <<"m", "so">>>>,
          <<"d2", M6>>, <<"d1", <<"a", "so">>>>} |->
     CASE p = <<"d1", <<"main", "c">>>> -> Unit
       [] p = <<"d1", <<"main", "o">>>> -> MainObject
       [] p = <<"d1", <<"bad", "o">>>> -> BadObject
       [] p = <<"d1", <<"note", "o">>>> -> NoteObject
       [] p = <<"d1", <<"i1", "o">>>> -> PlainOnceObject("u1")
       [] p = <<"d1", <<"i2", "o">>>> -> PlainOnceObject("u2")
       [] p = <<"d2", <<"a", "a">>>> -> Archive1
       [] p = <<"d2", <<"b", "a">>>> -> Archive2
       [] p = <<"d1", <<"b", "a">>>> -> Archive3
       [] p = <<"d1", <<"c", "so">>>> ->
            [kind |-> "script", list |-> <<Item(TRUE, <<"d2", C6>>, FALSE),
                                           Item(FALSE, <<"d1", Ld>>, TRUE),
                                           Item(FALSE, <<"d1", <<"b", "a">>>>, FALSE)>>]
       [] p = <<"d2", C6>> -> Dll(C6, <<DynSym("k", 1)>>, <<Ld>>)
       [] p = <<"d1", Ld>> -> Dll(Ld, <<DynSym("k", 0)>>, <<C6>>)
       [] p = <<"d2", <<"m", "so">>>> -> Dll(M6, <<DynSym("h", 1)>>, <<C6, <<"no", "so">>>>)
       [] p = <<"d2", M6>> -> Dll(M6, <<DynSym("h", 1)>>, <<C6>>)
       [] p = <<"d1", <<"a", "so">>>> -> [kind |-> "unknown"]]

\* What LinkInputsProofs assumes is so here.
ASSUME FilesAreWellFormed == FilesWellFormed /\ ArchivesTell

(* -------------------------------- output --------------------------------- *)

\* Small links.  Sizes and addresses are in words.

Symbol(n, bind, type, sec, value, size) ==
  [name |-> n, bind |-> bind, type |-> type, sec |-> sec, value |-> value, size |-> size]

\* A local and two global functions, a variable, a function and a variable of
\* a DLL, a symbol nobody has, a common variable, an absolute symbol.  The
\* DLL uses "hook" and "com".
MCTable(bind) ==
  <<Symbol("loc", "local", "func", ".text", 1, 0),
    Symbol("main", "global", "func", ".text", 0, 0),
    Symbol("var", "global", "object", ".data", 1, 1),
    Symbol("puts", "global", "notype", "undef", 0, 0),
    Symbol("stdout", "global", "notype", "undef", 0, 0),
    Symbol("absent", bind, "notype", "undef", 0, 0),
    Symbol("com", "global", "object", "common", 4, 3),
    Symbol("hook", "global", "func", ".text", 3, 0),
    Symbol("_end", "global", "notype", "undef", 0, 0),
    Symbol("fixed", "global", "notype", "abs", 77, 0)>>

\* The same with a C library in the link.
MCClosed ==
  [i \in DOMAIN MCTable("weak") |->
     CASE i = 4 -> Symbol("puts", "global", "func", ".text", 2, 0)
       [] i = 5 -> Symbol("stdout", "global", "object", "common", 1, 2)
       [] OTHER -> MCTable("weak")[i]]

MCTables == {MCTable("weak"), MCTable("global"), MCClosed}

MCLibs ==
  <<Symbol("puts", "global", "func", "lib", 0, 0),
    Symbol("hook", "global", "notype", "undef", 0, 0),
    Symbol("stdout", "global", "object", "lib", 0, 2),
    Symbol("com", "global", "object", "undef", 0, 0)>>

MCDllAddress(n) == 90000 + (IF n = "puts" THEN 1 ELSE 2)

MCSections ==
  <<SecOf(".text", "progbits", {"alloc", "exec"}, 8, 5),
    SecOf(".data", "progbits", {"alloc", "write"}, 8, 3),
    SecOf(".bss", "nobits", {"alloc", "write"}, 8, 1),
    SecOf(".symtab_section", "symtab_section", {}, 1, 40),
    SecOf("hooks", "progbits", {"alloc", "cname"}, 8, 2),
    RelSec(".text", {}),
    RelSec(".data", {})>>

MCSites == <<<<".text", 2>>, <<".text", 4>>, <<".data", 0>>>>

Rels(types, syms) == {[type |-> t, sym |-> i] : t \in types, i \in syms}

Functions_ == {1, 2, 4, 6, 8}

MCRelocations ==
  <<Rels({"32", "PC32", "GOT32"}, 1 .. 10) \cup Rels({"PLT32"}, Functions_)
      \cup Rels({"GOTOFF"}, {1, 3, 7}) \cup Rels({"GOTPC"}, {1}),
    Rels({"32"}, {1, 4, 5}) \cup Rels({"PC32", "PLT32"}, {8, 4}) \cup Rels({"GOT32"}, {3}),
    Rels({"32"}, {4, 5, 7})>>

Mode(type, static, rdynamic) == [type |-> type, static |-> static, rdynamic |-> rdynamic]
MCModes ==
  {Mode("exe", FALSE, FALSE), Mode("exe", FALSE, TRUE), Mode("exe", TRUE, FALSE),
   Mode("dll", FALSE, FALSE), Mode("memory", FALSE, FALSE), Mode("obj", FALSE, FALSE)}

\* What LinkOutputProofs assumes of the DLLs and the relocations is so here.
ASSUME LibsAreAsTold == LibsTell /\ SitesTell

(* ------------------------------ the two together ----------------------- *)

LinkInputsIdle ==
  /\ sections = <<>> /\ symtab = <<>> /\ dynsymtab = <<>> /\ loaded_dlls = <<>>
  /\ static_link = FALSE /\ stack = <<>> /\ ret = "ok" /\ requests = MaxRequests
  /\ objects = <<>> /\ named = {}
LinkOutputIdle ==
  /\ mode = [type |-> "none"] /\ sites = <<>> /\ phase = "idle" /\ next = 0 /\ secs = <<>>
  /\ symtab_section = <<>> /\ dyn = <<>> /\ rels = <<>> /\ addr = <<>> /\ off = <<>>
  /\ here = <<>> /\ mem = <<>>

LinkInit == (Init /\ LinkOutputIdle) \/ (LinkInputsIdle /\ OutputInit)

OnlyInputs == UNCHANGED outputVars
Call == OnlyInputs /\ UNCHANGED <<static_link, requests>>
OnlyOutput == UNCHANGED vars
LinkNext ==
  \/ \E p \in DOMAIN Files : tcc_add_file(p) /\ OnlyInputs
  \/ \E l \in Libraries : tcc_add_library(l) /\ OnlyInputs
  \/ SearchNext /\ Call
  \/ Searched /\ Call
  \/ LibraryNext /\ Call
  \/ LibraryFound /\ Call
  \/ IndexEntry /\ Call
  \/ IndexEnds /\ Call
  \/ AlacarteFails /\ Call
  \/ MemberNext /\ Call
  \/ MembersEnd /\ Call
  \/ NeededNext /\ Call
  \/ NeededEnd /\ Call
  \/ ScriptNext /\ Call
  \/ ScriptEnds /\ Call
  \/ relocate_common_syms /\ OnlyOutput
  \/ tcc_add_linker_symbols /\ OnlyOutput
  \/ new_dynamic_sections /\ OnlyOutput
  \/ ScanSymbol /\ OnlyOutput
  \/ Scanned /\ OnlyOutput
  \/ ExportToLibs /\ OnlyOutput
  \/ ExportAll /\ OnlyOutput
  \/ BuildGotEntry /\ OnlyOutput
  \/ Reserve /\ OnlyOutput
  \/ PlaceSection /\ OnlyOutput
  \/ NextSegment /\ OnlyOutput
  \/ FinishDynamic /\ OnlyOutput
  \/ PlaceOthers /\ OnlyOutput
  \/ PlaceInMemory /\ OnlyOutput
  \/ relocate_syms /\ OnlyOutput
  \/ relocate_section /\ OnlyOutput
  \/ relocate_rel /\ OnlyOutput
LinkSpec == LinkInit /\ [][LinkNext]_<<vars, outputVars>> /\ WF_vars(Step /\ OnlyInputs)
=============================================================================

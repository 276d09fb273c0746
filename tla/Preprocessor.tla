----------------------------- MODULE Preprocessor -----------------------------
(***************************************************************************)
(* Include files and conditional groups (tcc.c: tcc_open, preprocess,      *)
(* preprocess_skip, the end of file in next_nomacro1, the include cache,   *)
(* the define stack).  One step reads one line.  All open files share one  *)
(* stack of conditionals, ifdef_stack; a file remembers its height when it *)
(* was opened.  An include file that looks like #ifndef X ... #endif is    *)
(* remembered with X and not opened again while X is defined.              *)
(***************************************************************************)
EXTENDS Integers, Sequences, FiniteSets

CONSTANTS
  Dir, Name,           \* a file is a directory and a name
  Macro, Text,         \* macro names; what text lines say
  NoMacro,             \* 0 in ifndef_macro, a token no macro has
  Garbage,             \* ifndef_macro_saved before it is first written
  IncludePath,         \* -I and system directories, in order of search
  Main,                \* the file given to the compiler
  Predefined,          \* macros defined before the first unit (-D)
  Systems,             \* the file systems to run on: contents of each file
  IFDEF_STACK_SIZE,
  INCLUDE_STACK_SIZE,
  MaxUnits             \* bound: translation units compiled in a row

File == Dir \X Name

Lines ==
  [d : {"text"}, arg : Text, kind : {""}]
  \cup [d : {"define", "undef", "if", "ifdef", "ifndef", "elif"}, arg : Macro, kind : {""}]
  \cup [d : {"else", "endif", "error"}, arg : {""}, kind : {""}]
  \cup [d : {"include", "include_next"}, arg : Name, kind : {"quote", "angle"}]

ASSUME PreprocessorAssumption ==
  /\ NoMacro \notin Macro
  /\ Garbage \notin Macro \cup {NoMacro}
  /\ IncludePath \in Seq(Dir)
  /\ Predefined \subseteq Macro
  /\ IFDEF_STACK_SIZE \in Nat
  /\ INCLUDE_STACK_SIZE \in Nat
  /\ \A fs \in Systems : /\ DOMAIN fs \subseteq File
                         /\ Main \in DOMAIN fs
                         /\ \A f \in DOMAIN fs : fs[f] \in Seq(Lines)

VARIABLES
  files,           \* the file system (constant)
  status,          \* "idle", "run", or how the unit ended: "eof", "error", "limit"
  units,           \* units started so far
  file,            \* the BufferedFile being read
  include_stack,   \* the files that include it, outermost first
  ifdef_stack,     \* conditionals of all open files: 1 taken, 0 not, +2 after #else
  skip,            \* preprocess_skip's nesting count, or Reading
  next_tok_flags,  \* what the next token will be told: BOF, ENDIF
  defined,         \* macros define_find finds
  pushed,          \* macros on define_stack above define_start
  cached_includes, \* (kind, name) -> guard macro, for the names remembered
  out              \* the text that reached the parser in this unit

vars == <<files, status, units, file, include_stack, ifdef_stack, skip,
          next_tok_flags, defined, pushed, cached_includes, out>>

Reading == -1

\* tcc_open: ifndef_macro_saved is not initialised.
Opened(f, kind, n) ==
  [name |-> f, line |-> 1, inc_type |-> kind, inc_filename |-> n,
   ifndef_macro |-> NoMacro, ifndef_macro_saved |-> Garbage,
   ifdef_stack_ptr |-> Len(ifdef_stack)]

BufferedFile ==
  [name : File, line : Nat \ {0}, inc_type : {"quote", "angle"}, inc_filename : Name,
   ifndef_macro : Macro \cup {NoMacro},
   ifndef_macro_saved : Macro \cup {NoMacro, Garbage}, ifdef_stack_ptr : Nat]

CachedInclude == [inc_type : {"quote", "angle"}, filename : Name,
                  ifndef_macro : Macro \cup {NoMacro}]

TypeOK ==
  /\ DOMAIN files \subseteq File
  /\ \A f \in DOMAIN files : files[f] \in Seq(Lines)
  /\ status \in {"idle", "run", "eof", "error", "limit"}
  /\ units \in Nat
  /\ file \in BufferedFile
  /\ include_stack \in Seq(BufferedFile)
  /\ ifdef_stack \in Seq(0 .. 3)
  /\ skip \in Nat \cup {Reading}
  /\ next_tok_flags \subseteq {"BOF", "ENDIF"}
  /\ defined \subseteq Macro
  /\ pushed \subseteq Macro
  /\ cached_includes \subseteq CachedInclude
  /\ out \in Seq(Text)

(***************************************************************************)
(* The current line                                                        *)
(***************************************************************************)
Contents == files[file.name]
AtEnd == file.line > Len(Contents)
Line  == Contents[file.line]

NextLine == [file EXCEPT !.line = @ + 1]

\* A directive or a text line is read.  Its tokens use up the flags.
Reads(d) ==
  /\ status = "run"
  /\ skip = Reading
  /\ ~AtEnd
  /\ Line.d = d

\* #else, #elif and #endif are also read where preprocess_skip stops.
ReadsOrStopsAt(d) ==
  /\ status = "run"
  /\ skip \in {Reading, 0}
  /\ ~AtEnd
  /\ Line.d = d

\* error(): the unit is abandoned.
Stop(how) ==
  /\ status' = how
  /\ UNCHANGED <<files, units, file, include_stack, ifdef_stack, skip,
                 next_tok_flags, defined, pushed, cached_includes, out>>

\* What conditionals leave alone.
Elsewhere == <<files, status, units, include_stack, defined, pushed,
               cached_includes, out>>

(***************************************************************************)
(* Translation units                                                       *)
(***************************************************************************)
Init ==
  /\ files \in Systems
  /\ status = "idle"
  /\ units = 0
  /\ ifdef_stack = <<>>
  /\ file = Opened(Main, "quote", Main[2])
  /\ include_stack = <<>>
  /\ skip = Reading
  /\ next_tok_flags = {}
  /\ defined = Predefined
  /\ pushed = {}
  /\ cached_includes = {}
  /\ out = <<>>

\* tcc_add_file_internal opens the file, preprocess_init empties the stacks.
StartUnit ==
  /\ status = "idle"
  /\ units < MaxUnits
  /\ status' = "run"
  /\ units' = units + 1
  /\ ifdef_stack' = <<>>
  /\ file' = [Opened(Main, "quote", Main[2]) EXCEPT !.ifdef_stack_ptr = 0]
  /\ include_stack' = <<>>
  /\ skip' = Reading
  /\ next_tok_flags' = {"BOF"}
  /\ pushed' = {}
  /\ out' = <<>>
  /\ UNCHANGED <<files, defined, cached_includes>>

\* Mutant: free_defines is not called.
EndUnitKeepsDefines ==
  /\ status \in {"eof", "error", "limit"}
  /\ status' = "idle"
  /\ UNCHANGED <<files, units, file, include_stack, ifdef_stack, skip,
                 next_tok_flags, defined, pushed, cached_includes, out>>

\* free_defines: every macro pushed by the unit loses its definition.
EndUnit ==
  /\ status \in {"eof", "error", "limit"}
  /\ status' = "idle"
  /\ defined' = defined \ pushed
  /\ UNCHANGED <<files, units, file, include_stack, ifdef_stack, skip,
                 next_tok_flags, pushed, cached_includes, out>>

\* Mutant: tokens leave the flags of the line before.
EmitTextKeepsFlags ==
  /\ Reads("text")
  /\ out' = Append(out, Line.arg)
  /\ file' = NextLine
  /\ UNCHANGED <<files, status, units, include_stack, ifdef_stack, skip,
                 next_tok_flags, defined, pushed, cached_includes>>

EmitText ==
  /\ Reads("text")
  /\ out' = Append(out, Line.arg)
  /\ file' = NextLine
  /\ next_tok_flags' = {}
  /\ UNCHANGED <<files, status, units, include_stack, ifdef_stack, skip,
                 defined, pushed, cached_includes>>

\* #define and #undef; define_undef blanks the entry on define_stack.
Define ==
  /\ Reads("define") \/ Reads("undef")
  /\ IF Line.d = "define"
     THEN defined' = defined \cup {Line.arg} /\ pushed' = pushed \cup {Line.arg}
     ELSE defined' = defined \ {Line.arg} /\ UNCHANGED pushed
  /\ file' = NextLine
  /\ next_tok_flags' = {}
  /\ UNCHANGED <<files, status, units, include_stack, ifdef_stack, skip,
                 cached_includes, out>>

ErrorDirective == Reads("error") /\ Stop("error")

(***************************************************************************)
(* Conditionals                                                            *)
(***************************************************************************)
\* expr_preprocess returns 0 or 1.  Mutant: the value as it was computed.
RawValue(m) == IF m \in defined THEN 4 ELSE 0
Value(m) == IF m \in defined THEN 1 ELSE 0

\* Mutant: the #else bit is not masked.
SkipIfZero(c) == skip' = IF c # 0 THEN Reading ELSE 0

\* After the test of a conditional: read on, or let preprocess_skip run.
SkipUnless(c) == skip' = IF c % 2 = 1 THEN Reading ELSE 0

\* #if defined(m), #ifdef m, #ifndef m.  A file that starts with #ifndef is a
\* candidate for the cache.
If ==
  /\ Reads("if") \/ Reads("ifdef") \/ Reads("ifndef")
  /\ IF Len(ifdef_stack) >= IFDEF_STACK_SIZE THEN Stop("limit")
     ELSE LET c == IF Line.d = "ifndef" THEN 1 - Value(Line.arg)
                   ELSE Value(Line.arg)
          IN  /\ ifdef_stack' = Append(ifdef_stack, c)
              /\ SkipUnless(c)
              /\ file' = IF Line.d = "ifndef" /\ "BOF" \in next_tok_flags
                         THEN [NextLine EXCEPT !.ifndef_macro = Line.arg]
                         ELSE NextLine
              /\ next_tok_flags' = {}
              /\ UNCHANGED Elsewhere

Else ==
  /\ ReadsOrStopsAt("else")
  /\ IF ifdef_stack = <<>> \/ ifdef_stack[Len(ifdef_stack)] >= 2 THEN Stop("error")
     ELSE LET c == 3 - ifdef_stack[Len(ifdef_stack)]
          IN  /\ ifdef_stack' = [ifdef_stack EXCEPT ![Len(ifdef_stack)] = c]
              /\ SkipUnless(c)
              /\ file' = NextLine
              /\ next_tok_flags' = {}
              /\ UNCHANGED Elsewhere

\* #elif is skipped without a test once a branch was taken.
Elif ==
  /\ ReadsOrStopsAt("elif")
  /\ IF ifdef_stack = <<>> \/ ifdef_stack[Len(ifdef_stack)] >= 2 THEN Stop("error")
     ELSE /\ IF ifdef_stack[Len(ifdef_stack)] = 1
             THEN skip' = 0 /\ UNCHANGED ifdef_stack
             ELSE /\ ifdef_stack' = [ifdef_stack EXCEPT ![Len(ifdef_stack)] = Value(Line.arg)]
                  /\ SkipUnless(Value(Line.arg))
          /\ file' = NextLine
          /\ next_tok_flags' = {}
          /\ UNCHANGED Elsewhere

\* Mutant: #endif compares with the bottom of the stack, not with the file's base.
EndifOfAnyFile ==
  /\ ReadsOrStopsAt("endif")
  /\ IF ifdef_stack = <<>> THEN Stop("error")
     ELSE /\ ifdef_stack' = SubSeq(ifdef_stack, 1, Len(ifdef_stack) - 1)
          /\ skip' = Reading
          /\ file' = NextLine
          /\ next_tok_flags' = {}
          /\ UNCHANGED Elsewhere

\* An #endif that closes the conditionals of a file that started with #ifndef
\* leaves a flag, for the end of file to find if no token comes between.
Endif ==
  /\ ReadsOrStopsAt("endif")
  /\ IF Len(ifdef_stack) <= file.ifdef_stack_ptr THEN Stop("error")
     ELSE LET closes == /\ file.ifndef_macro # NoMacro
                        /\ Len(ifdef_stack) - 1 = file.ifdef_stack_ptr
          IN  /\ ifdef_stack' = SubSeq(ifdef_stack, 1, Len(ifdef_stack) - 1)
              /\ skip' = Reading
              /\ file' = IF closes
                         THEN [NextLine EXCEPT !.ifndef_macro_saved = file.ifndef_macro,
                                               !.ifndef_macro = NoMacro]
                         ELSE NextLine
              /\ next_tok_flags' = IF closes THEN {"ENDIF"} ELSE {}
              /\ UNCHANGED Elsewhere

\* Mutant: preprocess_skip counts #if only.
SkipLineCountsIf ==
  /\ status = "run"
  /\ skip >= 0
  /\ ~AtEnd
  /\ skip = 0 => Line.d \notin {"else", "elif", "endif"}
  /\ skip' = CASE Line.d = "if" -> skip + 1
               [] Line.d = "endif" -> skip - 1
               [] OTHER -> skip
  /\ file' = NextLine
  /\ UNCHANGED <<ifdef_stack, next_tok_flags, Elsewhere>>

\* preprocess_skip: one line of a group that is not taken.
SkipLine ==
  /\ status = "run"
  /\ skip >= 0
  /\ ~AtEnd
  /\ skip = 0 => Line.d \notin {"else", "elif", "endif"}
  /\ skip' = CASE Line.d \in {"if", "ifdef", "ifndef"} -> skip + 1
               [] Line.d = "endif" -> skip - 1
               [] OTHER -> skip
  /\ file' = NextLine
  /\ UNCHANGED <<ifdef_stack, next_tok_flags, Elsewhere>>

\* Mutant: preprocess_skip does not look for the end of file.
SkipSpinsAtEof ==
  /\ status = "run"
  /\ skip # Reading
  /\ AtEnd
  /\ UNCHANGED vars

\* The file ends in a group that is skipped.
EofInSkip ==
  /\ status = "run"
  /\ skip # Reading
  /\ AtEnd
  /\ Stop("error")

(***************************************************************************)
(* Includes                                                                *)
(***************************************************************************)

\* search_cached_include and define_find: need the file not be read again?
\* The entry is found by the name as it was written.
Remembered(kind, n) ==
  \E e \in cached_includes :
    e.inc_type = kind /\ e.filename = n /\ e.ifndef_macro \in defined

\* Where the file is looked for, and the nth place where there is one.
SearchDirs(kind) == (IF kind = "quote" THEN <<file.name[1]>> ELSE <<>>) \o IncludePath
There(kind, n, i) == <<SearchDirs(kind)[i], n>> \in DOMAIN files
NthPlace(kind, n, nth) ==
  {i \in DOMAIN SearchDirs(kind) :
     /\ There(kind, n, i)
     /\ Cardinality({j \in 1 .. i - 1 : There(kind, n, j)}) = nth - 1}

FoundBeside(kind, n) == kind = "quote" /\ <<file.name[1], n>> \in DOMAIN files

SkipInclude ==
  /\ Reads("include") \/ Reads("include_next")
  /\ Remembered(Line.kind, Line.arg)
  /\ file' = NextLine
  /\ next_tok_flags' = {}
  /\ UNCHANGED <<files, status, units, include_stack, ifdef_stack, skip,
                 defined, pushed, cached_includes, out>>

\* #include_next passes over the first file it finds.  The depth is looked at
\* only when the file is not found beside the one that includes it.
Include ==
  LET kind == Line.kind
      n    == Line.arg
      nth  == IF Line.d = "include_next" THEN 2 ELSE 1
  IN
  /\ Reads("include") \/ Reads("include_next")
  /\ ~Remembered(kind, n)
  /\ IF /\ ~(FoundBeside(kind, n) /\ nth = 1)
        /\ Len(include_stack) >= INCLUDE_STACK_SIZE
     THEN Stop("limit")
     ELSE IF NthPlace(kind, n, nth) = {} THEN Stop("error")
     ELSE /\ include_stack' = Append(include_stack, NextLine)
          /\ \E i \in NthPlace(kind, n, nth) :
               file' = Opened(<<SearchDirs(kind)[i], n>>, kind, n)
          /\ next_tok_flags' = {"BOF"}
          /\ UNCHANGED <<files, status, units, ifdef_stack, skip, defined,
                         pushed, cached_includes, out>>

\* add_cached_include: the first entry made for a name stays.
Remember(m) ==
  LET e == [inc_type |-> file.inc_type, filename |-> file.inc_filename,
            ifndef_macro |-> m]
  IN cached_includes' =
       IF \E o \in cached_includes : /\ o.inc_type = e.inc_type
                                     /\ o.filename = e.filename
       THEN cached_includes ELSE cached_includes \cup {e}

\* End of file, of the unit or of an include file.
\* An include file is closed without a look at its conditionals.
EndOfFile ==
  /\ status = "run"
  /\ skip = Reading
  /\ AtEnd
  /\ IF include_stack = <<>>
     THEN /\ status' = "eof"
          /\ next_tok_flags' = {}
          /\ UNCHANGED <<files, units, file, include_stack, ifdef_stack, skip,
                         defined, pushed, cached_includes, out>>
     ELSE /\ IF "ENDIF" \in next_tok_flags
             THEN \E m \in IF file.ifndef_macro_saved = Garbage
                           THEN Macro \cup {NoMacro}
                           ELSE {file.ifndef_macro_saved} : Remember(m)
             ELSE UNCHANGED cached_includes
          /\ file' = include_stack[Len(include_stack)]
          /\ include_stack' = SubSeq(include_stack, 1, Len(include_stack) - 1)
          /\ UNCHANGED <<files, status, units, ifdef_stack, skip,
                         next_tok_flags, defined, pushed, out>>

Next ==
  \/ StartUnit
  \/ EndUnit
  \/ EmitText
  \/ Define
  \/ ErrorDirective
  \/ If
  \/ Else
  \/ Elif
  \/ Endif
  \/ SkipLine
  \/ EofInSkip
  \/ SkipInclude
  \/ Include
  \/ EndOfFile

Spec == Init /\ [][Next]_vars

\* The preprocessor runs on one thread until its unit ends.
FairSpec == Spec /\ WF_vars(Next)

(***************************************************************************)
(* Properties                                                              *)
(***************************************************************************)

\* The files that are open, outermost first.
OpenFiles == Append(include_stack, file)

\* The conditionals of a file lie above those of the files that include it,
\* and none of them is gone while the file is open: #endif and the end of a
\* file never close another file's conditional.
ConditionalsNest ==
  status = "run" =>
    /\ \A i, j \in DOMAIN OpenFiles :
         i <= j => OpenFiles[i].ifdef_stack_ptr <= OpenFiles[j].ifdef_stack_ptr
    /\ file.ifdef_stack_ptr <= Len(ifdef_stack)
    /\ Len(ifdef_stack) <= IFDEF_STACK_SIZE

\* Text is read only where every conditional around it, in this file and in
\* the including ones, chose this branch.
ReadOnlyWhereTaken ==
  status = "run" =>
    \A i \in DOMAIN ifdef_stack :
      i < Len(ifdef_stack) \/ skip = Reading => ifdef_stack[i] \in {1, 3}

\* "reset define stack, but leave -Dsymbols (may be incorrect if they are
\* undefined)" (tcc.c:8500): with -D symbols neither defined nor undefined by
\* the program, each unit starts from the same definitions.
UnitsStartAlike == status = "idle" => defined = Predefined

\* The unit comes to an end: an include chain that comes back to itself runs
\* into the depth limit, a group that is skipped into its #endif or an error.
UnitEnds == (status = "run") ~> (status # "run")
===============================================================================

-------------------------- MODULE PreprocessorProofs --------------------------
(***************************************************************************)
(* Preprocessor for every file system, search path, set of macros and      *)
(* depth limit: types, the nesting of conditionals across files, text read *)
(* only in branches that were chosen, and units that start alike.          *)
(***************************************************************************)
EXTENDS Preprocessor, SequenceTheorems, TLAPS

\* The file system is one of the given ones and every open file is in it.
OpenFilesExist ==
  /\ files \in Systems
  /\ file.name \in DOMAIN files
  /\ \A i \in DOMAIN include_stack : include_stack[i].name \in DOMAIN files

\* ConditionalsNest without the files' being listed in one sequence, at all times.
BasesNest ==
  /\ \A i, j \in DOMAIN include_stack :
       i <= j => include_stack[i].ifdef_stack_ptr <= include_stack[j].ifdef_stack_ptr
  /\ \A i \in DOMAIN include_stack :
       include_stack[i].ifdef_stack_ptr <= file.ifdef_stack_ptr
  /\ file.ifdef_stack_ptr <= Len(ifdef_stack)
  /\ Len(ifdef_stack) <= IFDEF_STACK_SIZE

\* Conditionals under the top one chose the branch they are in, and the top
\* one did too unless lines are being skipped.
BranchesTaken ==
  \A i \in DOMAIN ifdef_stack :
    i < Len(ifdef_stack) \/ skip = Reading => ifdef_stack[i] \in {1, 3}

IInv ==
  /\ TypeOK
  /\ OpenFilesExist
  /\ BasesNest
  /\ BranchesTaken

-----------------------------------------------------------------------------

\* A stack without its top.
LEMMA Popped ==
  ASSUME NEW S, NEW s \in Seq(S), s # <<>>
  PROVE  /\ SubSeq(s, 1, Len(s) - 1) \in Seq(S)
         /\ Len(SubSeq(s, 1, Len(s) - 1)) = Len(s) - 1
         /\ \A i \in 1 .. Len(s) - 1 : SubSeq(s, 1, Len(s) - 1)[i] = s[i]
<1>1. Len(s) \in Nat \ {0}
  OBVIOUS
<1>2. \A i \in 1 .. Len(s) - 1 : s[i] \in S
  OBVIOUS
<1>3. /\ SubSeq(s, 1, Len(s) - 1) \in Seq(S)
      /\ Len(SubSeq(s, 1, Len(s) - 1)) = IF 1 <= Len(s) - 1 THEN (Len(s) - 1) - 1 + 1 ELSE 0
      /\ \A i \in 1 .. (Len(s) - 1) - 1 + 1 : SubSeq(s, 1, Len(s) - 1)[i] = s[1 + i - 1]
  BY <1>1, <1>2, SubSeqProperties
<1>4. (Len(s) - 1) - 1 + 1 = Len(s) - 1 /\ \A i \in Int : 1 + i - 1 = i
  BY <1>1
<1> QED
  BY <1>1, <1>3, <1>4

\* The line being read is a line, and moving past it stays in the file.
LEMMA LineType ==
  ASSUME TypeOK, OpenFilesExist, ~AtEnd
  PROVE  /\ Line \in Lines
         /\ NextLine \in BufferedFile
         /\ NextLine.name = file.name
         /\ NextLine.ifdef_stack_ptr = file.ifdef_stack_ptr
<1>1. Contents \in Seq(Lines)
  BY DEF TypeOK, OpenFilesExist, Contents
<1>2. file.line \in 1 .. Len(Contents)
  BY <1>1 DEF TypeOK, BufferedFile, AtEnd
<1>3. Line \in Lines
  BY <1>1, <1>2 DEF Line
<1>4. file.line + 1 \in Nat \ {0}
  BY <1>1, <1>2
<1>5. file \in BufferedFile
  BY DEF TypeOK
<1>6. /\ NextLine \in BufferedFile
      /\ NextLine.name = file.name
      /\ NextLine.ifdef_stack_ptr = file.ifdef_stack_ptr
  BY <1>4, <1>5 DEF NextLine, BufferedFile
<1> QED
  BY <1>3, <1>6

\* A step that gives up the unit.
LEMMA StopKeepsIInv ==
  ASSUME IInv, NEW how \in {"eof", "error", "limit"}, Stop(how)
  PROVE  IInv'
<1>1. TypeOK'
  BY DEF IInv, Stop, TypeOK
<1>2. OpenFilesExist'
  BY DEF IInv, Stop, OpenFilesExist
<1>3. BasesNest'
  BY DEF IInv, Stop, BasesNest
<1>4. BranchesTaken'
  BY DEF IInv, Stop, BranchesTaken
<1> QED
  BY <1>1, <1>2, <1>3, <1>4 DEF IInv

\* A step within a file: the file's base stays, and the conditionals stay above it.
LEMMA StepInFile ==
  ASSUME IInv,
         UNCHANGED <<files, status, units, include_stack>>,
         file' \in BufferedFile,
         file'.name = file.name,
         file'.ifdef_stack_ptr = file.ifdef_stack_ptr,
         ifdef_stack' \in Seq(0 .. 3),
         file.ifdef_stack_ptr <= Len(ifdef_stack'),
         Len(ifdef_stack') <= IFDEF_STACK_SIZE,
         skip' \in Nat \cup {Reading},
         next_tok_flags' \subseteq {"BOF", "ENDIF"},
         defined' \subseteq Macro,
         pushed' \subseteq Macro,
         UNCHANGED cached_includes,
         out' \in Seq(Text),
         BranchesTaken'
  PROVE  IInv'
<1>1. files' = files /\ status' = status /\ units' = units
      /\ include_stack' = include_stack /\ cached_includes' = cached_includes
  OBVIOUS
<1>2. TypeOK'
  BY <1>1 DEF IInv, TypeOK
<1>3. OpenFilesExist'
  BY <1>1 DEF IInv, OpenFilesExist
<1>4. BasesNest'
  BY <1>1 DEF IInv, BasesNest
<1> QED
  BY <1>2, <1>3, <1>4 DEF IInv

\* A step within a file that touches no conditional.
LEMMA StepOutsideConditionals ==
  ASSUME IInv,
         ~AtEnd,
         UNCHANGED <<files, status, units, include_stack, ifdef_stack, skip>>,
         file' = NextLine,
         next_tok_flags' = {},
         defined' \subseteq Macro,
         pushed' \subseteq Macro,
         UNCHANGED cached_includes,
         out' \in Seq(Text)
  PROVE  IInv'
<1>1. ifdef_stack' = ifdef_stack /\ skip' = skip
  OBVIOUS
<1>2. /\ file' \in BufferedFile
      /\ file'.name = file.name
      /\ file'.ifdef_stack_ptr = file.ifdef_stack_ptr
  BY LineType DEF IInv
<1>3. ifdef_stack' \in Seq(0 .. 3) /\ skip' \in Nat \cup {Reading}
  BY <1>1 DEF IInv, TypeOK
<1>4. /\ file.ifdef_stack_ptr <= Len(ifdef_stack')
      /\ Len(ifdef_stack') <= IFDEF_STACK_SIZE
  BY <1>1 DEF IInv, BasesNest
<1>5. BranchesTaken'
  BY <1>1 DEF IInv, BranchesTaken
<1> QED
  BY <1>2, <1>3, <1>4, <1>5, StepInFile

-----------------------------------------------------------------------------

LEMMA InitIInv ==
  ASSUME Init
  PROVE  IInv
<1> USE PreprocessorAssumption
<1>1. files \in Systems /\ Main \in DOMAIN files /\ DOMAIN files \subseteq File
      /\ \A f \in DOMAIN files : files[f] \in Seq(Lines)
  BY DEF Init
<1>2. Main \in File /\ Main[2] \in Name
  BY <1>1 DEF File
<1>3. file \in BufferedFile /\ file.name = Main /\ file.ifdef_stack_ptr = 0
  BY <1>2 DEF Init, Opened, BufferedFile
<1>4. TypeOK
  BY <1>1, <1>3 DEF Init, TypeOK, Reading
<1>5. OpenFilesExist
  BY <1>1, <1>3 DEF Init, OpenFilesExist
<1>6. BasesNest
  BY <1>3 DEF Init, BasesNest
<1>7. BranchesTaken
  BY DEF Init, BranchesTaken
<1> QED
  BY <1>4, <1>5, <1>6, <1>7 DEF IInv

LEMMA StartUnitKeepsIInv ==
  ASSUME IInv, StartUnit
  PROVE  IInv'
<1> USE PreprocessorAssumption
<1>1. files' = files /\ defined' = defined /\ cached_includes' = cached_includes
  BY DEF StartUnit
<1>2. Main \in DOMAIN files /\ Main \in File /\ Main[2] \in Name
  BY DEF IInv, OpenFilesExist, File
<1>3. Len(ifdef_stack) \in Nat
  BY DEF IInv, TypeOK
<1>4. /\ file' \in BufferedFile
      /\ file'.name = Main
      /\ file'.ifdef_stack_ptr = 0
  BY <1>2, <1>3 DEF StartUnit, Opened, BufferedFile
<1>5. TypeOK'
  BY <1>1, <1>4 DEF IInv, StartUnit, TypeOK, Reading
<1>6. OpenFilesExist'
  BY <1>1, <1>2, <1>4 DEF IInv, StartUnit, OpenFilesExist
<1>7. BasesNest'
  BY <1>4 DEF StartUnit, BasesNest
<1>8. BranchesTaken'
  BY DEF StartUnit, BranchesTaken
<1> QED
  BY <1>5, <1>6, <1>7, <1>8 DEF IInv

LEMMA EndUnitKeepsIInv ==
  ASSUME IInv, EndUnit
  PROVE  IInv'
<1>1. TypeOK'
  BY DEF IInv, EndUnit, TypeOK
<1>2. OpenFilesExist'
  BY DEF IInv, EndUnit, OpenFilesExist
<1>3. BasesNest'
  BY DEF IInv, EndUnit, BasesNest
<1>4. BranchesTaken'
  BY DEF IInv, EndUnit, BranchesTaken
<1> QED
  BY <1>1, <1>2, <1>3, <1>4 DEF IInv

LEMMA EmitTextKeepsIInv ==
  ASSUME IInv, EmitText
  PROVE  IInv'
<1>1. ~AtEnd /\ Line \in Lines /\ Line.d = "text"
  BY LineType DEF IInv, EmitText, Reads
<1>2. Line.arg \in Text
  BY <1>1 DEF Lines
<1>3. out' \in Seq(Text)
  BY <1>2 DEF IInv, TypeOK, EmitText
<1> QED
  BY <1>1, <1>3, StepOutsideConditionals DEF IInv, TypeOK, EmitText

LEMMA DefineKeepsIInv ==
  ASSUME IInv, Define
  PROVE  IInv'
<1>1. ~AtEnd /\ Line \in Lines /\ Line.d \in {"define", "undef"}
  BY LineType DEF IInv, Define, Reads
<1>2. Line.arg \in Macro
  BY <1>1 DEF Lines
<1>3. defined' \subseteq Macro /\ pushed' \subseteq Macro
  BY <1>2 DEF IInv, TypeOK, Define
<1> QED
  BY <1>1, <1>3, StepOutsideConditionals DEF IInv, TypeOK, Define

LEMMA SkipIncludeKeepsIInv ==
  ASSUME IInv, SkipInclude
  PROVE  IInv'
<1>1. ~AtEnd
  BY DEF SkipInclude, Reads
<1> QED
  BY <1>1, StepOutsideConditionals DEF IInv, TypeOK, SkipInclude

-----------------------------------------------------------------------------

LEMMA ValueType == \A m : Value(m) \in {0, 1}
BY DEF Value

\* A conditional's branch is read only when its test holds.
LEMMA SkipUnlessType ==
  ASSUME NEW c \in 0 .. 3, SkipUnless(c)
  PROVE  /\ skip' \in Nat \cup {Reading}
         /\ skip' = Reading => c \in {1, 3}
BY DEF SkipUnless, Reading

LEMMA IfKeepsIInv ==
  ASSUME IInv, If
  PROVE  IInv'
<1>1. CASE Stop("limit")
  BY <1>1, StopKeepsIInv
<1>2. CASE ~Stop("limit")
  <2> DEFINE c == IF Line.d = "ifndef" THEN 1 - Value(Line.arg) ELSE Value(Line.arg)
             f == IF Line.d = "ifndef" /\ "BOF" \in next_tok_flags
                  THEN [NextLine EXCEPT !.ifndef_macro = Line.arg] ELSE NextLine
  <2>1. /\ ~(Len(ifdef_stack) >= IFDEF_STACK_SIZE)
        /\ ifdef_stack' = Append(ifdef_stack, c)
        /\ SkipUnless(c)
        /\ file' = f
        /\ next_tok_flags' = {}
        /\ UNCHANGED Elsewhere
    BY <1>2 DEF If
  <2>2. ~AtEnd /\ skip = Reading /\ Line.d \in {"if", "ifdef", "ifndef"}
    BY DEF If, Reads
  <2>3. Line \in Lines /\ NextLine \in BufferedFile /\ NextLine.name = file.name
        /\ NextLine.ifdef_stack_ptr = file.ifdef_stack_ptr
    BY <2>2, LineType DEF IInv
  <2>4. Line.arg \in Macro
    BY <2>2, <2>3 DEF Lines
  <2>5. f \in BufferedFile /\ f.name = file.name
        /\ f.ifdef_stack_ptr = file.ifdef_stack_ptr
    BY <2>3, <2>4 DEF BufferedFile
  <2>6. c \in 0 .. 3
    BY ValueType
  <2> HIDE DEF c, f
  <2>7. ifdef_stack \in Seq(0 .. 3) /\ IFDEF_STACK_SIZE \in Nat
        /\ file.ifdef_stack_ptr \in Nat
    BY PreprocessorAssumption DEF IInv, TypeOK, BufferedFile
  <2>8. ifdef_stack' \in Seq(0 .. 3) /\ Len(ifdef_stack') = Len(ifdef_stack) + 1
    BY <2>1, <2>6, <2>7
  <2>9. BranchesTaken'
    <3> SUFFICES ASSUME NEW i \in DOMAIN ifdef_stack',
                        i < Len(ifdef_stack') \/ skip' = Reading
                 PROVE  ifdef_stack'[i] \in {1, 3}
      BY DEF BranchesTaken
    <3>1. CASE i \in DOMAIN ifdef_stack
      BY <3>1, <2>1, <2>2, <2>6, <2>7 DEF IInv, BranchesTaken
    <3>2. CASE i = Len(ifdef_stack) + 1
      BY <3>2, <2>1, <2>6, <2>7, <2>8, SkipUnlessType
    <3> QED
      BY <3>1, <3>2, <2>7, <2>8
  <2>10. /\ file.ifdef_stack_ptr <= Len(ifdef_stack')
         /\ Len(ifdef_stack') <= IFDEF_STACK_SIZE
    BY <2>1, <2>7, <2>8 DEF IInv, BasesNest
  <2>11. skip' \in Nat \cup {Reading}
    BY <2>1, <2>6, SkipUnlessType
  <2>12. defined' \subseteq Macro /\ pushed' \subseteq Macro /\ out' \in Seq(Text)
         /\ UNCHANGED <<files, status, units, include_stack>> /\ UNCHANGED cached_includes
    BY <2>1 DEF IInv, TypeOK, Elsewhere
  <2>13. /\ file' \in BufferedFile
         /\ file'.name = file.name
         /\ file'.ifdef_stack_ptr = file.ifdef_stack_ptr
         /\ next_tok_flags' \subseteq {"BOF", "ENDIF"}
    BY <2>1, <2>5
  <2> QED
    BY <2>8, <2>9, <2>10, <2>11, <2>12, <2>13, StepInFile
<1> QED
  BY <1>1, <1>2

\* #else and #elif change the top of the stack only.
LEMMA TopChangeKeepsIInv ==
  ASSUME IInv, ~AtEnd, ifdef_stack # <<>>,
         NEW c \in 0 .. 3,
         ifdef_stack' = [ifdef_stack EXCEPT ![Len(ifdef_stack)] = c],
         skip' \in Nat \cup {Reading},
         skip' = Reading => c \in {1, 3},
         file' = NextLine,
         next_tok_flags' = {},
         UNCHANGED Elsewhere
  PROVE  IInv'
<1>1. ifdef_stack \in Seq(0 .. 3) /\ Len(ifdef_stack) \in DOMAIN ifdef_stack
  BY DEF IInv, TypeOK
<1>2. ifdef_stack' \in Seq(0 .. 3) /\ Len(ifdef_stack') = Len(ifdef_stack)
  BY <1>1
<1>3. BranchesTaken'
  <2> SUFFICES ASSUME NEW i \in DOMAIN ifdef_stack',
                      i < Len(ifdef_stack') \/ skip' = Reading
               PROVE  ifdef_stack'[i] \in {1, 3}
    BY DEF BranchesTaken
  <2>1. CASE i < Len(ifdef_stack)
    BY <2>1, <1>1, <1>2 DEF IInv, BranchesTaken
  <2>2. CASE i = Len(ifdef_stack)
    BY <2>2, <1>1, <1>2
  <2> QED
    BY <2>1, <2>2, <1>1, <1>2
<1>4. /\ file' \in BufferedFile
      /\ file'.name = file.name
      /\ file'.ifdef_stack_ptr = file.ifdef_stack_ptr
  BY LineType DEF IInv
<1>5. /\ file.ifdef_stack_ptr <= Len(ifdef_stack')
      /\ Len(ifdef_stack') <= IFDEF_STACK_SIZE
  BY <1>2 DEF IInv, BasesNest
<1>6. defined' \subseteq Macro /\ pushed' \subseteq Macro /\ out' \in Seq(Text)
      /\ UNCHANGED <<files, status, units, include_stack>> /\ UNCHANGED cached_includes
  BY DEF IInv, TypeOK, Elsewhere
<1>7. next_tok_flags' \subseteq {"BOF", "ENDIF"}
  OBVIOUS
<1> QED
  BY <1>2, <1>3, <1>4, <1>5, <1>6, <1>7, StepInFile

LEMMA ElseKeepsIInv ==
  ASSUME IInv, Else
  PROVE  IInv'
<1>1. CASE Stop("error")
  BY <1>1, StopKeepsIInv
<1>2. CASE ~Stop("error")
  <2> DEFINE c == 3 - ifdef_stack[Len(ifdef_stack)]
  <2>1. /\ ifdef_stack # <<>>
        /\ ifdef_stack' = [ifdef_stack EXCEPT ![Len(ifdef_stack)] = c]
        /\ SkipUnless(c)
        /\ file' = NextLine
        /\ next_tok_flags' = {}
        /\ UNCHANGED Elsewhere
        /\ ~AtEnd
    BY <1>2 DEF Else, ReadsOrStopsAt
  <2>2. ifdef_stack \in Seq(0 .. 3)
    BY DEF IInv, TypeOK
  <2>3. ifdef_stack[Len(ifdef_stack)] \in 0 .. 3
    BY <2>1, <2>2
  <2>4. c \in 0 .. 3
    BY <2>3
  <2> HIDE DEF c
  <2>5. skip' \in Nat \cup {Reading} /\ (skip' = Reading => c \in {1, 3})
    BY <2>1, <2>4, SkipUnlessType
  <2> QED
    BY <2>1, <2>4, <2>5, TopChangeKeepsIInv
<1> QED
  BY <1>1, <1>2

LEMMA ElifKeepsIInv ==
  ASSUME IInv, Elif
  PROVE  IInv'
<1>1. CASE Stop("error")
  BY <1>1, StopKeepsIInv
<1>2. CASE ~Stop("error") /\ ifdef_stack[Len(ifdef_stack)] = 1
  <2>1. /\ ifdef_stack # <<>>
        /\ skip' = 0
        /\ ifdef_stack' = ifdef_stack
        /\ file' = NextLine
        /\ next_tok_flags' = {}
        /\ UNCHANGED Elsewhere
        /\ ~AtEnd
    BY <1>2 DEF Elif, ReadsOrStopsAt
  <2>2. ifdef_stack \in Seq(0 .. 3)
    BY DEF IInv, TypeOK
  <2>3. ifdef_stack' = [ifdef_stack EXCEPT ![Len(ifdef_stack)] = 1]
    BY <1>2, <2>1, <2>2
  <2>4. skip' \in Nat \cup {Reading} /\ (skip' = Reading => 1 \in {1, 3})
    BY <2>1
  <2> QED
    BY <2>1, <2>3, <2>4, TopChangeKeepsIInv
<1>3. CASE ~Stop("error") /\ ifdef_stack[Len(ifdef_stack)] # 1
  <2> DEFINE c == Value(Line.arg)
  <2>1. /\ ifdef_stack # <<>>
        /\ ifdef_stack' = [ifdef_stack EXCEPT ![Len(ifdef_stack)] = c]
        /\ SkipUnless(c)
        /\ file' = NextLine
        /\ next_tok_flags' = {}
        /\ UNCHANGED Elsewhere
        /\ ~AtEnd
    BY <1>3 DEF Elif, ReadsOrStopsAt
  <2>2. c \in 0 .. 3
    BY ValueType
  <2> HIDE DEF c
  <2>3. skip' \in Nat \cup {Reading} /\ (skip' = Reading => c \in {1, 3})
    BY <2>1, <2>2, SkipUnlessType
  <2> QED
    BY <2>1, <2>2, <2>3, TopChangeKeepsIInv
<1> QED
  BY <1>1, <1>2, <1>3

LEMMA EndifKeepsIInv ==
  ASSUME IInv, Endif
  PROVE  IInv'
<1>1. CASE Stop("error")
  BY <1>1, StopKeepsIInv
<1>2. CASE ~Stop("error")
  <2> DEFINE closes == /\ file.ifndef_macro # NoMacro
                       /\ Len(ifdef_stack) - 1 = file.ifdef_stack_ptr
             f == IF closes
                  THEN [NextLine EXCEPT !.ifndef_macro_saved = file.ifndef_macro,
                                        !.ifndef_macro = NoMacro]
                  ELSE NextLine
  <2>1. /\ ~(Len(ifdef_stack) <= file.ifdef_stack_ptr)
        /\ ifdef_stack' = SubSeq(ifdef_stack, 1, Len(ifdef_stack) - 1)
        /\ skip' = Reading
        /\ file' = f
        /\ next_tok_flags' \subseteq {"BOF", "ENDIF"}
        /\ UNCHANGED Elsewhere
        /\ ~AtEnd
    BY <1>2 DEF Endif, ReadsOrStopsAt
  <2>2. NextLine \in BufferedFile /\ NextLine.name = file.name
        /\ NextLine.ifdef_stack_ptr = file.ifdef_stack_ptr
    BY <2>1, LineType DEF IInv
  <2>3. file.ifndef_macro \in Macro \cup {NoMacro}
    BY DEF IInv, TypeOK, BufferedFile
  <2>4. f \in BufferedFile /\ f.name = file.name
        /\ f.ifdef_stack_ptr = file.ifdef_stack_ptr
    BY <2>2, <2>3 DEF BufferedFile
  <2> HIDE DEF closes, f
  <2>5. ifdef_stack \in Seq(0 .. 3) /\ IFDEF_STACK_SIZE \in Nat
        /\ file.ifdef_stack_ptr \in Nat
    BY PreprocessorAssumption DEF IInv, TypeOK, BufferedFile
  <2>6. /\ ifdef_stack' \in Seq(0 .. 3)
        /\ Len(ifdef_stack') = Len(ifdef_stack) - 1
        /\ \A i \in DOMAIN ifdef_stack' : ifdef_stack'[i] = ifdef_stack[i]
    <3>1. ifdef_stack # <<>>
      BY <2>1, <2>5
    <3> DEFINE r == SubSeq(ifdef_stack, 1, Len(ifdef_stack) - 1)
    <3>2. /\ r \in Seq(0 .. 3)
          /\ Len(r) = Len(ifdef_stack) - 1
          /\ \A i \in 1 .. Len(ifdef_stack) - 1 : r[i] = ifdef_stack[i]
      BY <2>5, <3>1, Popped
    <3>3. ifdef_stack' = r
      BY <2>1
    <3> HIDE DEF r
    <3> QED
      BY <3>2, <3>3
  <2>7. BranchesTaken'
    <3> SUFFICES ASSUME NEW i \in DOMAIN ifdef_stack'
                 PROVE  ifdef_stack'[i] \in {1, 3}
      BY DEF BranchesTaken
    <3>1. i \in DOMAIN ifdef_stack /\ i < Len(ifdef_stack)
      BY <2>5, <2>6
    <3> QED
      BY <3>1, <2>6 DEF IInv, BranchesTaken
  <2>8. /\ file.ifdef_stack_ptr <= Len(ifdef_stack')
        /\ Len(ifdef_stack') <= IFDEF_STACK_SIZE
    BY <2>1, <2>5, <2>6 DEF IInv, BasesNest
  <2>9. defined' \subseteq Macro /\ pushed' \subseteq Macro /\ out' \in Seq(Text)
        /\ UNCHANGED <<files, status, units, include_stack>> /\ UNCHANGED cached_includes
    BY <2>1 DEF IInv, TypeOK, Elsewhere
  <2>10. /\ file' \in BufferedFile
         /\ file'.name = file.name
         /\ file'.ifdef_stack_ptr = file.ifdef_stack_ptr
         /\ skip' \in Nat \cup {Reading}
    BY <2>1, <2>4
  <2> QED
    BY <2>1, <2>6, <2>7, <2>8, <2>9, <2>10, StepInFile
<1> QED
  BY <1>1, <1>2

LEMMA SkipLineKeepsIInv ==
  ASSUME IInv, SkipLine
  PROVE  IInv'
<1>1. /\ ~AtEnd
      /\ skip >= 0
      /\ skip = 0 => Line.d \notin {"else", "elif", "endif"}
      /\ skip' = CASE Line.d \in {"if", "ifdef", "ifndef"} -> skip + 1
                   [] Line.d = "endif" -> skip - 1
                   [] OTHER -> skip
      /\ file' = NextLine
      /\ ifdef_stack' = ifdef_stack
      /\ next_tok_flags' = next_tok_flags
      /\ UNCHANGED Elsewhere
  BY DEF SkipLine
<1>2. skip \in Nat
  BY <1>1 DEF IInv, TypeOK, Reading
<1>3. skip' \in Nat
  <2>1. CASE Line.d \in {"if", "ifdef", "ifndef"}
    BY <2>1, <1>1, <1>2
  <2>2. CASE Line.d = "endif"
    BY <2>2, <1>1, <1>2
  <2>3. CASE Line.d \notin {"if", "ifdef", "ifndef", "endif"}
    BY <2>3, <1>1, <1>2
  <2> QED
    BY <2>1, <2>2, <2>3
<1>4. skip' # Reading /\ skip # Reading
  BY <1>2, <1>3 DEF Reading
<1>5. BranchesTaken'
  BY <1>1, <1>4 DEF IInv, BranchesTaken
<1>6. /\ file' \in BufferedFile
      /\ file'.name = file.name
      /\ file'.ifdef_stack_ptr = file.ifdef_stack_ptr
  BY <1>1, LineType DEF IInv
<1>7. /\ file.ifdef_stack_ptr <= Len(ifdef_stack')
      /\ Len(ifdef_stack') <= IFDEF_STACK_SIZE
  BY <1>1 DEF IInv, BasesNest
<1>8. defined' \subseteq Macro /\ pushed' \subseteq Macro /\ out' \in Seq(Text)
      /\ UNCHANGED <<files, status, units, include_stack>> /\ UNCHANGED cached_includes
      /\ ifdef_stack' \in Seq(0 .. 3) /\ next_tok_flags' \subseteq {"BOF", "ENDIF"}
  BY <1>1 DEF IInv, TypeOK, Elsewhere
<1> QED
  BY <1>3, <1>5, <1>6, <1>7, <1>8, StepInFile

-----------------------------------------------------------------------------

LEMMA IncludeKeepsIInv ==
  ASSUME IInv, Include
  PROVE  IInv'
<1> DEFINE kind == Line.kind
           n    == Line.arg
           nth  == IF Line.d = "include_next" THEN 2 ELSE 1
<1>1. CASE Stop("limit")
  BY <1>1, StopKeepsIInv
<1>2. CASE Stop("error")
  BY <1>2, StopKeepsIInv
<1>3. CASE ~Stop("limit") /\ ~Stop("error")
  <2>1. PICK i \in NthPlace(kind, n, nth) :
               file' = Opened(<<SearchDirs(kind)[i], n>>, kind, n)
    BY <1>3 DEF Include
  <2>2. /\ include_stack' = Append(include_stack, NextLine)
        /\ next_tok_flags' = {"BOF"}
        /\ UNCHANGED <<files, status, units, ifdef_stack, skip, defined,
                       pushed, cached_includes, out>>
        /\ ~AtEnd
        /\ Line.d \in {"include", "include_next"}
    BY <1>3 DEF Include, Reads
  <2>3. /\ files' = files /\ status' = status /\ units' = units
        /\ ifdef_stack' = ifdef_stack /\ skip' = skip /\ defined' = defined
        /\ pushed' = pushed /\ cached_includes' = cached_includes /\ out' = out
    BY <2>2
  <2>4. Line \in Lines /\ NextLine \in BufferedFile /\ NextLine.name = file.name
        /\ NextLine.ifdef_stack_ptr = file.ifdef_stack_ptr
    BY <2>2, LineType DEF IInv
  <2>5. kind \in {"quote", "angle"} /\ n \in Name
    BY <2>2, <2>4 DEF Lines
  <2>6. <<SearchDirs(kind)[i], n>> \in DOMAIN files
    BY <2>1 DEF NthPlace, There
  <2> DEFINE g == <<SearchDirs(kind)[i], n>>
  <2>7. g \in File /\ g \in DOMAIN files
    BY <2>6 DEF IInv, TypeOK
  <2> HIDE DEF g
  <2>8. ifdef_stack \in Seq(0 .. 3) /\ Len(ifdef_stack) \in Nat
    BY DEF IInv, TypeOK
  <2>9. file' = Opened(g, kind, n)
    BY <2>1 DEF g
  <2> HIDE DEF kind, n, nth
  <2>10. /\ file' \in BufferedFile
         /\ file'.name = g
         /\ file'.ifdef_stack_ptr = Len(ifdef_stack)
    BY <2>5, <2>7, <2>8, <2>9 DEF Opened, BufferedFile
  <2>11. include_stack \in Seq(BufferedFile)
    BY DEF IInv, TypeOK
  <2>12. /\ include_stack' \in Seq(BufferedFile)
         /\ Len(include_stack') = Len(include_stack) + 1
         /\ \A k \in DOMAIN include_stack : include_stack'[k] = include_stack[k]
         /\ include_stack'[Len(include_stack) + 1] = NextLine
         /\ DOMAIN include_stack' = DOMAIN include_stack \cup {Len(include_stack) + 1}
    BY <2>2, <2>4, <2>11
  <2>13. TypeOK'
    BY <2>2, <2>3, <2>10, <2>12 DEF IInv, TypeOK
  <2>14. OpenFilesExist'
    <3>1. file'.name \in DOMAIN files' /\ files' \in Systems
      BY <2>3, <2>7, <2>10 DEF IInv, OpenFilesExist
    <3>2. \A k \in DOMAIN include_stack' : include_stack'[k].name \in DOMAIN files'
      BY <2>3, <2>4, <2>12 DEF IInv, OpenFilesExist
    <3> QED
      BY <3>1, <3>2 DEF OpenFilesExist
  <2>15. BasesNest'
    <3>1. /\ \A k \in DOMAIN include_stack :
               /\ include_stack[k].ifdef_stack_ptr \in Nat
               /\ include_stack[k].ifdef_stack_ptr <= file.ifdef_stack_ptr
          /\ file.ifdef_stack_ptr <= Len(ifdef_stack)
          /\ file.ifdef_stack_ptr \in Nat
      <4>1. \A k \in DOMAIN include_stack : include_stack[k] \in BufferedFile
        BY <2>11
      <4>2. file \in BufferedFile
        BY DEF IInv, TypeOK
      <4>3. /\ \A k \in DOMAIN include_stack : include_stack[k].ifdef_stack_ptr \in Nat
            /\ file.ifdef_stack_ptr \in Nat
        BY <4>1, <4>2 DEF BufferedFile
      <4> QED
        BY <4>3 DEF IInv, BasesNest
    <3>2. \A k \in DOMAIN include_stack' :
            include_stack'[k].ifdef_stack_ptr <= file.ifdef_stack_ptr
      BY <3>1, <2>4, <2>12
    <3>3. \A k \in DOMAIN include_stack' :
            include_stack'[k].ifdef_stack_ptr <= file'.ifdef_stack_ptr
      <4>1. \A k \in DOMAIN include_stack' : include_stack'[k].ifdef_stack_ptr \in Nat
        BY <3>1, <2>4, <2>12
      <4> QED
        BY <4>1, <3>1, <3>2, <2>8, <2>10
    <3>4. \A k, l \in DOMAIN include_stack' :
            k <= l => include_stack'[k].ifdef_stack_ptr <= include_stack'[l].ifdef_stack_ptr
      <4> SUFFICES ASSUME NEW k \in DOMAIN include_stack',
                          NEW l \in DOMAIN include_stack', k <= l
                   PROVE  include_stack'[k].ifdef_stack_ptr
                            <= include_stack'[l].ifdef_stack_ptr
        OBVIOUS
      <4>1. CASE l \in DOMAIN include_stack
        <5>1. k \in DOMAIN include_stack
          BY <4>1, <2>11, <2>12
        <5> QED
          BY <4>1, <5>1, <2>12 DEF IInv, BasesNest
      <4>2. CASE l = Len(include_stack) + 1
        BY <4>2, <3>2, <2>4, <2>12
      <4> QED
        BY <4>1, <4>2, <2>12
    <3>5. file'.ifdef_stack_ptr <= Len(ifdef_stack') /\ Len(ifdef_stack') <= IFDEF_STACK_SIZE
      BY <2>3, <2>8, <2>10 DEF IInv, BasesNest
    <3> QED
      BY <3>3, <3>4, <3>5 DEF BasesNest
  <2>16. BranchesTaken'
    BY <2>3 DEF IInv, BranchesTaken
  <2> QED
    BY <2>13, <2>14, <2>15, <2>16 DEF IInv
<1> QED
  BY <1>1, <1>2, <1>3

\* The include cache keeps its type.
LEMMA RememberType ==
  ASSUME TypeOK, NEW m \in Macro \cup {NoMacro}, Remember(m)
  PROVE  cached_includes' \subseteq CachedInclude
<1> DEFINE e == [inc_type |-> file.inc_type, filename |-> file.inc_filename,
                 ifndef_macro |-> m]
<1>1. e \in CachedInclude
  BY DEF TypeOK, BufferedFile, CachedInclude
<1> HIDE DEF e
<1>2. cached_includes' \in {cached_includes, cached_includes \cup {e}}
  BY DEF Remember, e
<1> QED
  BY <1>1, <1>2 DEF TypeOK

LEMMA EndOfFileKeepsIInv ==
  ASSUME IInv, EndOfFile
  PROVE  IInv'
<1>1. CASE include_stack = <<>>
  <2>1. /\ status' = "eof" /\ next_tok_flags' = {}
        /\ files' = files /\ units' = units /\ file' = file
        /\ include_stack' = include_stack /\ ifdef_stack' = ifdef_stack
        /\ skip' = skip /\ defined' = defined /\ pushed' = pushed
        /\ cached_includes' = cached_includes /\ out' = out
    BY <1>1 DEF EndOfFile
  <2>2. TypeOK'
    BY <2>1 DEF IInv, TypeOK
  <2>3. OpenFilesExist'
    BY <2>1 DEF IInv, OpenFilesExist
  <2>4. BasesNest'
    BY <2>1 DEF IInv, BasesNest
  <2>5. BranchesTaken'
    BY <2>1 DEF IInv, BranchesTaken
  <2> QED
    BY <2>2, <2>3, <2>4, <2>5 DEF IInv
<1>2. CASE include_stack # <<>>
  <2>1. /\ file' = include_stack[Len(include_stack)]
        /\ include_stack' = SubSeq(include_stack, 1, Len(include_stack) - 1)
        /\ files' = files /\ status' = status /\ units' = units
        /\ ifdef_stack' = ifdef_stack /\ skip' = skip
        /\ next_tok_flags' = next_tok_flags /\ defined' = defined
        /\ pushed' = pushed /\ out' = out
    BY <1>2 DEF EndOfFile
  <2>2. cached_includes' \subseteq CachedInclude
    <3>1. CASE cached_includes' = cached_includes
      BY <3>1 DEF IInv, TypeOK
    <3>2. CASE cached_includes' # cached_includes
      <4>1. \E m \in IF file.ifndef_macro_saved = Garbage
                     THEN Macro \cup {NoMacro}
                     ELSE {file.ifndef_macro_saved} : Remember(m)
        BY <1>2, <3>2 DEF EndOfFile
      <4>2. file.ifndef_macro_saved \in Macro \cup {NoMacro, Garbage}
        BY DEF IInv, TypeOK, BufferedFile
      <4>3. \E m \in Macro \cup {NoMacro} : Remember(m)
        BY <4>1, <4>2
      <4> QED
        BY <4>3, RememberType DEF IInv
    <3> QED
      BY <3>1, <3>2
  <2>3. include_stack \in Seq(BufferedFile) /\ Len(include_stack) \in DOMAIN include_stack
    BY <1>2 DEF IInv, TypeOK
  <2>4. /\ include_stack' \in Seq(BufferedFile)
        /\ Len(include_stack') = Len(include_stack) - 1
        /\ \A k \in DOMAIN include_stack' :
             /\ k \in DOMAIN include_stack
             /\ k <= Len(include_stack)
             /\ include_stack'[k] = include_stack[k]
    <3> DEFINE r == SubSeq(include_stack, 1, Len(include_stack) - 1)
    <3>1. /\ r \in Seq(BufferedFile)
          /\ Len(r) = Len(include_stack) - 1
          /\ \A k \in 1 .. Len(include_stack) - 1 : r[k] = include_stack[k]
      BY <1>2, <2>3, Popped
    <3>2. include_stack' = r
      BY <2>1
    <3> HIDE DEF r
    <3> QED
      BY <2>3, <3>1, <3>2
  <2>5. file' \in BufferedFile
    BY <2>1, <2>3
  <2>6. TypeOK'
    BY <2>1, <2>2, <2>4, <2>5 DEF IInv, TypeOK
  <2>7. OpenFilesExist'
    BY <2>1, <2>3, <2>4 DEF IInv, OpenFilesExist
  <2>8. BasesNest'
    <3>1. \A k, l \in DOMAIN include_stack :
            k <= l => include_stack[k].ifdef_stack_ptr <= include_stack[l].ifdef_stack_ptr
      BY DEF IInv, BasesNest
    <3>2. \A k, l \in DOMAIN include_stack' :
            k <= l => include_stack'[k].ifdef_stack_ptr <= include_stack'[l].ifdef_stack_ptr
      BY <3>1, <2>4
    <3>3. \A k \in DOMAIN include_stack' :
            include_stack'[k].ifdef_stack_ptr <= file'.ifdef_stack_ptr
      BY <3>1, <2>1, <2>3, <2>4
    <3>4. file'.ifdef_stack_ptr <= Len(ifdef_stack')
      <4>1. file'.ifdef_stack_ptr <= file.ifdef_stack_ptr
        BY <2>1, <2>3 DEF IInv, BasesNest
      <4>2. file.ifdef_stack_ptr <= Len(ifdef_stack) /\ Len(ifdef_stack) \in Nat
            /\ file.ifdef_stack_ptr \in Nat /\ file'.ifdef_stack_ptr \in Nat
        BY <2>5 DEF IInv, BasesNest, TypeOK, BufferedFile
      <4> QED
        BY <4>1, <4>2, <2>1
    <3>5. Len(ifdef_stack') <= IFDEF_STACK_SIZE
      BY <2>1 DEF IInv, BasesNest
    <3> QED
      BY <3>2, <3>3, <3>4, <3>5 DEF BasesNest
  <2>9. BranchesTaken'
    BY <2>1 DEF IInv, BranchesTaken
  <2> QED
    BY <2>6, <2>7, <2>8, <2>9 DEF IInv
<1> QED
  BY <1>1, <1>2

LEMMA NextKeepsIInv ==
  ASSUME IInv, [Next]_vars
  PROVE  IInv'
<1>1. CASE StartUnit
  BY <1>1, StartUnitKeepsIInv
<1>2. CASE EndUnit
  BY <1>2, EndUnitKeepsIInv
<1>3. CASE EmitText
  BY <1>3, EmitTextKeepsIInv
<1>4. CASE Define
  BY <1>4, DefineKeepsIInv
<1>5. CASE ErrorDirective
  BY <1>5, StopKeepsIInv DEF ErrorDirective
<1>6. CASE If
  BY <1>6, IfKeepsIInv
<1>7. CASE Else
  BY <1>7, ElseKeepsIInv
<1>8. CASE Elif
  BY <1>8, ElifKeepsIInv
<1>9. CASE Endif
  BY <1>9, EndifKeepsIInv
<1>10. CASE SkipLine
  BY <1>10, SkipLineKeepsIInv
<1>11. CASE EofInSkip
  BY <1>11, StopKeepsIInv DEF EofInSkip
<1>12. CASE SkipInclude
  BY <1>12, SkipIncludeKeepsIInv
<1>13. CASE Include
  BY <1>13, IncludeKeepsIInv
<1>14. CASE EndOfFile
  BY <1>14, EndOfFileKeepsIInv
<1>15. CASE UNCHANGED vars
  <2>1. TypeOK'
    BY <1>15 DEF IInv, TypeOK, vars
  <2>2. OpenFilesExist'
    BY <1>15 DEF IInv, OpenFilesExist, vars
  <2>3. BasesNest'
    BY <1>15 DEF IInv, BasesNest, vars
  <2>4. BranchesTaken'
    BY <1>15 DEF IInv, BranchesTaken, vars
  <2> QED
    BY <2>1, <2>2, <2>3, <2>4 DEF IInv
<1> QED
  BY <1>1, <1>2, <1>3, <1>4, <1>5, <1>6, <1>7, <1>8, <1>9, <1>10, <1>11,
     <1>12, <1>13, <1>14, <1>15 DEF Next

LEMMA SpecIInv == Spec => []IInv
<1>1. Init => IInv
  BY InitIInv
<1>2. IInv /\ [Next]_vars => IInv'
  BY NextKeepsIInv
<1> QED
  BY <1>1, <1>2, PTL DEF Spec

-----------------------------------------------------------------------------

\* Every variable of the preprocessor keeps its type; in particular the
\* entries of ifdef_stack stay two-bit numbers under #else's ^= 3.
THEOREM TypeCorrect == Spec => []TypeOK
<1>1. IInv => TypeOK
  BY DEF IInv
<1> QED
  BY <1>1, SpecIInv, PTL

\* No #endif and no end of file closes a conditional of an including file, and
\* the stack never outgrows ifdef_stack, for every file system.
THEOREM ConditionalsStayInTheirFile == Spec => []ConditionalsNest
<1>1. IInv => ConditionalsNest
  <2> SUFFICES ASSUME IInv PROVE ConditionalsNest
    OBVIOUS
  <2>1. include_stack \in Seq(BufferedFile) /\ file \in BufferedFile
    BY DEF IInv, TypeOK
  <2>2. /\ DOMAIN OpenFiles = DOMAIN include_stack \cup {Len(include_stack) + 1}
        /\ \A i \in DOMAIN include_stack :
             OpenFiles[i] = include_stack[i] /\ i <= Len(include_stack)
        /\ OpenFiles[Len(include_stack) + 1] = file
    BY <2>1 DEF OpenFiles
  <2>3. ASSUME NEW i \in DOMAIN OpenFiles, NEW j \in DOMAIN OpenFiles, i <= j
        PROVE  OpenFiles[i].ifdef_stack_ptr <= OpenFiles[j].ifdef_stack_ptr
    <3>1. CASE j \in DOMAIN include_stack
      <4>1. i \in DOMAIN include_stack
        BY <2>1, <2>2, <2>3, <3>1
      <4> QED
        BY <2>2, <2>3, <3>1, <4>1 DEF IInv, BasesNest
    <3>2. CASE j = Len(include_stack) + 1 /\ i \in DOMAIN include_stack
      BY <2>2, <3>2 DEF IInv, BasesNest
    <3>3. CASE j = Len(include_stack) + 1 /\ i = Len(include_stack) + 1
      BY <2>1, <2>2, <3>3 DEF BufferedFile
    <3> QED
      BY <2>2, <2>3, <3>1, <3>2, <3>3
  <2> QED
    BY <2>3 DEF IInv, BasesNest, ConditionalsNest
<1> QED
  BY <1>1, SpecIInv, PTL

\* Text and directives are read only where every conditional around them, in
\* this file and the including ones, is in its chosen branch.
THEOREM OnlyTakenBranchesRead == Spec => []ReadOnlyWhereTaken
<1>1. IInv => ReadOnlyWhereTaken
  BY DEF IInv, BranchesTaken, ReadOnlyWhereTaken
<1> QED
  BY <1>1, SpecIInv, PTL

-----------------------------------------------------------------------------

\* The -D macros are neither defined nor undefined by the files.
PredefinedLeftAlone ==
  \A fs \in Systems : \A f \in DOMAIN fs : \A i \in DOMAIN fs[f] :
    fs[f][i].d \in {"define", "undef"} => fs[f][i].arg \notin Predefined

\* What the definitions are in the middle of a unit.
DefinesInv ==
  /\ Predefined \subseteq defined
  /\ pushed \cap Predefined = {}
  /\ defined \ pushed \subseteq Predefined
  /\ UnitsStartAlike

LEMMA DefineKeepsDefines ==
  ASSUME IInv, DefinesInv, PredefinedLeftAlone, Define
  PROVE  DefinesInv'
<1>1. /\ status = "run" /\ status' = status
      /\ Line.d \in {"define", "undef"} /\ ~AtEnd
  BY DEF Define, Reads
<1>2. Line.arg \notin Predefined
  <2>1. file.line \in 1 .. Len(Contents) /\ Contents \in Seq(Lines)
    BY <1>1 DEF IInv, TypeOK, OpenFilesExist, Contents, AtEnd, BufferedFile
  <2>2. file.line \in DOMAIN files[file.name] /\ Line = files[file.name][file.line]
    BY <2>1 DEF Contents, Line
  <2> QED
    BY <1>1, <2>2 DEF IInv, OpenFilesExist, PredefinedLeftAlone
<1>3. CASE Line.d = "define"
  BY <1>1, <1>2, <1>3 DEF Define, DefinesInv, UnitsStartAlike
<1>4. CASE Line.d = "undef"
  BY <1>1, <1>2, <1>4 DEF Define, DefinesInv, UnitsStartAlike
<1> QED
  BY <1>1, <1>3, <1>4

\* Steps other than these three change neither the definitions nor define_stack,
\* and none of them makes the compiler idle.
LEMMA OtherStepsKeepDefines ==
  ASSUME DefinesInv, [Next]_vars, ~StartUnit, ~EndUnit, ~Define
  PROVE  DefinesInv'
<1>1. defined' = defined /\ pushed' = pushed /\ (status' = "idle" => status = "idle")
  <2>1. \A how \in {"eof", "error", "limit"} :
          Stop(how) => /\ defined' = defined /\ pushed' = pushed
                       /\ status' # "idle"
    BY DEF Stop
  <2>2. CASE EmitText
    BY <2>2 DEF EmitText
  <2>3. CASE ErrorDirective
    BY <2>1, <2>3 DEF ErrorDirective
  <2>4. CASE If
    BY <2>1, <2>4 DEF If, Elsewhere
  <2>5. CASE Else
    BY <2>1, <2>5 DEF Else, Elsewhere
  <2>6. CASE Elif
    BY <2>1, <2>6 DEF Elif, Elsewhere
  <2>7. CASE Endif
    BY <2>1, <2>7 DEF Endif, Elsewhere
  <2>8. CASE SkipLine
    BY <2>8 DEF SkipLine, Elsewhere
  <2>9. CASE EofInSkip
    BY <2>1, <2>9 DEF EofInSkip
  <2>10. CASE SkipInclude
    BY <2>10 DEF SkipInclude
  <2>11. CASE Include
    BY <2>1, <2>11 DEF Include
  <2>12. CASE EndOfFile
    BY <2>12 DEF EndOfFile
  <2>13. CASE UNCHANGED vars
    BY <2>13 DEF vars
  <2> QED
    BY <2>2, <2>3, <2>4, <2>5, <2>6, <2>7, <2>8, <2>9, <2>10, <2>11, <2>12, <2>13
       DEF Next
<1> QED
  BY <1>1 DEF DefinesInv, UnitsStartAlike

\* With -D macros left alone by the program, free_defines gives every unit the
\* definitions the first one had, whether the unit before ended or failed.
THEOREM EveryUnitStartsAlike ==
  ASSUME PredefinedLeftAlone
  PROVE  Spec => []UnitsStartAlike
<1>1. Init => DefinesInv
  BY DEF Init, DefinesInv, UnitsStartAlike
<1>2. ASSUME IInv, DefinesInv, [Next]_vars
      PROVE  DefinesInv'
  <2>1. CASE StartUnit
    BY <1>2, <2>1 DEF StartUnit, DefinesInv, UnitsStartAlike
  <2>2. CASE EndUnit
    BY <1>2, <2>2 DEF EndUnit, DefinesInv, UnitsStartAlike
  <2>3. CASE Define
    BY <1>2, <2>3, DefineKeepsDefines
  <2> QED
    BY <1>2, <2>1, <2>2, <2>3, OtherStepsKeepDefines
<1>3. DefinesInv => UnitsStartAlike
  BY DEF DefinesInv
<1> QED
  BY <1>1, <1>2, <1>3, SpecIInv, PTL DEF Spec

=============================================================================

---------------------------- MODULE MCAssembler ----------------------------
(***************************************************************************)
(* Programs of four statements, and what each of their references means.   *)
(***************************************************************************)
EXTENDS Assembler

St(k) == [k |-> k]
Named(k, n) == [k |-> k, name |-> n]
With(k, e) == [k |-> k, e |-> e]
Sized(k, n) == [k |-> k, n |-> n]
Nm(n) == <<"name", n>>
Num(n) == <<"num", n>>
Back == <<"back">>
Fwd == <<"ahead">>
MCStatements ==
  {Named("label", n) : n \in {"a", "b"}} \cup {St("local"), St("previous"), Named("globl", "a")}
  \cup {With("word", e) : e \in {<<Back>>, <<Fwd>>, <<Nm("a")>>, <<Nm("a"), <<"+">>, Num(1)>>, <<Nm("b"), <<"-">>, Nm("a")>>}}
  \cup {With("byte", <<Fwd, <<"-">>, Back>>), With("byte", <<Nm("b"), <<"-">>, Nm("a")>>)}
  \cup {With("jmp", <<x>>) : x \in {Back, Fwd, Nm("a")}} \cup {With("jcc", <<x>>) : x \in {Back, Nm("b")}}
  \cup {With("loop", <<Back>>), Sized("skip", 5), Sized("align", 4), Sized("org", 6)}
  \cup {Named("section", "data"), Named("section", "bss")}
  \cup {[k |-> "set", name |-> "a", e |-> <<Num(3)>>], [k |-> "set", name |-> "b", e |-> <<Nm("b"), <<"-">>, Nm("a")>>]}
\* The section of statement i of a program, and the one that .previous goes to.
RECURSIVE SectionsAt(_, _)
SectionsAt(p, i) ==
  IF i = 1 THEN <<"text", NoSection>>
  ELSE LET b == SectionsAt(p, i - 1)
       IN  CASE p[i - 1].k = "section" -> <<p[i - 1].name, b[1]>>
             [] p[i - 1].k = "previous" -> <<b[2], b[1]>>
             [] OTHER -> b
\* .bss has no instructions.
MCPrograms ==
  {p \in [1 .. 4 -> MCStatements] :
     \A i \in 1 .. 4 : p[i].k \in {"jmp", "jcc", "loop"} => SectionsAt(p, i)[1] # "bss"}
MCNames == {"a", "b"}
MCShortMin == 0 - 8
MCSections == {"text", "data", "bss"}

(* ----------------------- what the program means ------------------------ *)

\* A value is a base, "abs", a section or a name that is not defined, and a number.
Definitions(n) == {i \in 1 .. Len(prog) : prog[i].k \in {"label", "set"} /\ prog[i].name = n}
Locals == {i \in 1 .. Len(prog) : prog[i].k = "local"}
Bad == <<"bad", 0>>
Sum(x, y, sign) ==
  CASE x = Bad \/ y = Bad -> Bad
    [] y[1] = "abs" -> <<x[1], x[2] + sign * y[2]>>
    [] sign = 1 /\ x[1] = "abs" -> <<y[1], x[2] + y[2]>>
    [] sign = -1 /\ x[1] = y[1] -> <<"abs", x[2] - y[2]>>
    [] OTHER -> Bad
RECURSIVE Means(_, _)
\* What an operand means in statement i; definitions are used before them, too.
OperandAt(a, i) ==
  CASE a[1] = "num" -> <<"abs", a[2]>>
    [] a[1] = "back" -> LET L == {j \in Locals : j < i}
                        IN  IF L = {} THEN Bad ELSE placed[CHOOSE j \in L : \A m \in L : m <= j]
    [] a[1] = "ahead" -> LET L == {j \in Locals : j > i}
                         IN  IF L = {} THEN <<"1", 0>> ELSE placed[CHOOSE j \in L : \A m \in L : j <= m]
    [] OTHER -> LET D == Definitions(a[2])
                    j == CHOOSE d \in D : TRUE
                IN  CASE D = {} -> <<a[2], 0>>
                      [] prog[j].k = "label" -> placed[j]
                      [] OTHER -> Means(prog[j].e, j)
Means(x, i) ==
  IF Len(x) = 1 THEN OperandAt(x[1], i)
  ELSE Sum(OperandAt(x[1], i), OperandAt(x[3], i), IF x[2] = <<"+">> THEN 1 ELSE -1)

\* What an item holds when the object file has been linked: a value, or the
\* place that a jump goes to.
SymbolValue(l) == IF IsDefined(labels, l) THEN <<labels[l].r, labels[l].value>> ELSE <<labels[l].tok, 0>>
Holds(s, it) ==
  LET base == IF it.sym = 0 THEN <<"abs", 0>> ELSE SymbolValue(it.sym)
  IN  CASE it.kind \in {"short", "near"} -> <<s, it.at + it.size + it.v>>
        [] it.kind = "pcrel" -> <<base[1], base[2] + it.v + 4>>
        [] OTHER -> <<base[1], base[2] + it.v>>

(* ------------------------------ properties ----------------------------- *)

\* In a program that is assembled, each value and each jump is what the program
\* means, whichever labels have the same number and whether they come before or
\* behind; asm_expr, asm_new_label1, gen_expr32, gen_disp32, asm_free_labels.
ReferencesFindTheirLabels ==
  asmState = "end" =>
    \A s \in AsmSections : \A k \in 1 .. Len(sections[s].items) :
      LET it == sections[s].items[k]
      IN  it.kind # "pad" => Holds(s, it) = Means(prog[it.stmt].e, it.stmt)

\* Each statement is assembled into the section that the program is in then, and
\* in each section one follows the other, with the alignments that were asked for.
SectionsAreFilledInOrder ==
  asmState \in {"on", "end"} =>
    /\ \A i \in 1 .. Len(placed) : placed[i][1] = SectionsAt(prog, i)[1]
    /\ \A s \in AsmSections :
         LET its == sections[s].items
             size == IF s = cur_text_section THEN gen_ind ELSE sections[s].data_offset
         IN  /\ \A k \in 2 .. Len(its) : its[k].at = its[k - 1].at + its[k - 1].size
             /\ its # <<>> => its[1].at = 0 /\ size = its[Len(its)].at + its[Len(its)].size
    /\ \A i \in 2 .. Len(placed) : prog[i - 1].k = "align" =>
         placed[i][2] % prog[i - 1].n = 0 /\ sections[placed[i][1]].sh_addralign % prog[i - 1].n = 0

\* A name declared with .globl is global, wherever it is defined, unless it has
\* been defined and relocated before.
Relocates(i, n) == prog[i].k \in {"word", "jmp", "jcc"} /\ \E a \in 1 .. Len(prog[i].e) : prog[i].e[a] = Nm(n)
LateGlobl(i) == \E d, r \in 1 .. i : d < r /\ d \in Definitions(prog[i].name) /\ Relocates(r, prog[i].name)
GlobalNamesAreGlobal ==
  asmState = "end" =>
    \A i \in 1 .. Len(prog) : prog[i].k = "globl" /\ ~LateGlobl(i) =>
      \A l \in 1 .. Len(labels) : labels[l].tok = prog[i].name /\ labels[l].bound # "" => labels[l].bound = "global"

\* What is assembled means what is written: references lead to the labels that
\* the text means, names have the binding it gives them, and each section holds
\* what was written into it, in order and aligned (tcc_assemble).
LabelsAsWritten == ReferencesFindTheirLabels /\ GlobalNamesAreGlobal /\ SectionsAreFilledInOrder
=============================================================================

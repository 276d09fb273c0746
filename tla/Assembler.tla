----------------------------- MODULE Assembler -----------------------------
(***************************************************************************)
(* The assembler, tccasm.c: labels, local labels, expressions and          *)
(* directives, and the jumps of i386/asm.c asm_opcode.  A program is a list*)
(* of statements; other instructions are data to it.                       *)
(***************************************************************************)
EXTENDS Integers, Sequences, FiniteSets

CONSTANTS
  Programs,        \* lists of statements, records with a kind k
  AsmSections,     \* the names of sections; "text" comes first, "bss" has no bits
  Names,           \* the names of labels; local labels are "1"
  ShortMin, ShortMax  \* the displacements that fit into a byte

VARIABLES
  prog, ip,      \* the program and the statement that is assembled
  labels,        \* asm_labels: records of the token, r, value, static, prev_tok,
                 \* and bound, the binding of the ELF symbol, "" as long as none is
  sym_label,     \* the last label of each token, 0 if there is none
  sections,      \* data_offset, alignment and the items of each section
  cur_text_section, last_text_section, gen_ind,
  placed,        \* where each statement was when it was assembled
  asmState       \* "on", "end" or an error
saVars == <<prog, ip, labels, sym_label, sections, cur_text_section, last_text_section, gen_ind, placed, asmState>>

Undefined == "undef"
Abs == "abs"
NoSection == "none"
Tokens == Names \cup {"1"}
Statement == prog[ip]

(* --------------------------- label_push, values ------------------------ *)

\* label_push: the new label hides the one of the same token.
Pushed(ls, top, tok, static) ==
  Append(ls, [tok |-> tok, r |-> Undefined, value |-> 0, static |-> static, prev_tok |-> top[tok], bound |-> ""])

\* An ExprValue with the tables of labels behind it: sym is 0 for a constant.
Expr(v, sym, ls, top) == [v |-> v, sym |-> sym, labels |-> ls, top |-> top, err |-> ""]
BadExpr(e, why) == [e EXCEPT !.err = why]
OnNewLabel(e, tok, static) ==
  LET ls == Pushed(e.labels, e.top, tok, static)
  IN  [e EXCEPT !.sym = Len(ls), !.labels = ls, !.top[tok] = Len(ls)]
\* 1b: the last label that is defined.
Backward(e) ==
  LET l == e.top["1"]
      d == IF l # 0 /\ e.labels[l].r = Undefined THEN e.labels[l].prev_tok ELSE l
  IN  IF d = 0 THEN BadExpr(e, "not found backward") ELSE [e EXCEPT !.sym = d]
\* 1f: the label that waits for its definition, or a new one.
Ahead(e) ==
  LET l == e.top["1"]
  IN  IF l = 0 \/ e.labels[l].r # Undefined THEN OnNewLabel(e, "1", TRUE) ELSE [e EXCEPT !.sym = l]
\* By default, a symbol is global.
Symbol(e, tok) ==
  LET l == e.top[tok]
  IN  CASE l = 0 -> OnNewLabel(e, tok, FALSE)
        [] e.labels[l].r = Abs -> [e EXCEPT !.v = e.labels[l].value, !.sym = 0]
        [] OTHER -> [e EXCEPT !.sym = l]
\* asm_expr_unary: a number, 1b, 1f or a name.
Unary(a, e0) ==
  LET e == [e0 EXCEPT !.v = 0, !.sym = 0]
  IN  CASE a[1] = "num" -> [e EXCEPT !.v = a[2]]
        [] a[1] = "back" -> Backward(e)
        [] a[1] = "ahead" -> Ahead(e)
        [] OTHER -> Symbol(e, a[2])
\* asm_expr_sum on two operands.
Plus(p, q) ==
  CASE q.err # "" -> q
    [] p.sym # 0 /\ q.sym # 0 -> BadExpr(q, "invalid operation with label")
    [] OTHER -> [q EXCEPT !.v = p.v + q.v, !.sym = IF p.sym = 0 THEN q.sym ELSE p.sym]
Minus(p, q) ==
  LET r(l) == q.labels[l].r
      at(l) == q.labels[l].value
  IN  CASE q.err # "" -> q
        [] q.sym = 0 -> [q EXCEPT !.v = p.v - q.v, !.sym = p.sym]
        [] p.sym = q.sym -> [q EXCEPT !.v = p.v - q.v, !.sym = 0]
        [] p.sym # 0 /\ r(p.sym) = r(q.sym) /\ r(p.sym) # Undefined ->
             [q EXCEPT !.v = p.v - q.v + at(p.sym) - at(q.sym), !.sym = 0]
        [] OTHER -> BadExpr(q, "invalid operation with label")
\* asm_expr.  An expression is a list: an operand, or an operator and two.
asm_expr(x) ==
  LET first == Unary(x[1], Expr(0, 0, labels, sym_label))
      second == Unary(x[3], first)
  IN  CASE Len(x) = 1 \/ first.err # "" -> first
        [] x[2] = <<"+">> -> Plus(first, second)
        [] OTHER -> Minus(first, second)
asm_int_expr(x) ==
  LET e == asm_expr(x) IN IF e.err = "" /\ e.sym # 0 THEN BadExpr(e, "constant expected") ELSE e

(* ------------------------------- sections ------------------------------ *)

NoBits(s) == s = "bss"
\* An item: where it is, its size, what is in it, and the ELF symbol of its
\* relocation, 0 without one.
Item(kind, size, v, sym) == [at |-> gen_ind, size |-> size, kind |-> kind, v |-> v, sym |-> sym, stmt |-> ip]
Put(item) == [sections EXCEPT ![cur_text_section].items = Append(@, item)]
\* use_section1.
use_section(s) ==
  /\ sections' = [sections EXCEPT ![cur_text_section].data_offset = gen_ind]
  /\ cur_text_section' = s
  /\ gen_ind' = sections'[s].data_offset
\* greloc makes an ELF symbol for a label that has none, with its binding.
BindingOf(l) == IF l.static THEN "local" ELSE "global"
Relocated(ls, l) == IF l # 0 /\ ls[l].bound = "" THEN [ls EXCEPT ![l].bound = BindingOf(ls[l])] ELSE ls

(* ------------------------------- actions ------------------------------- *)

AssemblerInit ==
  /\ prog \in Programs
  /\ ip = 1 /\ labels = <<>> /\ sym_label = [t \in Tokens |-> 0]
  /\ sections = [s \in AsmSections |-> [data_offset |-> 0, sh_addralign |-> 1, items |-> <<>>]]
  /\ cur_text_section = "text" /\ last_text_section = NoSection /\ gen_ind = 0
  /\ placed = <<>> /\ asmState = "on"

\* The statement is done.
Step == ip' = ip + 1 /\ placed' = Append(placed, <<cur_text_section, gen_ind>>) /\ UNCHANGED <<prog, asmState>>
Stop(why) ==
  /\ asmState' = why
  /\ UNCHANGED <<prog, ip, labels, sym_label, sections, cur_text_section, last_text_section, gen_ind, placed>>
Is(kinds) == asmState = "on" /\ ip <= Len(prog) /\ Statement.k \in kinds
KeepSections == UNCHANGED <<sections, cur_text_section, last_text_section, gen_ind>>

\* The labels and sym_label with a definition of a token.  asm_new_label1: a
\* label that waits is defined; a new one is static.
\* Mutant: it is static in any case.
AlwaysStatic(ls0, top, tok, sh, value) ==
  LET Waits == top[tok] # 0 /\ ls0[top[tok]].r = Undefined
      ls == IF Waits THEN ls0 ELSE Pushed(ls0, top, tok, TRUE)
      n == IF Waits THEN top[tok] ELSE Len(ls)
  IN  /\ labels' = [ls EXCEPT ![n].r = sh, ![n].value = value, ![n].static = TRUE]
      /\ sym_label' = [top EXCEPT ![tok] = n]
Define(ls0, top, tok, sh, value) ==
  LET Waits == top[tok] # 0 /\ ls0[top[tok]].r = Undefined
      ls == IF Waits THEN ls0 ELSE Pushed(ls0, top, tok, TRUE)
      n == IF Waits THEN top[tok] ELSE Len(ls)
  IN  /\ labels' = [ls EXCEPT ![n].r = sh, ![n].value = value]
      /\ sym_label' = [top EXCEPT ![tok] = n]
IsDefined(ls, l) == l # 0 /\ ls[l].r # Undefined
Label ==
  /\ Is({"label"})
  /\ IF IsDefined(labels, sym_label[Statement.name]) THEN Stop("already defined")
     ELSE Define(labels, sym_label, Statement.name, cur_text_section, gen_ind) /\ Step /\ KeepSections
LocalLabel ==
  Is({"local"}) /\ Define(labels, sym_label, "1", cur_text_section, gen_ind) /\ Step /\ KeepSections
Set ==
  /\ Is({"set"})
  /\ \E e \in {asm_int_expr(Statement.e)} :
       CASE e.err # "" -> Stop(e.err)
         [] IsDefined(e.labels, e.top[Statement.name]) -> Stop("already defined")
         [] OTHER -> Define(e.labels, e.top, Statement.name, Abs, e.v) /\ Step /\ KeepSections

\* .long and .byte.
Data ==
  /\ Is({"word", "byte"})
  /\ \E e \in {asm_expr(Statement.e)} :
       LET size == IF Statement.k = "word" THEN 4 ELSE 1
       IN  CASE e.err # "" -> Stop(e.err)
             [] ~NoBits(cur_text_section) /\ size = 1 /\ e.sym # 0 -> Stop("constant expected")
             [] OTHER ->
                  /\ labels' = IF NoBits(cur_text_section) THEN e.labels ELSE Relocated(e.labels, e.sym)
                  /\ sym_label' = e.top
                  /\ sections' = IF NoBits(cur_text_section) THEN sections ELSE Put(Item("abs", size, e.v, e.sym))
                  /\ gen_ind' = gen_ind + size
                  /\ Step /\ UNCHANGED <<cur_text_section, last_text_section>>

WithAlign(n) == [sections EXCEPT ![cur_text_section].sh_addralign = IF @ < n THEN n ELSE @]
AlignUpTo(i, n) == ((i + n - 1) \div n) * n
\* .align, .skip and .org; zero_pad.
Space ==
  /\ Is({"align", "skip", "org"})
  /\ LET n == Statement.n
         next == CASE Statement.k = "align" -> AlignUpTo(gen_ind, n)
                   [] Statement.k = "org" -> n
                   [] OTHER -> gen_ind + n
         S == IF Statement.k = "align" THEN WithAlign(n) ELSE sections
         pad == Item("pad", next - gen_ind, 0, 0)
     IN  IF next < gen_ind THEN Stop("attempt to .org backwards")
         ELSE /\ sections' = IF NoBits(cur_text_section) THEN S
                             ELSE [S EXCEPT ![cur_text_section].items = Append(@, pad)]
              /\ gen_ind' = next
              /\ Step /\ UNCHANGED <<labels, sym_label, cur_text_section, last_text_section>>

\* .section remembers the section before it; .text, .data and .bss do not.
Section ==
  /\ Is({"section", "text"})
  /\ last_text_section' = IF Statement.k = "section" THEN cur_text_section ELSE last_text_section
  /\ use_section(Statement.name)
  /\ Step /\ UNCHANGED <<labels, sym_label>>
Swap == last_text_section' = cur_text_section
Previous ==
  /\ Is({"previous"})
  /\ IF last_text_section = NoSection THEN Stop("no previous section")
     ELSE /\ use_section(last_text_section) /\ Swap
          /\ Step /\ UNCHANGED <<labels, sym_label>>

Globl ==
  /\ Is({"globl"})
  /\ LET l == sym_label[Statement.name]
         ls == Pushed(labels, sym_label, Statement.name, FALSE)
     IN  /\ labels' = IF l = 0 THEN ls ELSE [labels EXCEPT ![l].static = FALSE]
         /\ sym_label' = [sym_label EXCEPT ![Statement.name] = IF l = 0 THEN Len(ls) ELSE l]
  /\ Step /\ KeepSections

\* Mutant: the displacement is counted from the instruction.
FromTheJump(e) == e.v + e.labels[e.sym].value - gen_ind
\* The displacement of a short jump, which is two bytes.
jmp_disp(e) == e.v + e.labels[e.sym].value - gen_ind - 2
\* "jmp", "jcc", or "loop", which is always short: gen_disp32 and the choice
\* in asm_opcode.
Jump ==
  /\ Is({"jmp", "jcc", "loop"})
  /\ \E e \in {asm_expr(Statement.e)} :
       LET here == e.sym # 0 /\ e.labels[e.sym].r = cur_text_section
           short == here /\ jmp_disp(e) \in ShortMin .. ShortMax
           opcode == IF Statement.k = "jmp" THEN 1 ELSE 2
           field == gen_ind + opcode
       IN  CASE e.err # "" -> Stop(e.err)
             [] ~short /\ Statement.k = "loop" -> Stop("invalid displacement")
             [] OTHER ->
                  /\ labels' = IF here THEN e.labels ELSE Relocated(e.labels, e.sym)
                  /\ sym_label' = e.top
                  /\ sections' = Put(CASE short -> Item("short", 2, jmp_disp(e), 0)
                                       [] here -> Item("near", opcode + 4, e.v + e.labels[e.sym].value - field - 4, 0)
                                       [] OTHER -> Item("pcrel", opcode + 4, e.v - 4, e.sym))
                  /\ gen_ind' = gen_ind + (IF short THEN 2 ELSE opcode + 4)
                  /\ Step /\ UNCHANGED <<cur_text_section, last_text_section>>

\* asm_free_labels at the end: what is defined goes to the object file.
asm_free_labels ==
  /\ asmState = "on" /\ ip > Len(prog)
  /\ asmState' = "end"
  /\ labels' = [l \in 1 .. Len(labels) |->
                  IF IsDefined(labels, l) /\ labels[l].bound = "" THEN [labels[l] EXCEPT !.bound = BindingOf(labels[l])] ELSE labels[l]]
  /\ sym_label' = [t \in Tokens |-> 0]
  /\ sections' = [sections EXCEPT ![cur_text_section].data_offset = gen_ind]
  /\ UNCHANGED <<prog, ip, cur_text_section, last_text_section, gen_ind, placed>>

AssemblerNext ==
  \/ Label \/ LocalLabel \/ Set \/ Data \/ Space \/ Section \/ Previous \/ Globl \/ Jump
  \/ asm_free_labels
AssemblerSpec == AssemblerInit /\ [][AssemblerNext]_saVars
=============================================================================

----------------------------- MODULE InlineAsm -----------------------------
(***************************************************************************)
(* asm statements with operands: tccasm.c parse_asm_operands, asm_instr,   *)
(* and i386/asm.c asm_compute_constraints, asm_gen_code and the locations  *)
(* that subst_asm_operand writes into the text.                            *)
(*                                                                         *)
(* The text of the statement is not assembled; it does what its            *)
(* constraints let it do: it writes its & outputs and trashes the clobbered*)
(* registers, reads every operand it may read, and writes its outputs,     *)
(* those in memory first.                                                  *)
(***************************************************************************)
EXTENDS Integers, Sequences, FiniteSets

\* Forms of statements: records of the lists that the outputs may be, of those
\* that the inputs may be, and of the sets that the clobbered registers may be.
\* An operand is a constraint, its characters, and vt: "local" (a
\* value in the frame or a global), "char", "wide" (a long long in the frame),
\* "llocal" (behind a pointer in the frame, also where save_regs has put the
\* pointer there), "const", or "addr" (the address of a local).
CONSTANT AsmForms

VARIABLES
  asm,      \* the statement
  got,      \* what asm_compute_constraints has decided
  regs,     \* the registers
  mem,      \* cells of the operands, their upper halves, and the pointers to them
  pushed,   \* the registers that are saved on the stack
  seen,     \* what the text has read from each operand
  phase     \* "parse", "compute", "prolog", "early", "reads", "writes", "epilog", "end" or an error
asmVars == <<asm, got, regs, mem, pushed, seen, phase>>

AsmRegs == 0 .. 7
EAX == 0
EDX == 2
Saved == {3, 6, 7}
Indices(s) == 1 .. Len(s)
Op(i) == asm.ops[i]
Operands == Indices(asm.ops)
IsOutput(i) == i <= asm.nout
Has(c, ch) == \E k \in Indices(c) : c[k] = ch

(* ------------------------ asm_compute_constraints ---------------------- *)

Modifiers == {"=", "&", "+", "%"}
\* skip_constraint_modifiers.
RECURSIVE Plainly(_)
Plainly(c) == IF c # <<>> /\ c[1] \in Modifiers THEN Plainly(Tail(c)) ELSE c
Priorities == [A |-> 0, a |-> 1, b |-> 1, c |-> 1, d |-> 1, S |-> 1, D |-> 1, q |-> 2, r |-> 3,
               I |-> 4, i |-> 4, m |-> 4, g |-> 4]
RegisterOf == [a |-> 0, b |-> 3, c |-> 1, d |-> 2, S |-> 6, D |-> 7]
\* A constraint that is the number of an output.
IsReference(i) == Plainly(Op(i).c)[1] \in {"0", "1"}
RefIndex(i) == IF Plainly(Op(i).c)[1] = "0" THEN 1 ELSE 2
BadReference(i) == IsReference(i) /\ (RefIndex(i) >= i \/ IsOutput(i))
\* The inputs that share an operand's place.
InputsOf(k) == {i \in Operands : IsReference(i) /\ RefIndex(i) = k}
constraint_priority(i) ==
  LET c == Plainly(Op(i).c)
  IN  IF IsReference(i) THEN 5
      ELSE CHOOSE p \in 0 .. 4 : (\E k \in Indices(c) : Priorities[c[k]] = p)
                                 /\ \A k \in Indices(c) : Priorities[c[k]] <= p

\* The sort of sorted_op: an exchange for each pair that is out of order.
RECURSIVE SortPairs(_, _, _)
SortPairs(s, i, j) ==
  CASE i >= Len(s) -> s
    [] j > Len(s) -> SortPairs(s, i + 1, i + 2)
    [] constraint_priority(s[j]) < constraint_priority(s[i]) ->
         SortPairs([s EXCEPT ![i] = s[j], ![j] = s[i]], i, j + 1)
    [] OTHER -> SortPairs(s, i, j + 1)
SortedOps == SortPairs([i \in Operands |-> i], 1, 2)

NoRegister == 0 - 1
NothingGot ==
  [used |-> [r \in AsmRegs |-> IF r \in asm.clobbers \cup {4, 5} THEN {"in", "out"} ELSE {}],
   reg |-> [i \in Operands |-> NoRegister], memory |-> {}, rw |-> {}, wide |-> {}, out |-> NoRegister, err |-> ""]
\* The first of the registers for which none of mask is used; none: 8.
FirstFree(g, mask, rs) ==
  CHOOSE r \in rs \cup {8} : /\ r = 8 \/ g.used[r] \cap mask = {}
                             /\ \A q \in rs : q < r => g.used[q] \cap mask # {}
Takes(g, i, r, mask) == [g EXCEPT !.reg[i] = r, !.used[r] = @ \cup mask]
\* Mutant: an & output may share the register of an input.
NoEarlyMask(i) ==
  IF InputsOf(i) # {} THEN {"in", "out"} ELSE IF IsOutput(i) THEN {"out"} ELSE {"in"}
\* reg_mask, with what + and & do to it.
MaskOf(i) ==
  CASE InputsOf(i) # {} \/ Has(Op(i).c, "+") \/ Has(Op(i).c, "&") -> {"in", "out"}
    [] IsOutput(i) -> {"out"}
    [] OTHER -> {"in"}
\* The letters of a constraint from the first on; the first that can be met.
RECURSIVE TryFrom(_, _, _)
TryFrom(g, i, c) ==
  LET vt == Op(i).vt
      mask == MaskOf(i)
      Next1 == TryFrom(g, i, Tail(c))
      r == CASE c # <<>> /\ c[1] \in DOMAIN RegisterOf -> FirstFree(g, mask, {RegisterOf[c[1]]})
             [] c # <<>> /\ c[1] = "q" -> FirstFree(g, mask, 0 .. 3)
             [] OTHER -> FirstFree(g, mask, AsmRegs)
      p == FirstFree(g, {"in"}, AsmRegs)
  IN  CASE c = <<>> -> [g EXCEPT !.err = "could not be satisfied"]
        [] c[1] \in {"=", "+", "&"} ->
             IF c[1] # "=" /\ ~IsOutput(i) THEN [g EXCEPT !.err = "modifier"]
             ELSE TryFrom([g EXCEPT !.rw = @ \cup (IF c[1] = "+" THEN {i} ELSE {})], i, Tail(c))
        [] c[1] = "A" ->
             IF (g.used[EAX] \cup g.used[EDX]) \cap mask # {} THEN Next1
             ELSE [Takes(Takes(g, i, EDX, mask), i, EAX, mask) EXCEPT !.wide = @ \cup {i}]
        [] c[1] \in DOMAIN RegisterOf \cup {"q", "r"} -> IF r = 8 THEN Next1 ELSE Takes(g, i, r, mask)
        [] c[1] \in {"i", "I"} -> IF vt = "const" THEN g ELSE Next1
        [] c[1] \in {"m", "g"} ->
             CASE vt # "llocal" \/ (~IsOutput(i) /\ c[1] = "g") -> g
               [] p = 8 -> Next1
               [] OTHER -> [Takes(g, i, p, {"in"}) EXCEPT !.memory = @ \cup {i}]
        [] OTHER -> [g EXCEPT !.err = "could not be satisfied"]
\* An operand, and the input that refers to it.
Allocate(g, i) ==
  LET t == TryFrom(g, i, Op(i).c)
  IN  IF IsReference(i) THEN g
      ELSE [t EXCEPT !.reg = [j \in Operands |-> IF j \in InputsOf(i) THEN t.reg[i] ELSE t.reg[j]],
                     !.wide = IF i \in t.wide THEN @ \cup InputsOf(i) ELSE @]
RECURSIVE AllocateAll(_, _)
AllocateAll(g, s) ==
  IF s = <<>> \/ g.err # "" THEN g ELSE AllocateAll(Allocate(g, Head(s)), Tail(s))
\* out_reg, for outputs in registers whose home is behind a pointer.
NeedsOutReg(g) == \E i \in Operands : g.reg[i] >= 0 /\ Op(i).vt = "llocal" /\ i \notin g.memory
\* Mutant: a register that no input uses serves for the pointers.
FreeOfInputs(g) ==
  IF g.err # "" \/ ~NeedsOutReg(g) THEN g ELSE [g EXCEPT !.out = FirstFree(g, {"in"}, AsmRegs)]
WithOutReg(g) ==
  LET r == FirstFree(g, {"out"}, AsmRegs)
  IN  CASE g.err # "" \/ ~NeedsOutReg(g) -> g
        [] r = 8 -> [g EXCEPT !.err = "could not find free output register"]
        [] OTHER -> [g EXCEPT !.out = r]
asm_compute_constraints ==
  CASE \E i \in Operands : BadReference(i) -> [NothingGot EXCEPT !.err = "invalid reference"]
    [] \E k \in Operands : Cardinality(InputsOf(k)) > 1 -> [NothingGot EXCEPT !.err = "cannot reference twice"]
    [] OTHER -> WithOutReg(AllocateAll(NothingGot, SortedOps))

(* ------------------------------ locations ------------------------------ *)

\* An operand's cell, its upper half, and the word that points to the cell.
Cell(i) == <<"cell", i>>
High(i) == <<"high", i>>
Slot(i) == <<"slot", i>>
Pointer(i) == <<"pointer", i>>
Value(i) == <<"value", i>>
HighValue(i) == <<"high value", i>>
Garbage == <<"garbage", 0>>
Entry(r) == <<"entry", r>>
Target(p) == IF p[1] = "pointer" THEN Cell(p[2]) ELSE Garbage
Content(p) == IF Target(p) \in DOMAIN mem THEN mem[Target(p)] ELSE Garbage

\* load(r, vt): the value it puts into r.
Loaded(i) ==
  CASE Op(i).vt = "llocal" -> Content(mem[Slot(i)])
    [] Op(i).vt = "const" -> Value(i)
    [] Op(i).vt = "addr" -> Pointer(i)
    [] OTHER -> mem[Cell(i)]
\* ... with c.ul four bytes further.
LoadedHigh(i) == IF Op(i).vt = "wide" THEN mem[High(i)] ELSE Garbage

\* What %i denotes: a register, a cell, or a constant.
InRegister(i) == got.reg[i] >= 0 /\ i \notin got.memory
InCell(i) == ~InRegister(i) /\ Op(i).vt # "const"
CellOf(i) == IF i \in got.memory THEN Target(regs[got.reg[i]]) ELSE Cell(i)
Read1(i) ==
  CASE InRegister(i) -> regs[got.reg[i]]
    [] InCell(i) -> IF CellOf(i) \in DOMAIN mem THEN mem[CellOf(i)] ELSE Garbage
    [] OTHER -> Value(i)

(* ------------------------------- the text ------------------------------ *)

Result(i) == <<"result", i>>
HighResult(i) == <<"high result", i>>
Reads(i) == ~IsOutput(i) \/ Has(Op(i).c, "+")
Early(i) == IsOutput(i) /\ Has(Op(i).c, "&") /\ ~Has(Op(i).c, "+") /\ InputsOf(i) = {}
\* The registers after the outputs in set O have been written.
Written(O) ==
  [r \in AsmRegs |->
     CASE \E i \in O : InRegister(i) /\ got.reg[i] = r -> Result(CHOOSE i \in O : InRegister(i) /\ got.reg[i] = r)
       [] r = EDX /\ \E i \in O : i \in got.wide -> HighResult(CHOOSE i \in O : i \in got.wide)
       [] OTHER -> regs[r]]
Outputs == {i \in Operands : IsOutput(i)}

(* ------------------------------- actions ------------------------------- *)

AsmInit ==
  /\ \E f \in AsmForms : \E o \in f.outputs, i \in f.inputs, cl \in f.clobbers :
       asm = [ops |-> o \o i, nout |-> Len(o), clobbers |-> cl]
  /\ got = [err |-> ""]
  /\ regs = [r \in AsmRegs |-> Entry(r)]
  /\ mem = [c \in {Cell(i) : i \in Indices(asm.ops)} \cup {High(i) : i \in Indices(asm.ops)}
                   \cup {Slot(i) : i \in Indices(asm.ops)} |->
              CASE c[1] = "cell" -> Value(c[2])
                [] c[1] = "high" -> HighValue(c[2])
                [] OTHER -> Pointer(c[2])]
  /\ pushed = <<>> /\ seen = <<>> /\ phase = "parse"

\* Inputs behind a pointer are evaluated, unless they may stay in memory, and
\* save_regs puts what is in registers into the frame.
parse_asm_operands ==
  /\ phase = "parse" /\ phase' = "compute"
  /\ LET Evaluated == {i \in Operands : ~IsOutput(i) /\ Op(i).vt = "llocal" /\ ~Has(Op(i).c, "m")}
     IN  asm' = [asm EXCEPT !.ops = [i \in Operands |-> IF i \in Evaluated THEN [@[i] EXCEPT !.vt = "local"] ELSE @[i]]]
  /\ UNCHANGED <<got, regs, mem, pushed, seen>>

Compute ==
  /\ phase = "compute"
  /\ got' = asm_compute_constraints
  /\ phase' = IF got'.err # "" THEN got'.err ELSE "prolog"
  /\ UNCHANGED <<asm, regs, mem, pushed, seen>>

\* asm_gen_code: the registers to be saved, ascending, and the loads.
\* Mutant: only what the operands use is saved.
OperandsOnly == {got.reg[i] : i \in {j \in Operands : got.reg[j] >= 0}}
InUse == asm.clobbers \cup {got.reg[i] : i \in {j \in Operands : got.reg[j] >= 0}}
ToSave == SelectSeq(<<3, 6, 7>>, LAMBDA r : r \in InUse)
LoadsInto(i, r) ==
  CASE i \in got.memory -> got.reg[i] = r
    [] OTHER -> (~IsOutput(i) \/ i \in got.rw) /\ (got.reg[i] = r \/ (r = EDX /\ i \in got.wide))
\* The loads of the prolog, each operand's in turn: the last one stays.
Prolog ==
  /\ phase = "prolog" /\ phase' = "early"
  /\ pushed' = [k \in Indices(ToSave) |-> <<ToSave[k], regs[ToSave[k]]>>]
  /\ regs' = [r \in AsmRegs |->
       LET L == {i \in Operands : LoadsInto(i, r)}
           last == CHOOSE i \in L : \A j \in L : j <= i
       IN  CASE L = {} -> regs[r]
             [] last \in got.memory -> mem[Slot(last)]
             [] got.reg[last] = r -> Loaded(last)
             [] OTHER -> LoadedHigh(last)]
  /\ UNCHANGED <<asm, got, mem, seen>>

\* The text writes & outputs and trashes what it says it trashes,
TextEarly ==
  /\ phase = "early" /\ phase' = "reads"
  /\ regs' = [r \in AsmRegs |-> IF r \in asm.clobbers THEN Garbage ELSE Written({i \in Operands : Early(i)})[r]]
  /\ UNCHANGED <<asm, got, mem, pushed, seen>>
\* reads,
TextReads ==
  /\ phase = "reads" /\ phase' = "writes"
  /\ seen' = [i \in Operands |-> <<Read1(i), IF i \in got.wide THEN regs[EDX] ELSE HighValue(i)>>]
  /\ UNCHANGED <<asm, got, regs, mem, pushed>>
\* and writes its outputs.
TextWrites ==
  /\ phase = "writes" /\ phase' = "epilog"
  /\ mem' = [c \in DOMAIN mem |->
       IF \E i \in Outputs : InCell(i) /\ CellOf(i) = c
       THEN Result(CHOOSE i \in Outputs : InCell(i) /\ CellOf(i) = c) ELSE mem[c]]
  /\ regs' = Written(Outputs)
  /\ UNCHANGED <<asm, got, pushed, seen>>

\* A register when output i is stored: out_reg may have held a pointer by then.
AtStore(i, r) ==
  IF r = got.out /\ \E j \in 1 .. i : InRegister(j) /\ Op(j).vt = "llocal" THEN Garbage ELSE regs[r]
\* The cells that are stored into for an output in a register behind a pointer,
StoreFar(i) == {<<Target(mem[Slot(i)]), AtStore(i, got.reg[i])>>}
\* and for one in the frame.  A byte of esi or edi is another register's.
StoreNear(i) ==
  {<<Cell(i), IF Op(i).vt = "char" /\ got.reg[i] >= 4 THEN Garbage ELSE AtStore(i, got.reg[i])>>}
  \cup (IF i \in got.wide THEN {<<High(i), AtStore(i, EDX)>>} ELSE {})
Stores ==
  UNION {IF Op(i).vt = "llocal" THEN StoreFar(i) ELSE StoreNear(i) : i \in {j \in Outputs : InRegister(j)}}
\* The stores, with out_reg for pointers, and the registers back from the stack.
Epilog ==
  /\ phase = "epilog" /\ phase' = "end"
  /\ mem' = [c \in DOMAIN mem |->
       IF \E s \in Stores : s[1] = c THEN (CHOOSE s \in Stores : s[1] = c)[2] ELSE mem[c]]
  /\ regs' = [r \in AsmRegs |->
       LET P == {k \in Indices(pushed) : pushed[k][1] = r}
       IN  CASE P # {} -> pushed[CHOOSE k \in P : TRUE][2]
             [] r = got.out -> Garbage
             [] OTHER -> regs[r]]
  /\ pushed' = <<>>
  /\ UNCHANGED <<asm, got, seen>>

AsmNext == parse_asm_operands \/ Compute \/ Prolog \/ TextEarly \/ TextReads \/ TextWrites \/ Epilog
AsmSpec == AsmInit /\ [][AsmNext]_asmVars
=============================================================================

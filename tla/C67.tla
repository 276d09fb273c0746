-------------------------------- MODULE C67 --------------------------------
(***************************************************************************)
(* The code generator for the TMS320C67 (c67-gen.c), with what it calls of *)
(* the value stack, and the processor that runs its code.  The processor   *)
(* writes the results of most instructions some cycles later, and goes on  *)
(* for five cycles when it jumps; nothing but the order of the instructions*)
(* keeps a value from being read too early.                                *)
(*                                                                         *)
(* gen compiles a list of steps, calls of the back end; then dsp runs the  *)
(* code.  A word has 16 bits, 32 in the code, a half word 8, a byte 4.     *)
(***************************************************************************)
EXTENDS Integers, Sequences, FiniteSets
LOCAL INSTANCE SequencesExt

CONSTANT Suspect         \* what the code does not do as C has it; see MCC67

VARIABLES gen, dsp
c67Vars == <<gen, dsp>>

Half == 2^8
C67Word == 2^16
C67Byte == 16
Short16(n) == n % C67Word
SignedOf(n) == IF n >= C67Word \div 2 THEN n - C67Word ELSE n
SignedHalf(n) == IF n >= Half \div 2 THEN n - Half ELSE n
AddHigh(low, high) == (low % Half) + (high % Half) * Half

-----------------------------------------------------------------------------
(* Registers: those of the compiler, 0 to 23, and five it does not know.   *)
(* The machine has two sides: A is 0 to 15, B is 16 to 31.                 *)

C67_A0 == 105
C67_SP == 106
C67_B3 == 107
C67_FP == 108
C67_B2 == 109
C67_CREG_ZERO == -1

C67_map_regn(r) ==
  CASE r = 0 -> 2 [] r = 1 -> 3 [] r = 2 -> 0 [] r = 3 -> 1
    [] r \in 4 .. 23 -> 2 * (r \div 4) + (r % 2) + 2
    [] r = C67_A0 -> 0 [] r = C67_B2 -> 2 [] r = C67_B3 -> 3
    [] r \in {C67_SP, C67_FP} -> 15 [] r = C67_CREG_ZERO -> 0
C67_map_regc(r) == CASE r = 0 -> 5 [] r = 2 -> 1 [] r = 3 -> 2 [] r = C67_B2 -> 3 [] r = C67_CREG_ZERO -> 0
\* -1: no side, an internal error.
C67_map_regs(r) ==
  CASE r \in {0, 1, C67_A0, C67_FP} -> 0
    [] r \in {2, 3, C67_B2, C67_B3, C67_SP} -> 1
    [] r \in 4 .. 23 -> (r \div 2) % 2
    [] OTHER -> -1

\* A class: the registers that belong to it, and its number.  The classes of
\* A12 to B13 are those of A10 to B11.
Class(n, S) == [n |-> n, regs |-> S]
C67RC_INT == Class(1, 0 .. 3)
RC_FLOAT == Class(2, {0, 2})
C67RC_EAX == Class(4, {0})
C67RC_ECX == Class(16, {1})
C67RC_EDX == Class(32, {2})
RC_ST0 == Class(8, {3})
RC_INT_BSIDE == Class(64, {2, 3})
RC_C67(i) == Class(256, IF i < 6 THEN {4 + 2 * i} ELSE IF i < 8 THEN {4 + 2 * i, 8 + 2 * i} ELSE {})
C67RC_IRET == RC_C67(0)

-----------------------------------------------------------------------------
(* C67_asm: the first form whose text the mnemonic begins with.  Its fields*)
(* name registers of the machine.                                          *)

C67Failed == [op |-> "assert"]
On(side, n) == 16 * side + n
C67Reg(r) == On(C67_map_regs(r), C67_map_regn(r))

\* Loads and stores: the register and the base of each form, the mode.
C67Access(op, data, base, mode, off) == [op |-> op, data |-> data, base |-> base, mode |-> mode, off |-> off]
AsmStore(op, form, a, b, c) ==
  LET Of(data, base) ==
        CASE form = "*+SP[A0]" -> C67Access(op, data, On(0, 15), "register", 0)
          [] form = "SP POST DEC" -> C67Access(op, data, On(1, 15), "after", -2)
          [] form = "*" -> C67Access(op, data, base, "constant", 0)
          [] form = "+*" -> IF c < 32 THEN C67Access(op, data, base, "constant", c) ELSE C67Failed
  IN  Of(C67Reg(a), C67Reg(b))
AsmLoad(op, form, a, b) ==
  LET Of(first, second) ==
        CASE form = "*+SP[A0]" -> C67Access(op, first, On(0, 15), "register", 0)
          [] form = "SP PRE INC" -> C67Access(op, first, On(1, 15), "before", IF op = "LDDW" THEN 1 ELSE 2)
          [] form = "*" -> C67Access(op, second, first, "constant", 0)
  IN  Of(C67Reg(a), C67Reg(b))

\* One operand may cross to the other side; the first is on the side of the result.
Three(op, a, b, c) ==
  IF C67_map_regs(a) # C67_map_regs(c) THEN C67Failed
  ELSE LET x == C67_map_regs(a) # C67_map_regs(b)
           side == C67_map_regs(c)
       IN  [op |-> op, dst |-> C67Reg(c), src1 |-> On(side, C67_map_regn(a)),
            src2 |-> On(IF x THEN 1 - side ELSE side, C67_map_regn(b))]
AsmCompare(op, a, b, c) == Three(op, a, b, c)
AsmArithmetic(op, a, b, c) == Three(op, a, b, c)
AsmShift(op, a, b, c) == Three(op, a, b, c)
\* Doubles are named by their odd register.
Odd == {"DPTRUNC", "DPSP"}
AsmUnary(op, b, c) ==
  LET x == C67_map_regs(b) # C67_map_regs(c)
      side == C67_map_regs(c)
  IN  IF op = "DPSP" /\ x THEN C67Failed
      ELSE [op |-> op, dst |-> C67Reg(c), src1 |-> 0,
            src2 |-> On(IF x THEN 1 - side ELSE side, C67_map_regn(b)) + IF op \in Odd THEN 1 ELSE 0]
AsmBranch(a, b, c) ==
  [op |-> "B", z |-> a, creg |-> C67_map_regc(b), src2 |-> On(C67_map_regs(c), C67_map_regn(c))]
\* A constant for a register, cycles, or a distance.
AsmConstant(op, a, b) ==
  [op |-> op, dst |-> C67Reg(b),
   cst |-> CASE op \in {"MVKL", "ADDK"} -> a % Half [] op = "MVKH" -> (a \div Half) % Half [] op \in {"NOP", "B DISP"} -> a]

C67Stores == {"STW", "STH", "STB"}
Loads == {"LDW", "LDDW", "LDH", "LDB", "LDHU", "LDBU"}
Arithmetic == {"ADD", "SUB", "OR", "AND", "XOR", "ADDSP", "ADDDP", "SUBSP", "SUBDP", "MPYSP", "MPYDP", "MPYI"}
C67Shifts == {"SHL", "SHR", "SHRU"}
C67Unary == {"MV", "SPTRUNC", "DPTRUNC", "INTSP", "INTDP", "SPDP", "DPSP"}
Constants == {"MVKL", "MVKH", "ADDK", "NOP", "B DISP"}
\* The comparisons in the order in which they are tried.
C67Comparisons == <<<<"CMPLT", "SP">>, <<"CMPGT", "SP">>, <<"CMPEQ", "SP">>, <<"CMPLT", "DP">>, <<"CMPGT", "DP">>, <<"CMPEQ", "DP">>,
                 <<"CMPLT">>, <<"CMPGT">>, <<"CMPEQ">>, <<"CMPLT", "U">>, <<"CMPGT", "U">>>>
\* An unsigned comparison begins with the name of the signed one.
CompareOf(s) ==
  LET k == CHOOSE i \in DOMAIN C67Comparisons : IsPrefix(C67Comparisons[i], s) /\ \A j \in 1 .. i - 1 : ~IsPrefix(C67Comparisons[j], s)
  IN  IF Len(C67Comparisons[k]) = 1 THEN C67Comparisons[k][1] ELSE C67Comparisons[k][1] \o C67Comparisons[k][2]

-----------------------------------------------------------------------------
(* What the generator calls the instructions by.                           *)

C67_MVKL(r, fc) == AsmConstant("MVKL", fc, r)
C67_MVKH(r, fc) == AsmConstant("MVKH", fc, r)
C67Constant(r, fc) == <<C67_MVKL(r, fc), C67_MVKH(r, fc)>>
Store_SP_A0(op, r) == AsmStore(op, "*+SP[A0]", r, 0, 0)
Store_PTR(op, r, r2) == AsmStore(op, "*", r, r2, 0)
C67_STW_PTR_PRE_INC(r, r2, n) == AsmStore("STW", "+*", r, r2, n)
C67_PUSH(r) == AsmStore("STW", "SP POST DEC", r, 0, 0)
Load_SP_A0(op, r) == AsmLoad(op, "*+SP[A0]", r, 0)
Load_PTR(op, r, r2) == AsmLoad(op, "*", r, r2)
C67_POP(r) == AsmLoad("LDW", "SP PRE INC", r, 0)
C67_POP_DW(r) == AsmLoad("LDDW", "SP PRE INC", r, 0)
C67_CMP(s, s1, s2) == AsmCompare(CompareOf(s), s1, s2, C67_B2)
C67_IREG_B_REG(inv, r1, r2) == AsmBranch(inv, r1, r2)
C67_B_DISP(g, disp) == AsmConstant("B DISP", disp + (Len(g.code) % 8), 0)
C67_NOP(n) == AsmConstant("NOP", n, 0)
C67_ADDK(n, r) == IF n < Half \div 2 - 1 THEN AsmConstant("ADDK", n, r) ELSE C67Failed
C67_MV(r, v) == AsmUnary("MV", r, v)
Arith(op, r, v) == AsmArithmetic(op, v, r, v)
ShiftOp(op, r, v) == AsmShift(op, r, v, v)
Convert(op, r, v) == AsmUnary(op, r, v)

-----------------------------------------------------------------------------
(* The generator's state.  Code is a sequence; ind counts bytes.           *)

TextBase == 1024            \* on a fetch packet of eight words
ind(g) == 4 * Len(g.code)
C67At(i) == TextBase + i
C67Emit(g, ws) ==
  [g EXCEPT !.code = @ \o ws, !.err = IF \E k \in DOMAIN ws : ws[k] = C67Failed THEN "internal compiler error" ELSE @]
\* greloc of a pair MVKL, MVKH that comes next.
Relocate(g, val) == [g EXCEPT !.relocs = Append(@, [at |-> Len(g.code) + 1, val |-> val])]

C67Entry(place, type, c) == [place |-> place, type |-> type, r |-> -2, r2 |-> -2, c |-> c]
C67InReg(e, r) == [e EXCEPT !.place = "reg", !.r = r, !.r2 = IF e.type = "double" THEN r + 1 ELSE @, !.c = 0]
C67Top(g) == g.vs[Len(g.vs)]
C67SetTop(g, e) == [g EXCEPT !.vs[Len(g.vs)] = e]
C67Push(g, e) == [g EXCEPT !.vs = Append(@, e)]
C67Pop(g) == [g EXCEPT !.vs = SubSeq(@, 1, Len(@) - 1)]
c67_vswap(g) == [g EXCEPT !.vs[Len(g.vs)] = g.vs[Len(g.vs) - 1], !.vs[Len(g.vs) - 1] = C67Top(g)]

IsFlt(t) == t \in {"float", "double"}
C67SizeOf(t) == CASE t \in {"char", "uchar"} -> 1 [] t \in {"short", "ushort"} -> 2 [] t = "double" -> 8 [] OTHER -> 4
LoadOp(t) ==
  CASE t = "char" -> "LDB" [] t = "uchar" -> "LDBU" [] t = "short" -> "LDH" [] t = "ushort" -> "LDHU"
    [] t = "double" -> "LDDW" [] OTHER -> "LDW"
StoreOp(t) == CASE C67SizeOf(t) = 1 -> "STB" [] C67SizeOf(t) = 2 -> "STH" [] OTHER -> "STW"

\* Parameters count from 8 up; each was pushed where the prologue notes it.
Position(g, k) == LET f[i \in 1 .. k] == IF i = 1 THEN 8 ELSE f[i - 1] + g.sizes[i - 1] IN f[k]
OnStack(g, fc) ==
  LET S == {k \in DOMAIN g.sizes : Position(g, k) = fc}
  IN  IF fc <= 0 THEN fc ELSE IF S = {} THEN 0 ELSE g.where[CHOOSE k \in S : TRUE] - 8
C67Quotient(a, b) == IF a >= 0 THEN a \div b ELSE -((-a) \div b)
Element(offset, size) == C67Quotient(offset, size) + 8 \div size

\* Mutant: one cycle short.
LoadSlotsShort == 3
\* The cycles that a load takes after its own.
LoadSlots == 4
LoadThrough(g, base, e, r) == C67Emit(g, <<Load_PTR(LoadOp(e.type), base, r), C67_NOP(LoadSlots)>>)
\* A list of jumps: each holds the address of the next one; all go to a.
gsym_addr(g, t, a) ==
  LET Next(h, k) == h.code[k].cst + h.code[k + 1].cst * Half
      Patched(h, k) == [h EXCEPT !.code[k].cst = 0, !.code[k + 1].cst = 0,
                                 !.relocs = Append(@, [at |-> k, val |-> C67At(a)])]
      f[i \in 0 .. 9] ==
        IF i = 0 THEN [g |-> g, t |-> t]
        ELSE LET One(p) == IF p.t = 0 THEN p ELSE [g |-> Patched(p.g, p.t \div 4 + 1), t |-> Next(p.g, p.t \div 4 + 1)]
             IN  One(f[i - 1])
  IN  f[9].g
gsym(g, t) == gsym_addr(g, t, ind(g))

LoadLvalue(g, r, e) ==
  CASE e.place = "llocal" ->         \* the size stays 0: only the pointer is loaded
         C67Emit(g, C67Constant(C67_A0, Element(OnStack(g, e.c), 4)) \o <<Load_SP_A0("LDW", r), C67_NOP(LoadSlots), C67_NOP(LoadSlots)>>)
    [] e.place = "ptr" -> LoadThrough(g, e.r, e, r)
    [] e.place = "sym" -> LoadThrough(C67Emit(Relocate(g, e.c), C67Constant(C67_A0, 0)), C67_A0, e, r)
    [] e.place \in {"local", "abs"} ->     \* a constant address as well, but it is no parameter's
         C67Emit(g, C67Constant(C67_A0, Element(IF e.place = "local" THEN OnStack(g, e.c) ELSE e.c, C67SizeOf(e.type))) \o <<Load_SP_A0(LoadOp(e.type), r), C67_NOP(LoadSlots)>>)
LoadJump(g, r, e) ==
  LET t == IF e.place = "jmpi" THEN 1 ELSE 0
      Skip(h) == C67Emit(h, <<C67_B_DISP(h, 4), C67_MVKL(r, t), C67_NOP(4)>>)
  IN  C67Emit(gsym(Skip(g), e.c), <<C67_MVKL(r, 1 - t)>>)
c67_load(g, r, e) ==
  CASE e.place \in {"llocal", "ptr", "sym", "local", "abs"} -> LoadLvalue(g, r, e)
    [] e.place = "const" -> C67Emit(g, C67Constant(r, e.c))
    [] e.place = "address of sym" -> C67Emit(Relocate(g, e.c), C67Constant(r, 0))
    [] e.place = "address" -> C67Emit(g, C67Constant(r, e.c + 8) \o <<Arith("ADD", C67_FP, r)>>)
    [] e.place = "cmp" -> C67Emit(g, <<C67_MV(g.cmp, r)>>)        \* whether the test is inverted or not
    [] e.place \in {"jmp", "jmpi"} -> LoadJump(g, r, e)
    [] e.place = "reg" ->
         IF e.r = r THEN g
         ELSE C67Emit(g, <<C67_MV(e.r, r)>> \o IF e.type = "double" THEN <<C67_MV(e.r + 1, r + 1)>> ELSE <<>>)

StoreThrough(g, base, t, r) ==
  C67Emit(g, <<Store_PTR(StoreOp(t), r, base)>> \o IF t = "double" THEN <<C67_STW_PTR_PRE_INC(r + 1, base, 1)>> ELSE <<>>)
StoreElement(t) == IF t = "double" THEN 4 ELSE C67SizeOf(t)
c67_store(g, r, e) ==
  CASE e.place = "sym" -> StoreThrough(C67Emit(Relocate(g, e.c), C67Constant(C67_A0, 0)), C67_A0, e.type, r)
    [] e.place = "abs" -> StoreThrough(C67Emit(g, C67Constant(C67_A0, e.c)), C67_A0, e.type, r)
    [] e.place = "local" ->
         C67Emit(g, C67Constant(C67_A0, Element(OnStack(g, e.c), StoreElement(e.type))) \o <<Store_SP_A0(StoreOp(e.type), r)>>
                 \o IF e.type = "double" THEN <<C67_ADDK(1, C67_A0), Store_SP_A0("STW", r + 1)>> ELSE <<>>)
    [] e.place = "ptr" -> StoreThrough(g, e.r, e.type, r)

-----------------------------------------------------------------------------
(* The value stack (tcc.c).                                                *)

Holding(e, r) == e.place \in {"reg", "ptr"} /\ e.r = r
C67Least(S) == CHOOSE x \in S : \A y \in S : x <= y
AlignDown(n, a) == (n \div a) * a
c67_save_reg(g, r) ==
  LET S == {i \in DOMAIN g.vs : Holding(g.vs[i], r)}
      e == g.vs[C67Least(S)]
      type == IF e.place = "reg" /\ IsFlt(e.type) THEN e.type ELSE "int"
      loc == AlignDown(g.loc - C67SizeOf(type), C67SizeOf(type))
      Spilled(p) == [p EXCEPT !.place = IF @ = "ptr" THEN "llocal" ELSE "local", !.r = -2, !.r2 = -2, !.c = loc]
      Marked(h) == [h EXCEPT !.vs = <<>> \o [i \in DOMAIN h.vs |-> IF i \in S THEN Spilled(h.vs[i]) ELSE h.vs[i]]]
  IN  IF S = {} THEN g ELSE Marked(c67_store([g EXCEPT !.loc = loc], r, C67Entry("local", type, loc)))
c67_get_reg(g, rc) ==
  LET free == {r \in rc.regs : \A i \in DOMAIN g.vs : r \notin {g.vs[i].r, g.vs[i].r2}}
      S == {i \in DOMAIN g.vs : {g.vs[i].r, g.vs[i].r2} \cap rc.regs # {}}
      e == g.vs[C67Least(S)]
      victim == IF e.r \in rc.regs THEN e.r ELSE e.r2
  IN  IF free # {} THEN [g |-> g, r |-> C67Least(free)]
      ELSE IF S = {} THEN [g |-> g, r |-> -1]
      ELSE [g |-> c67_save_reg(g, victim), r |-> victim]
c67_gv(g, rc) ==
  LET Loaded(h, r) == C67SetTop(c67_load(h, r, C67Top(h)), C67InReg(C67Top(h), r))
      Into(p) == IF p.r = -1 THEN C67SetTop([p.g EXCEPT !.err = "internal compiler error"], C67InReg(C67Top(g), 4)) ELSE Loaded(p.g, p.r)
  IN  IF C67Top(g).place = "reg" /\ C67Top(g).r \in rc.regs THEN C67SetTop(g, C67InReg(C67Top(g), C67Top(g).r)) ELSE Into(c67_get_reg(g, rc))
\* The entry below the top first, or the top; once more if the other took its register.
c67_gv2(g, rc1, rc2) ==
  LET leftFirst == C67Top(g).place \notin {"cmp", "jmp", "jmpi"} /\ rc1.n <= rc2.n
      IsLeft(i) == (i # 2) = leftFirst
      Turned(h, i) == IF IsLeft(i) THEN c67_vswap(h) ELSE h
      One(h, i) == IF i = 3 /\ C67Top(h).place = "reg" THEN h ELSE c67_gv(h, IF IsLeft(i) THEN rc1 ELSE rc2)
      f[i \in 0 .. 3] == IF i = 0 THEN g ELSE Turned(One(Turned(f[i - 1], i), i), i)
  IN  f[3]
\* A value that is not on the top goes out of the flags and the jumps before
\* anything else is pushed (vsetc).
Settled(g) == IF g.vs # <<>> /\ C67Top(g).place \in {"cmp", "jmp", "jmpi"} THEN c67_gv(g, C67RC_INT) ELSE g

-----------------------------------------------------------------------------
(* Calls.                                                                  *)

\* The branch, and in its delay slots the address behind it.
gcall_or_jmp(g, is_jmp) ==
  LET direct == C67Top(g).place = "address of sym"
      Returning(h) == C67Emit(Relocate(h, C67At(ind(h) + 12)), C67Constant(C67_B3, 0) \o <<C67_NOP(3)>>)
      Branched(h) == IF is_jmp THEN C67Emit(h, <<C67_NOP(5)>>) ELSE Returning(h)
      To(h) == Branched(C67Emit(h, <<C67_IREG_B_REG(0, C67_CREG_ZERO, IF direct THEN C67_A0 ELSE C67Top(h).r)>>))
  IN  To(IF direct THEN C67Emit(Relocate(g, C67Top(g).c), C67Constant(C67_A0, 0)) ELSE c67_gv(g, C67RC_INT))
gen_goto(g) == C67Pop(gcall_or_jmp(g, TRUE))

\* Each argument goes to its register and from there to the stack, the top of
\* the value stack first; then all come back.
c67_gfunc_call(g, n) ==
  LET Pushed(h) ==
        LET r == C67Top(h).r
        IN  C67Pop(C67Emit(h, <<C67_PUSH(r)>> \o IF C67Top(h).type = "double" THEN <<C67_STW_PTR_PRE_INC(r + 1, C67_SP, 3)>> ELSE <<>>))
      f[i \in 0 .. n] == IF i = 0 THEN g ELSE Pushed(c67_gv(f[i - 1], RC_C67(i - 1)))
      IsDouble(i) == g.vs[Len(g.vs) + 1 - i].type = "double"
      pops == [k \in 1 .. n |-> LET i == n + 1 - k IN (IF IsDouble(i) THEN C67_POP_DW(2 + 2 * i) ELSE C67_POP(2 + 2 * i))]
  IN  IF n > 10 THEN [g EXCEPT !.err = "more than 10 function params"]
      ELSE C67Pop(gcall_or_jmp(C67Emit(f[n], pops), FALSE))

\* Parameters are pushed where the body finds them; the frame's size is filled
\* in by the epilogue.
c67_gfunc_prolog(g, types) ==
  LET n == Len(types)
      One(i) == <<C67_PUSH(2 + 2 * i)>> \o IF types[i] = "double" THEN <<C67_STW_PTR_PRE_INC(3 + 2 * i, C67_SP, 3)>> ELSE <<>>
      pushes[i \in 0 .. n] == IF i = 0 THEN <<>> ELSE pushes[i - 1] \o One(i)
      Frame(h) == C67Emit([h EXCEPT !.addk = Len(h.code) + 1], <<C67_ADDK(0, C67_SP), C67_PUSH(C67_A0), C67_PUSH(C67_B3)>>)
  IN  Frame(C67Emit([g EXCEPT !.sizes = [i \in 1 .. n |-> IF types[i] = "double" THEN 8 ELSE 4],
                           !.where = [i \in 1 .. n |-> -8 * (i - 1)], !.loc = -8 * n, !.pushed = 8 * n],
                 <<C67_MV(C67_FP, C67_A0), C67_MV(C67_SP, C67_FP)>> \o pushes[n]))

\* The stack stays aligned for double words.
Frame8(loc) == ((-loc + 7) \div 8) * 8
gfunc_epilog(g) ==
  LET size == Frame8(g.loc)
  IN  [C67Emit(g, <<C67_POP(C67_B3), C67_NOP(4), C67_IREG_B_REG(0, C67_CREG_ZERO, C67_B3), C67_POP(C67_FP),
                 C67_ADDK(size, C67_SP), C67_NOP(3)>>) EXCEPT !.code[g.addk].cst = (g.pushed - size) % Half]

-----------------------------------------------------------------------------
(* Jumps and tests.                                                        *)

c67_gjmp(g, t) == C67Emit(g, C67Constant(C67_A0, t) \o <<C67_IREG_B_REG(0, C67_CREG_ZERO, C67_A0), C67_NOP(5)>>)
gjmp_addr(g, a) == c67_gjmp(Relocate(g, C67At(a)), 0)
\* Jump when the register is zero, or when it is not; a condition is in A2, B0, B1 or B2.
BranchIf(g, r, z, t) ==
  LET moved == r \notin {0, 2, 3, C67_B2}
      c == IF moved THEN C67_B2 ELSE r
  IN  C67Emit(g, C67Constant(C67_A0, t) \o (IF moved THEN <<C67_MV(r, C67_B2)>> ELSE <<>>)
              \o <<C67_IREG_B_REG(z, c, C67_A0), C67_NOP(5)>>)
Listed(g, t) == [g |-> C67Pop(g), t |-> t]
Xor(a, b) == IF a = b THEN 0 ELSE 1
\* The jumps of the list c go on to those of t.
Linked(g, c, t) ==
  LET f[i \in 0 .. 9] ==
        IF i = 0 THEN c ELSE LET k == f[i - 1] \div 4 + 1
                                 n == g.code[k].cst + g.code[k + 1].cst * Half
                             IN  IF n = 0 THEN f[i - 1] ELSE n
      k == f[9] \div 4 + 1
  IN  IF c = 0 /\ t = 0 THEN g
      ELSE IF c = 0 THEN [g EXCEPT !.err = "appends to no list"]
      ELSE [g EXCEPT !.code[k].cst = t % Half, !.code[k + 1].cst = t \div Half]
c67_gtst(g, inv, t) ==
  LET e == C67Top(g)
      Tested(h) == Listed(BranchIf(h, C67Top(h).r, inv, t), ind(h))
      jumps == IF e.place = "jmpi" THEN 1 ELSE 0
  IN  CASE e.place = "cmp" -> Listed(BranchIf(g, g.cmp, Xor(g.invert, inv), t), ind(g))
        [] e.place \in {"jmp", "jmpi"} /\ jumps = inv -> Listed(Linked(g, e.c, t), e.c)
        [] e.place \in {"jmp", "jmpi"} /\ jumps # inv -> Listed(gsym(c67_gjmp(g, t), e.c), ind(g))
        [] e.place = "const" -> IF (e.c # 0) # (inv = 1) THEN Listed(c67_gjmp(g, t), ind(g)) ELSE Listed(g, t)
        [] OTHER -> Tested(c67_gv(g, C67RC_INT))

-----------------------------------------------------------------------------
(* Operations.                                                             *)

Compares == {"==", "!=", "<", ">=", ">", "<=", "u<", "u>=", "u>", "u<="}
\* The comparison, and whether its result is taken the other way round.
CompareFor(op) ==
  CASE op \in {"<", ">="} -> <<"CMPLT">> [] op \in {">", "<="} -> <<"CMPGT">> [] op \in {"==", "!="} -> <<"CMPEQ">>
    [] op \in {"u<", "u>="} -> <<"CMPLT", "U">> [] op \in {"u>", "u<="} -> <<"CMPGT", "U">>
Inverted(op) == IF op \in {">=", "<=", "!=", "u>=", "u<="} THEN 1 ELSE 0
OpOf(op) == CASE op = "+" -> "ADD" [] op = "-" -> "SUB" [] op = "&" -> "AND" [] op = "|" -> "OR" [] op = "^" -> "XOR"
              [] op = "<<" -> "SHL" [] op = "u>>" -> "SHRU" [] op = ">>" -> "SHR"
\* The entry below the top becomes a comparison, the top goes.
C67Compared(g, s, op) ==
  LET n == Len(g.vs)
      h == C67Emit(g, <<C67_CMP(s, g.vs[n - 1].r, g.vs[n].r)>>)
  IN  [h EXCEPT !.cmp = C67_B2, !.invert = Inverted(op)]
IntoLeft(g, ws) == C67Pop(C67Emit(g, ws))
\* gfunc_call of a function of the run-time library; what is pushed is in A4.
C67Library(g, name, type) ==
  LET h == c67_vswap(g)
      n == Len(h.vs)
      f == [h EXCEPT !.vs = SubSeq(@, 1, n - 2) \o <<C67Entry("address of sym", "int", name)>> \o SubSeq(@, n - 1, n)]
  IN  C67Push(c67_gfunc_call(f, 2), [C67Entry("reg", type, 0) EXCEPT !.r = 4, !.r2 = IF type = "double" THEN 5 ELSE -2])
Native == [ops |-> <<"/", "u/", "%", "u%", "float /", "double /">>, base |-> 9000]
NativeOf(op) == Native.base + (CHOOSE k \in DOMAIN Native.ops : Native.ops[k] = op)
OpiClasses(op) ==
  CASE op \in Compares -> <<RC_INT_BSIDE, C67RC_INT>> [] op \in {"<<", "u>>", ">>"} -> <<RC_INT_BSIDE, RC_INT_BSIDE>> [] OTHER -> <<C67RC_INT, C67RC_INT>>
c67_gen_opi(g, op) ==
  LET Flags(h) == LET k == C67Pop(C67Compared(h, CompareFor(op), op)) IN C67SetTop(k, C67Entry("cmp", "int", 0))
      Left(h) == h.vs[Len(h.vs) - 1].r
      Plain(h) == IntoLeft(h, <<Arith(OpOf(op), C67Top(h).r, Left(h))>>)
      Times(h) == IntoLeft(h, <<Arith("MPYI", C67Top(h).r, Left(h)), C67_NOP(8)>>)
      Shifted(h) == IntoLeft(h, <<ShiftOp(OpOf(op), C67Top(h).r, Left(h))>>)
      Made(h) == CASE op \in Compares -> Flags(h) [] op = "*" -> Times(h)
                   [] op \in {"<<", "u>>", ">>"} -> Shifted(h) [] OTHER -> Plain(h)
  IN  IF op \in {"/", "u/", "%", "u%"} THEN C67Library(g, NativeOf(op), "int")
      ELSE Made(c67_gv2(g, OpiClasses(op)[1], OpiClasses(op)[2]))

Cycles(op, t) == CASE t = "float" -> 3 [] t = "double" /\ op = "*" -> 9 [] OTHER -> 6
FloatOp(op, t) == (CASE op = "+" -> "ADD" [] op = "-" -> "SUB" [] op = "*" -> "MPY") \o IF t = "double" THEN "DP" ELSE "SP"
\* The comparison of floating point values leaves both operands on the stack.
gen_opf(g, op) ==
  LET t == C67Top(g).type
      suffix == IF t = "double" THEN "DP" ELSE "SP"
      Flags(h) == C67SetTop(C67Compared(h, Append(SubSeq(CompareFor(op), 1, 1), suffix), op), C67Entry("cmp", "int", 0))
      Plain(h) == IntoLeft(h, <<Arith(FloatOp(op, t), C67Top(h).r, h.vs[Len(h.vs) - 1].r), C67_NOP(Cycles(op, t))>>)
      Made(h) == CASE op \in Compares -> Flags(h) [] op \in {"+", "-", "*"} -> Plain(h) [] op = "/" -> C67Library(h, NativeOf(t \o " /"), t)
      flags == op \in Compares
  IN  Made(c67_gv2(g, IF flags THEN C67RC_EDX ELSE RC_FLOAT, IF flags THEN C67RC_EAX ELSE RC_FLOAT))

C67Converted(g, op, slots, type) ==
  LET e == C67Top(g) IN C67SetTop(C67Emit(g, <<Convert(op, e.r, e.r), C67_NOP(slots)>>), [e EXCEPT !.type = type])
gen_cvt_itof(g, t) ==
  LET h == c67_gv(g, C67RC_INT) IN IF t = "double" THEN C67Converted(h, "INTDP", 4, t) ELSE C67Converted(h, "INTSP", 3, t)
gen_cvt_ftoi(g) == C67Converted(c67_gv(g, RC_FLOAT), IF C67Top(g).type = "double" THEN "DPTRUNC" ELSE "SPTRUNC", 3, "int")
gen_cvt_ftof(g, t) ==
  LET h == c67_gv(g, RC_FLOAT)
      Single == LET k == C67Converted(h, "DPSP", 3, t) IN C67SetTop(k, [C67Top(k) EXCEPT !.r2 = -2])
      Pair(p) == LET k == C67Converted(p.g, "SPDP", 1, t) IN C67SetTop(k, [C67Top(k) EXCEPT !.r2 = p.r])
  IN  IF t = "float" THEN Single ELSE Pair(c67_get_reg(h, IF C67Top(h).r = 0 THEN C67RC_ECX ELSE RC_ST0))

-----------------------------------------------------------------------------
(* The processor.                                                          *)

Delay(op) ==
  CASE op \in Loads -> 4
    [] op \in {"MPYI"} -> 8
    [] op \in {"ADDSP", "SUBSP", "MPYSP", "INTSP", "SPTRUNC", "DPTRUNC", "DPSP"} -> 3
    [] op \in {"ADDDP", "SUBDP"} -> 6
    [] op = "MPYDP" -> 9
    [] op = "INTDP" -> 4
    [] op \in {"SPDP", "CMPLTDP", "CMPGTDP", "CMPEQDP"} -> 1
    [] OTHER -> 0
AccessSize(op) == CASE op = "LDDW" -> 8 [] op \in {"LDW", "STW"} -> 4 [] op \in {"LDH", "LDHU", "STH"} -> 2 [] OTHER -> 1
ReadBytes(mem, a, n) == LET f[k \in 0 .. n] == IF k = 0 THEN 0 ELSE f[k - 1] + mem[a + k - 1] * C67Byte^(k - 1) IN f[n]
WriteBytes(mem, a, n, v) == [b \in DOMAIN mem |-> IF b \in a .. a + n - 1 THEN (v \div C67Byte^(b - a)) % C67Byte ELSE mem[b]]
Extended(v, n) == IF v >= C67Byte^n \div 2 THEN Short16(v - C67Byte^n) ELSE v
\* What a load of type t gives: one word or two.
ValueAt(mem, a, t) ==
  CASE t = "double" -> <<ReadBytes(mem, a, 4), ReadBytes(mem, a + 4, 4)>>
    [] t \in {"char", "short"} -> <<Extended(ReadBytes(mem, a, C67SizeOf(t)), C67SizeOf(t))>>
    [] OTHER -> <<ReadBytes(mem, a, C67SizeOf(t))>>
TypeOf(op) == CHOOSE t \in {"char", "uchar", "short", "ushort", "int", "double"} : LoadOp(t) = op

\* Floating point results: numbers that tell operations, operands and their order apart.
FloatResult(op, x, y, n) ==
  LET code == CASE op = "+" -> 17 [] op = "-" -> 34 [] op = "*" -> 51 [] op = "/" -> 68
  IN  [k \in 1 .. n |-> (code + 3 * x[1] + 5 * y[1] + 7 * x[Len(x)] + 11 * y[Len(y)] + 13 * k) % C67Word]
ConvertResult(from, to, x) ==
  LET code == (CASE from = "int" -> 19 [] from = "float" -> 38 [] from = "double" -> 57)
              + (CASE to = "int" -> 5 [] to = "float" -> 10 [] to = "double" -> 15)
  IN  [k \in 1 .. IF to = "double" THEN 2 ELSE 1 |-> (code + 3 * x[1] + 7 * x[Len(x)] + 13 * k) % C67Word]
FloatLess(x, y) == x[Len(x)] < y[Len(y)] \/ (x[Len(x)] = y[Len(y)] /\ x[1] < y[1])
Times16(a, b) == Short16(SignedOf(a) * SignedOf(b))
OneBits(a) == {k \in 0 .. 15 : (a \div 2^k) % 2 = 1}
FromBits(S) == LET f[k \in 0 .. 16] == IF k = 0 THEN 0 ELSE f[k - 1] + (IF k - 1 \in S THEN 2^(k - 1) ELSE 0) IN f[16]
IntResult(op, a, b) ==
  CASE op \in {"+"} -> Short16(a + b)
    [] op = "-" -> Short16(a - b)
    [] op = "*" -> Times16(a, b)
    [] op = "&" -> FromBits(OneBits(a) \cap OneBits(b))
    [] op = "|" -> FromBits(OneBits(a) \cup OneBits(b))
    [] op = "^" -> FromBits((OneBits(a) \cup OneBits(b)) \ (OneBits(a) \cap OneBits(b)))
    [] op = "<<" -> Short16((a % 2^(16 - b)) * 2^b)
    [] op = "u>>" -> a \div 2^b
    [] op = ">>" -> Short16(SignedOf(a) \div 2^b)
    [] op = "u/" -> a \div b
    [] op = "u%" -> a % b
    [] op = "/" -> Short16(C67Quotient(SignedOf(a), SignedOf(b)))
    [] op = "%" -> Short16(SignedOf(a) - SignedOf(b) * C67Quotient(SignedOf(a), SignedOf(b)))
C67Truth(b) == IF b THEN 1 ELSE 0
C67Ordered(op, x, y) ==
  LET a == SignedOf(x)
      b == SignedOf(y)
  IN  CASE op = "==" -> a = b [] op = "!=" -> a # b [] op = "<" -> a < b [] op = ">=" -> a >= b [] op = ">" -> a > b
        [] op = "<=" -> a <= b [] op = "u<" -> x < y [] op = "u>=" -> x >= y [] op = "u>" -> x > y [] op = "u<=" -> x <= y

\* The value of an instruction with results, from the two operands or pairs.
C67Pair(regs, r) == <<regs[r], regs[r + 1]>>
Computed(w, regs) ==
  LET a == regs[w.src1]
      b == regs[w.src2]
      A == C67Pair(regs, w.src1)
      BB == C67Pair(regs, w.src2)
  IN  CASE w.op = "MV" -> <<b>>
        [] w.op = "ADD" -> <<IntResult("+", a, b)>> [] w.op = "SUB" -> <<IntResult("-", a, b)>>
        [] w.op = "AND" -> <<IntResult("&", a, b)>> [] w.op = "OR" -> <<IntResult("|", a, b)>>
        [] w.op = "XOR" -> <<IntResult("^", a, b)>> [] w.op = "MPYI" -> <<Times16(a, b)>>
        [] w.op = "SHL" -> <<IntResult("<<", b, a % 16)>> [] w.op = "SHRU" -> <<IntResult("u>>", b, a % 16)>>
        [] w.op = "SHR" -> <<IntResult(">>", b, a % 16)>>
        [] w.op = "CMPLT" -> <<C67Truth(C67Ordered("<", a, b))>> [] w.op = "CMPGT" -> <<C67Truth(C67Ordered(">", a, b))>>
        [] w.op = "CMPEQ" -> <<C67Truth(a = b)>>
        [] w.op = "CMPLTU" -> <<C67Truth(a < b)>> [] w.op = "CMPGTU" -> <<C67Truth(a > b)>>
        [] w.op = "CMPLTSP" -> <<C67Truth(FloatLess(<<a>>, <<b>>))>> [] w.op = "CMPGTSP" -> <<C67Truth(FloatLess(<<b>>, <<a>>))>>
        [] w.op = "CMPEQSP" -> <<C67Truth(a = b)>>
        [] w.op = "CMPLTDP" -> <<C67Truth(FloatLess(A, BB))>> [] w.op = "CMPGTDP" -> <<C67Truth(FloatLess(BB, A))>>
        [] w.op = "CMPEQDP" -> <<C67Truth(A = BB)>>
        [] w.op = "ADDSP" -> FloatResult("+", <<a>>, <<b>>, 1) [] w.op = "SUBSP" -> FloatResult("-", <<a>>, <<b>>, 1)
        [] w.op = "MPYSP" -> FloatResult("*", <<a>>, <<b>>, 1)
        [] w.op = "ADDDP" -> FloatResult("+", A, BB, 2) [] w.op = "SUBDP" -> FloatResult("-", A, BB, 2)
        [] w.op = "MPYDP" -> FloatResult("*", A, BB, 2)
        [] w.op = "INTSP" -> ConvertResult("int", "float", <<b>>) [] w.op = "INTDP" -> ConvertResult("int", "double", <<b>>)
        [] w.op = "SPTRUNC" -> ConvertResult("float", "int", <<b>>)
        [] w.op = "SPDP" -> ConvertResult("float", "double", <<b>>)
        [] w.op = "DPTRUNC" -> ConvertResult("double", "int", C67Pair(regs, w.src2 - 1))
        [] w.op = "DPSP" -> ConvertResult("double", "float", C67Pair(regs, w.src2 - 1))

\* Time passes: results arrive; a jump under way may be taken.
Elapse(x, new, k, jump) ==
  LET lands == x.jump.n > 0 /\ x.jump.n <= k
      time == IF lands THEN x.jump.n ELSE k
      due == x.due \cup new
      now == {d \in due : d.n < time}
  IN  [x EXCEPT !.regs = [r \in 0 .. 31 |-> IF \E d \in now : d.r = r THEN (CHOOSE d \in now : d.r = r).v ELSE @[r]],
                !.due = {[d EXCEPT !.n = @ - time] : d \in due \ now},
                !.jump = IF jump.n > 0 THEN jump ELSE IF lands \/ @.n = 0 THEN [n |-> 0, to |-> 0] ELSE [@ EXCEPT !.n = @ - time],
                !.pc = IF lands THEN x.jump.to ELSE @ + 4]
NoJump == [n |-> 0, to |-> 0]
Results(w, r, vs) == {[r |-> r + k - 1, v |-> vs[k], n |-> Delay(w.op)] : k \in 1 .. Len(vs)}
Now(r, v) == [r |-> r, v |-> v, n |-> 0]
Condition(x, w) ==
  LET r == CASE w.creg = 5 -> 2 [] w.creg = 1 -> 16 [] w.creg = 2 -> 17 [] w.creg = 3 -> 18 [] OTHER -> 0
  IN  w.creg = 0 \/ (x.regs[r] = 0) = (w.z = 1)
Wrong(x, what) == [x EXCEPT !.err = what]
Touched(x, w) ==
  LET size == AccessSize(w.op)
      unit == IF w.op = "LDDW" THEN 8 ELSE IF size = 8 THEN 4 ELSE size
      base == x.regs[w.base]
      off == SignedOf(x.regs[0]) * unit
      moved == Short16(base + w.off * unit)
      a == CASE w.mode = "register" -> Short16(base + off) [] w.mode = "after" -> base [] OTHER -> moved
      update == IF w.mode \in {"after", "before"} THEN {Now(w.base, moved)} ELSE {}
  IN  IF a % size # 0 \/ ~(a .. a + size - 1 \subseteq DOMAIN x.mem) THEN Wrong(x, "address")
      ELSE IF w.op \in Loads THEN Elapse(x, update \cup Results(w, w.data, ValueAt(x.mem, a, TypeOf(w.op))), 1, NoJump)
      ELSE Elapse([x EXCEPT !.mem = WriteBytes(@, a, size, x.regs[w.data])], update, 1, NoJump)
Execute(x, w) ==
  CASE w.op = "NOP" -> Elapse(x, {}, w.cst, NoJump)
    [] w.op = "MVKL" -> Elapse(x, {Now(w.dst, Short16(SignedHalf(w.cst)))}, 1, NoJump)
    [] w.op = "MVKH" -> Elapse(x, {Now(w.dst, AddHigh(x.regs[w.dst], w.cst))}, 1, NoJump)
    [] w.op = "ADDK" -> Elapse(x, {Now(w.dst, Short16(x.regs[w.dst] + SignedHalf(w.cst)))}, 1, NoJump)
    [] w.op = "B DISP" -> Elapse(x, {}, 1, [n |-> 5, to |-> (x.pc \div 32) * 32 + 4 * w.cst])
    [] w.op = "B" -> Elapse(x, {}, 1, IF Condition(x, w) THEN [n |-> 5, to |-> x.regs[w.src2]] ELSE NoJump)
    [] w.op \in Loads \cup C67Stores -> Touched(x, w)
    [] OTHER -> Elapse(x, Results(w, w.dst, Computed(w, x.regs)), 1, NoJump)

A4 == 4
B4 == 20
B3 == 19
\* A function of the run-time library; it may change A0 to A9 and B0 to B9.
CallNative(x) ==
  LET op == Native.ops[x.pc - Native.base]
      a == IF op = "double /" THEN C67Pair(x.regs, A4) ELSE <<x.regs[A4]>>
      b == IF op = "double /" THEN C67Pair(x.regs, B4) ELSE <<x.regs[B4]>>
      res == IF op \in {"float /", "double /"} THEN FloatResult("/", a, b, Len(a)) ELSE <<IntResult(op, a[1], b[1])>>
      kept == 10 .. 15 \cup 26 .. 31
  IN  [x EXCEPT !.regs = [r \in 0 .. 31 |-> IF r \in A4 .. A4 + Len(res) - 1 THEN res[r - A4 + 1] ELSE IF r \in kept THEN @[r] ELSE 12345],
                !.pc = x.regs[B3]]

-----------------------------------------------------------------------------
(* Steps: calls of the back end.                                           *)

C67FirstFree == 800                 \* what the stack pointer is at first
Memory0 == 520 .. 551 \cup 640 .. 807
C67Stop == 4096
\* Two pointers among the locals; everything else is a number made of the address.
Initial == WriteBytes(WriteBytes([a \in Memory0 |-> (7 * a + a \div 5 + 3) % C67Byte], C67FirstFree + 4, 4, 524), C67FirstFree - 4, 4, 536)
FrameOfCaller == 24
Idle == [status |-> "off"]
Generator(steps) ==
  [steps |-> steps, todo |-> steps, code |-> <<C67_NOP(1)>>, vs |-> <<>>, cmp |-> C67_B2, invert |-> 0, loc |-> 0,
   sizes |-> <<>>, where |-> <<>>, pushed |-> 0, addk |-> 0, lists |-> [n \in {"x", "y", "z"} |-> 0],
   marks |-> [n \in {"f", "g", "main", "m"} |-> 0], relocs |-> <<>>, err |-> ""]
Compile67(steps) == gen = Generator(steps) /\ dsp = Idle

C67Step == Head(gen.todo)
Doing(what) == gen.todo # <<>> /\ C67Step.do = what
C67Becomes(g) == gen' = [g EXCEPT !.todo = Tail(@)] /\ UNCHANGED dsp

\* An operand, a function, or the value of && and ||: 0 or 1 by way of jumps.
StepEntry ==
  CASE C67Step.do = "push" -> C67Step.e
    [] C67Step.do = "function" -> C67Entry("address of sym", "int", C67At(gen.marks[C67Step.name]))
    [] C67Step.do = "logical" -> C67Entry(C67Step.place, "int", gen.lists[C67Step.name])
PushValue ==
  /\ \E what \in {"push", "function", "logical"} : Doing(what)
  /\ C67Becomes(C67Push(Settled(gen), StepEntry))
ToRegister == Doing("gv") /\ C67Becomes(c67_gv(gen, C67Step.rc))
C67Indirect ==
  /\ Doing("indir")
  /\ LET Through(g) == C67SetTop(g, [C67Top(g) EXCEPT !.place = "ptr", !.type = C67Step.type]) IN C67Becomes(Through(c67_gv(gen, C67RC_INT)))
OperateInt == Doing("opi") /\ C67Becomes(c67_gen_opi(gen, C67Step.op))
OperateFloat == Doing("opf") /\ C67Becomes(gen_opf(gen, C67Step.op))
ConvertItof == Doing("itof") /\ C67Becomes(gen_cvt_itof(gen, C67Step.type))
ConvertFtoi == Doing("ftoi") /\ C67Becomes(gen_cvt_ftoi(gen))
ConvertFtof == Doing("ftof") /\ C67Becomes(gen_cvt_ftof(gen, C67Step.type))
\* vstore, and the value is dropped.
C67Assign ==
  /\ Doing("assign")
  /\ LET n == Len(gen.vs) - 1
         Into(g) == C67Pop(C67Pop(c67_store(g, C67Top(g).r, g.vs[n])))
     IN  C67Becomes(Into(c67_gv(gen, IF IsFlt(gen.vs[n].type) THEN RC_FLOAT ELSE C67RC_INT)))
C67Test == Doing("test") /\ LET Taken(p) == C67Becomes([p.g EXCEPT !.lists[C67Step.name] = p.t])
                         IN  Taken(c67_gtst(gen, C67Step.inv, gen.lists[C67Step.name]))
C67Jump == Doing("jump") /\ C67Becomes([c67_gjmp(gen, gen.lists[C67Step.name]) EXCEPT !.lists[C67Step.name] = ind(gen)])
C67Label == Doing("label") /\ C67Becomes(gsym(gen, gen.lists[C67Step.name]))
Mark == Doing("mark") /\ C67Becomes([gen EXCEPT !.marks[C67Step.name] = ind(gen)])
Patch == Doing("patch") /\ C67Becomes(gsym_addr(gen, gen.lists[C67Step.name], gen.marks[C67Step.to]))
C67Back == Doing("back") /\ C67Becomes(gjmp_addr(gen, gen.marks[C67Step.to]))
Goto == Doing("goto") /\ C67Becomes(gen_goto(gen))
C67Call ==
  /\ Doing("call")
  /\ LET result == [C67Entry("reg", C67Step.type, 0) EXCEPT !.r = 4, !.r2 = IF C67Step.type = "double" THEN 5 ELSE -2]
     IN  C67Becomes(C67Push(c67_gfunc_call(gen, C67Step.n), result))
Enter == Doing("enter") /\ C67Becomes(c67_gfunc_prolog([gen EXCEPT !.marks[C67Step.name] = ind(gen)], C67Step.types))
C67Locals == Doing("locals") /\ C67Becomes([gen EXCEPT !.loc = @ - C67Step.n])
\* The value of return goes to A4.
ReturnValue == Doing("return") /\ C67Becomes(C67Pop(c67_gv(gen, C67RC_IRET)))
Leave == Doing("leave") /\ C67Becomes(gfunc_epilog(gen))

\* The linker adds what the relocations say, and main is called.
Link67 ==
  /\ gen.todo = <<>> /\ dsp.status = "off"
  /\ LET Sum(k) == LET S == {i \in DOMAIN gen.relocs : gen.relocs[i].at = k} IN IF S = {} THEN 0 ELSE gen.relocs[C67Least(S)].val
         low(k) == gen.code[k].cst + gen.code[k + 1].cst * Half + Sum(k)
         One(k) == CASE Sum(k) # 0 -> [gen.code[k] EXCEPT !.cst = low(k) % Half]
                     [] k > 1 /\ Sum(k - 1) # 0 -> [gen.code[k] EXCEPT !.cst = low(k - 1) \div Half]
                     [] OTHER -> gen.code[k]
     IN  gen' = [gen EXCEPT !.code = [k \in DOMAIN @ |-> One(k)]]
  /\ dsp' = [status |-> IF gen.err = "" THEN "runs" ELSE "done", pc |-> C67At(gen.marks["main"]),
             regs |-> [r \in 0 .. 31 |-> CASE r = 31 -> C67FirstFree [] r = 15 -> FrameOfCaller [] r = B3 -> C67Stop [] OTHER -> 9 * r + 1],
             mem |-> Initial, due |-> {}, jump |-> NoJump, err |-> gen.err]
C67Instruction == gen.code[(dsp.pc - TextBase) \div 4 + 1]
Running == dsp.status = "runs" /\ UNCHANGED gen
InText(pc) == pc \in {C67At(4 * (k - 1)) : k \in DOMAIN gen.code}
Tick == Running /\ dsp.err = "" /\ InText(dsp.pc) /\ dsp' = Execute(dsp, C67Instruction)
RunLibrary == Running /\ dsp.err = "" /\ dsp.pc - Native.base \in DOMAIN Native.ops /\ dsp' = CallNative(dsp)
Finish == Running /\ (dsp.pc = C67Stop \/ dsp.err # "") /\ dsp' = [dsp EXCEPT !.status = "done"]

C67Next ==
  \/ PushValue \/ ToRegister \/ C67Indirect \/ OperateInt \/ OperateFloat
  \/ ConvertItof \/ ConvertFtoi \/ ConvertFtof \/ C67Assign \/ C67Test \/ C67Jump \/ C67Label \/ Mark \/ Patch \/ C67Back \/ Goto
  \/ C67Call \/ Enter \/ C67Locals \/ ReturnValue \/ Leave
  \/ Link67 \/ Tick \/ RunLibrary \/ Finish
=============================================================================

------------------------------ MODULE ArmCode ------------------------------
(***************************************************************************)
(* The instructions that the ARM code generator chooses (arm/gen.c):        *)
(* constants as immediate operands (stuff_const), offsets that no           *)
(* instruction holds (calcaddr), load and store, and integer operations     *)
(* (gen_opi).  Instructions are executed as they are emitted.               *)
(*                                                                         *)
(* A word has W bits, 32 in the code; an immediate operand is a word whose *)
(* bits lie in ImmBits neighbouring places, 8 in the code, the first one   *)
(* even, round the word.  Offsets of words, of halfwords and signed bytes, *)
(* and of floating point values are limited to the three offsets below.    *)
(***************************************************************************)
EXTENDS Integers, Sequences, FiniteSets

CONSTANTS W, ImmBits,
          WordOffset, HalfOffset, FloatOffset   \* 4095, 255 and 1020 in the code

ASSUME WordIsFourImmediates == ImmBits \in Nat \ {0} /\ ImmBits % 2 = 0 /\ W = 4 * ImmBits

VARIABLES task, cpu, done
codeVars == <<task, cpu, done>>

WordValues == 0 .. 2^W - 1
Wrapped(n) == n % 2^W
SignedWord(n) == IF n >= 2^(W - 1) THEN n - 2^W ELSE n
ProductOf(a, b) == Wrapped(SignedWord(a) * SignedWord(b))
BitsOf(n) == {b \in 0 .. W - 1 : (n \div 2^b) % 2 = 1}
ToWord(S) == LET f[b \in 0 .. W] == IF b = 0 THEN 0 ELSE f[b - 1] + (IF b - 1 \in S THEN 2^(b - 1) ELSE 0) IN f[W]
BitAnd(a, b) == ToWord(BitsOf(a) \cap BitsOf(b))
BitOr(a, b) == ToWord(BitsOf(a) \cup BitsOf(b))
BitXor(a, b) == ToWord((BitsOf(a) \cup BitsOf(b)) \ (BitsOf(a) \cap BitsOf(b)))
BitNot(a) == 2^W - 1 - a

fp == 11
sp == 13
lr == 14
IntRegs == <<0, 1, 2, 3, 12>>           \* by TREG number
MachineRegs == {0, 1, 2, 3, 12, fp, sp, lr}

-----------------------------------------------------------------------------
(* Instructions: op, destination, first operand, second operand: an         *)
(* immediate or a register.                                                *)

Imm(op, d, n, c) == [op |-> op, d |-> d, n |-> n, imm |-> TRUE, o |-> c]
Reg(op, d, n, r) == [op |-> op, d |-> d, n |-> n, imm |-> FALSE, o |-> r]

\* Sum with carry in; carry and overflow.
Adder(a, b, c) ==
  LET s == a + b + c
      t == SignedWord(a) + SignedWord(b) + c
  IN  [v |-> Wrapped(s), c |-> s \div 2^W, o |-> t # SignedWord(Wrapped(s))]
AluResult(v, f) == [v |-> v, c |-> f.c, o |-> f.o]
ArmAlu(op, a, b, f) ==
  CASE op \in {"add", "adds"} -> Adder(a, b, 0)
    [] op \in {"sub", "subs", "cmp"} -> Adder(a, BitNot(b), 1)
    [] op \in {"rsb", "rsbs"} -> Adder(b, BitNot(a), 1)
    [] op = "adc" -> Adder(a, b, f.c)
    [] op = "sbc" -> Adder(a, BitNot(b), f.c)
    [] op = "rsc" -> Adder(b, BitNot(a), f.c)
    [] op = "and" -> AluResult(BitAnd(a, b), f)
    [] op = "bic" -> AluResult(BitAnd(a, BitNot(b)), f)
    [] op = "orr" -> AluResult(BitOr(a, b), f)
    [] op = "eor" -> AluResult(BitXor(a, b), f)
    [] op = "mov" -> AluResult(b, f)
    [] op = "mvn" -> AluResult(BitNot(b), f)
    [] op = "lsl" -> AluResult(Wrapped(a * 2^b), f)
    [] op = "lsr" -> AluResult(a \div 2^b, f)
    [] op = "asr" -> AluResult(Wrapped(SignedWord(a) \div 2^b), f)
SetsFlags == {"adds", "subs", "rsbs", "cmp"}
\* One instruction is executed.
Exec(x, i) ==
  LET Written(z) ==
        [x EXCEPT !.regs = IF i.op = "cmp" THEN @ ELSE [@ EXCEPT ![i.d] = z.v],
                  !.flags = IF i.op \in SetsFlags
                            THEN [c |-> z.c, o |-> z.o, z |-> z.v = 0, n |-> SignedWord(z.v) < 0] ELSE @]
  IN  Written(ArmAlu(i.op, x.regs[i.n], IF i.imm THEN i.o ELSE x.regs[i.o], x.flags))

-----------------------------------------------------------------------------
(* Constants.                                                              *)

\* The places of an immediate that is rotated right by 2 * r.
Window(r) == {(b - 2 * r) % W : b \in 0 .. ImmBits - 1}
Rotations == 0 .. W \div 2 - 1
IsImmediate(c) == \E r \in Rotations : BitsOf(c) \subseteq Window(r)
NoWay == Imm("none", 0, 0, 0)

\* The operation that does the same with another constant.
OtherWay(op, c) ==
  CASE op = "add" -> <<"sub", Wrapped(-c)>> [] op = "sub" -> <<"add", Wrapped(-c)>>
    [] op = "mov" -> <<"mvn", BitNot(c)>> [] op = "mvn" -> <<"mov", BitNot(c)>>
    [] op = "and" -> <<"bic", BitNot(c)>> [] op = "bic" -> <<"and", BitNot(c)>>
    [] OTHER -> <<"none", 0>>
stuff_const(op, d, n, c) ==
  LET ones == c = 2^W - 1
      Other(p) == IF p[1] # "none" /\ IsImmediate(p[2]) THEN Imm(p[1], d, n, p[2]) ELSE NoWay
  IN  CASE op = "eor" /\ ones -> Reg("mvn", d, n, n)
        [] op = "and" /\ ones -> Reg("mov", d, n, n)
        [] op = "orr" /\ ones -> Imm("mvn", d, n, 0)
        [] OTHER -> IF IsImmediate(c) THEN Imm(op, d, n, c) ELSE Other(OtherWay(op, c))

\* In two instructions.  The inner loop increments i, and its condition always
\* holds: i goes on from 0 with j = 4 until the two windows hold v, or past the
\* end of a[], which is undefined; what follows the first pair of loops is
\* never reached.  Bits in both windows are added twice: the sum is wrong.
stuff_const_harder(x, op, d, n, v) ==
  LET last == Window(ImmBits \div 2)
      S == {i \in Rotations : BitsOf(v) \subseteq Window(i) \cup last}
      Two(first) == Exec(Exec(x, stuff_const(op, d, n, ToWord(BitsOf(v) \cap first))),
                         stuff_const(op, d, d, ToWord(BitsOf(v) \cap last)))
      Covered(first) == IF BitsOf(v) \cap first \cap last = {} THEN Two(first) ELSE [Two(first) EXCEPT !.err = "wrong sum"]
      One(k) == IF k # NoWay THEN Exec(x, k)
                ELSE IF S = {} THEN [x EXCEPT !.err = "undefined"]
                ELSE Covered(Window(CHOOSE i \in S : \A k2 \in S : i <= k2))
  IN  One(stuff_const(op, d, n, v))

gadd_sp(x, val) == stuff_const_harder(x, "add", sp, sp, Wrapped(val))

-----------------------------------------------------------------------------
(* Addresses: base plus or minus off, which is not negative.               *)

AddressAt(base, off, neg) == [base |-> base, off |-> off, neg |-> neg]
\* The offset from the next larger multiple.
FromAbove(neg) == ~neg
calcaddr(x, a, maxoff, shift) ==
  LET op == IF a.neg THEN "sub" ELSE "add"
      low == BitAnd(a.off, BitNot(maxoff))
      up == BitAnd(a.off + maxoff, BitNot(maxoff))
      near == stuff_const(op, lr, a.base, low)
      far == stuff_const(op, lr, a.base, up)
      rest == BitAnd(a.off, maxoff)
  IN  CASE a.off <= maxoff /\ a.off % 2^shift = 0 -> [x |-> x, a |-> a]
        [] OTHER ->
             IF near # NoWay THEN [x |-> Exec(x, near), a |-> AddressAt(lr, rest, a.neg)]
             ELSE IF far # NoWay THEN [x |-> Exec(x, far), a |-> AddressAt(lr, up - a.off, FromAbove(a.neg))]
             ELSE [x |-> stuff_const_harder(x, op, lr, a.base, low), a |-> AddressAt(lr, rest, a.neg)]

\* What memory holds is a number made of the address.
MemoryAt(addr) == Wrapped(5 * addr + 3)
Effective(x, a) == Wrapped(IF a.neg THEN x.regs[a.base] - a.off ELSE x.regs[a.base] + a.off)

SignedType(t) == t \in {"char", "short"}
SizeOf(t) == CASE t \in {"char", "uchar"} -> 1 [] t \in {"short", "ushort"} -> 2
               [] t = "double" -> 8 [] OTHER -> 4
Flt(t) == t \in {"float", "double"}
\* The access, of the size and the sign that the instruction has.
Access(x, a, t, store) ==
  LET sign == ~store /\ SignedType(t)
      Done(p) == [p.x EXCEPT !.access = [addr |-> Effective(p.x, p.a), size |-> SizeOf(t), signed |-> sign, store |-> store]]
  IN  CASE Flt(t) -> Done(calcaddr(x, a, FloatOffset, 2))
        [] SizeOf(t) = 2 \/ sign -> Done(calcaddr(x, a, HalfOffset, 0))
        [] OTHER -> Done(calcaddr(x, a, WordOffset, 0))
\* ldr lr, [...]
LoadPointer(x, a) ==
  LET Done(p) == [p.x EXCEPT !.regs[lr] = MemoryAt(Effective(p.x, p.a))] IN Done(calcaddr(x, a, WordOffset, 0))

Local(c) == AddressAt(fp, IF c < 0 THEN -c ELSE c, c < 0)
Through(r) == AddressAt(r, 0, FALSE)
\* A constant in r: an immediate, or a word in the code behind a branch.
LoadConst(x, r, c) ==
  LET i == stuff_const("mov", r, r, Wrapped(c))
  IN  IF i = NoWay THEN [x EXCEPT !.regs[r] = Wrapped(c)] ELSE Exec(x, i)
\* The address of a local.
LoadAddress(x, r, c) ==
  LET i == stuff_const("add", r, fp, Wrapped(c))
  IN  IF i = NoWay THEN Exec([x EXCEPT !.regs[r] = Wrapped(c)], Reg("add", r, fp, r)) ELSE Exec(x, i)

\* load and store of an lvalue: a local, the target of a pointer in a register,
\* a constant address.  Only load goes through a pointer that is in a local:
\* vstore has it loaded before a store.
Lvalue(x, sv, store) ==
  CASE sv.place = "local" -> Access(x, Local(sv.c), sv.type, store)
    [] sv.place = "llocal" ->
         IF store THEN [x EXCEPT !.err = "store unimplemented"]
         ELSE Access(LoadPointer(x, Local(sv.c)), Through(lr), sv.type, store)
    [] sv.place = "ptr" -> Access(x, Through(sv.r), sv.type, store)
    [] sv.place = "memory" -> Access(LoadConst(x, lr, sv.c), Through(lr), sv.type, store)

(* Conditions. *)
Conditions == {"==", "!=", "<", ">=", "<=", ">", "u<", "u>=", "u<=", "u>"}
mapcc(cc, f) ==
  CASE cc = "u<" -> f.c = 0 [] cc = "u>=" -> f.c = 1
    [] cc = "==" -> f.z     [] cc = "!=" -> ~f.z
    [] cc = "u<=" -> f.c = 0 \/ f.z [] cc = "u>" -> f.c = 1 /\ ~f.z
    [] cc = "<" -> f.n # f.o  [] cc = ">=" -> f.n = f.o
    [] cc = "<=" -> f.z \/ f.n # f.o [] cc = ">" -> ~f.z /\ f.n = f.o
negcc(cc) ==
  CASE cc = "u<" -> "u>=" [] cc = "u>=" -> "u<" [] cc = "==" -> "!=" [] cc = "!=" -> "=="
    [] cc = "u<=" -> "u>" [] cc = "u>" -> "u<=" [] cc = "<" -> ">=" [] cc = ">=" -> "<"
    [] cc = "<=" -> ">" [] cc = ">" -> "<="
Conditional(x, holds, i) == IF holds THEN Exec(x, i) ELSE x
\* load of a comparison: one of two conditional instructions is executed.
LoadCmp(x, r, cc) ==
  Conditional(Conditional(x, mapcc(cc, x.flags), Imm("mov", r, r, 1)),
              mapcc(negcc(cc), x.flags), Imm("mov", r, r, 0))

-----------------------------------------------------------------------------
(* gen_opi: two entries on the value stack, and others below that may be in*)
(* the same registers.                                                     *)

Opcode(op) ==
  CASE op = "+" -> "add" [] op = "addc1" -> "adds" [] op = "-" -> "sub" [] op = "subc1" -> "subs"
    [] op = "addc2" -> "adc" [] op = "subc2" -> "sbc" [] op = "&" -> "and" [] op = "^" -> "eor"
    [] op = "|" -> "orr" [] op = "<<" -> "lsl" [] op = "u>>" -> "lsr" [] op = ">>" -> "asr"
    [] OTHER -> "cmp"
Reverse(opc) == CASE opc = "sub" -> "rsb" [] opc = "subs" -> "rsbs" [] opc = "sbc" -> "rsc" [] OTHER -> opc

InR(e, r) == [e EXCEPT !.place = "reg", !.r = r]
Using(x, r) == {i \in DOMAIN x.vs : x.vs[i].place = "reg" /\ x.vs[i].r = r}
FirstOf(S) == IntRegs[CHOOSE i \in 1 .. 5 : IntRegs[i] \in S /\ \A j \in 1 .. i - 1 : IntRegs[j] \notin S]
UsedAtMost(x, S, n) == {r \in S : Cardinality(Using(x, r)) <= n}
FreeReg(x) == FirstOf(UsedAtMost(x, {0, 1, 2, 3, 12}, 0))
\* Mutant: a register that another entry below needs is one too many.
SharedWithBelow(x, mask) == UsedAtMost(x, mask, 2)
\* The registers of the mask that no other entry needs.
Owned(x, mask) == UsedAtMost(x, mask, 1)
\* A register of the mask that one entry uses at most, or a free one.
get_reg_ex(x, mask) == IF Owned(x, mask) # {} THEN FirstOf(Owned(x, mask)) ELSE FreeReg(x)

\* gv of entry i.
gvAt(x, i) ==
  LET e == x.vs[i]
      Placed(y, r) == [y EXCEPT !.vs[i] = InR(e, r)]
      Into(r) ==
        CASE e.place = "const" -> Placed(LoadConst(x, r, e.c), r)
          [] e.place = "local" -> Placed([x EXCEPT !.regs[r] = MemoryAt(Effective(x, Local(e.c)))], r)
          [] e.place = "cmp" -> Placed(LoadCmp(x, r, "=="), r)
  IN  IF e.place = "reg" THEN x ELSE Into(FreeReg(x))
\* The result is in r, in the place of the two operands.
Replaced(x, r) == [x EXCEPT !.vs = Append(SubSeq(@, 1, Len(@) - 2), InR(@[Len(@) - 1], r))]

\* The instruction that holds the constant of the top entry, if there is one.
WithConstant(x, opc, r) ==
  LET l == x.vs[Len(x.vs) - 1].r
      c == x.vs[Len(x.vs)].c
  IN  IF opc \in {"lsl", "lsr", "asr"} THEN Imm(opc, r, l, c % W) ELSE stuff_const(opc, r, l, Wrapped(c))
Held(x, opc) == x.vs[Len(x.vs)].place = "const" /\ WithConstant(x, opc, 0) # NoWay
\* The left entry is in a register; the right one is too, or the instruction holds it.
\* mul writes the left operand's register.
Made(x, op, opc) ==
  LET l == x.vs[Len(x.vs) - 1].r
      k == x.vs[Len(x.vs)]
      Emitted(r) == Replaced(Exec(x, IF Held(x, opc) THEN WithConstant(x, opc, r) ELSE Reg(opc, r, l, k.r)), r)
  IN  IF op = "*" THEN Replaced([x EXCEPT !.regs[l] = ProductOf(x.regs[l], x.regs[k.r])], l)
      ELSE Emitted(get_reg_ex(x, IF k.place = "const" THEN {l} ELSE {l, k.r}))
ArmSwapped(x) == LET n == Len(x.vs) IN [x EXCEPT !.vs[n] = x.vs[n - 1], !.vs[n - 1] = x.vs[n]]
\* What is in the flags is fetched first; then the left entry, then the right one
\* unless the instruction holds it.
gen_opi(x, op) ==
  LET n == Len(x.vs)
      turned == x.vs[n - 1].place = "const" /\ op \in {"-", "subc1", "subc2"}
      opc == IF turned THEN Reverse(Opcode(op)) ELSE Opcode(op)
      FlagsFirst(y) == gvAt(IF y.vs[n].place = "cmp" THEN gvAt(y, n) ELSE y, n - 1)
      Both(y) == IF op # "*" /\ Held(y, opc) THEN y ELSE gvAt(y, n)
  IN  Made(Both(FlagsFirst(IF turned THEN ArmSwapped(x) ELSE x)), op, opc)

-----------------------------------------------------------------------------
(* Tasks: an operation on entries, a load, a store, an address.            *)

NoAccess == [addr |-> 0, size |-> 0, signed |-> FALSE, store |-> FALSE]
ValueOf(e) == CASE e.place = "local" -> MemoryAt(Effective([regs |-> [r \in {fp} |-> 1000]], Local(e.c)))
                [] e.place = "cmp" -> 1
                [] OTHER -> Wrapped(e.c)
Start(t) ==
  [vs |-> t.vs, err |-> "", access |-> NoAccess, flags |-> [c |-> t.carry, o |-> FALSE, z |-> TRUE, n |-> FALSE],
   regs |-> [r \in MachineRegs |->
               LET S == {i \in DOMAIN t.vs : t.vs[i].place \in {"reg", "ptr"} /\ t.vs[i].r = r}
               IN  IF S # {} THEN Wrapped(t.vs[CHOOSE i \in S : TRUE].c) ELSE IF r = fp THEN 1000 ELSE 77]]

Compile(t) == task = t /\ cpu = Start(t) /\ done = FALSE

ArmOperate ==
  /\ task.what = "operate"
  /\ LET Stored(x) == IF task.op \in Conditions THEN LoadCmp(x, x.vs[Len(x.vs)].r, task.op) ELSE x
     IN  cpu' = Stored(gen_opi(cpu, task.op))
\* load and store take the entry's address apart.
LoadStore == task.what \in {"load", "store"} /\ cpu' = Lvalue(cpu, task.vs[1], task.what = "store")
LoadConstant == task.what = "const" /\ cpu' = LoadConst(cpu, 2, task.vs[1].c)
AddressOfLocal == task.what = "address" /\ cpu' = LoadAddress(cpu, 2, task.vs[1].c)
StackRoom == task.what = "sp" /\ cpu' = gadd_sp(cpu, task.vs[1].c)

CodeNext ==
  /\ ~done /\ done' = TRUE /\ UNCHANGED task
  /\ \/ ArmOperate \/ LoadStore \/ LoadConstant \/ AddressOfLocal \/ StackRoom

-----------------------------------------------------------------------------
OrderedBy(cc, a, b) ==
  LET s == SignedWord(a)
      t == SignedWord(b)
  IN  CASE cc = "==" -> a = b [] cc = "!=" -> a # b [] cc = "<" -> s < t [] cc = ">=" -> s >= t
        [] cc = "<=" -> s <= t [] cc = ">" -> s > t [] cc = "u<" -> a < b [] cc = "u>=" -> a >= b
        [] cc = "u<=" -> a <= b [] cc = "u>" -> a > b
ExpectedResult(op, a, b) ==
  CASE op \in {"+", "addc1"} -> Wrapped(a + b)
    [] op \in {"-", "subc1"} -> Wrapped(a - b)
    [] op = "addc2" -> Wrapped(a + b + task.carry)
    [] op = "subc2" -> Wrapped(a - b - (1 - task.carry))
    [] op = "*" -> ProductOf(a, b)
    [] op = "&" -> BitAnd(a, b)
    [] op = "|" -> BitOr(a, b)
    [] op = "^" -> BitXor(a, b)
    [] op = "<<" -> Wrapped(a * 2^b)
    [] op = "u>>" -> a \div 2^b
    [] op = ">>" -> Wrapped(SignedWord(a) \div 2^b)
    [] OTHER -> IF OrderedBy(op, a, b) THEN 1 ELSE 0

\* Integer operations give C's result whether an operand is a constant that an
\* instruction holds as it is, negated or complemented, or not at all, whether
\* operands are swapped, and without losing a value below that shares a
\* register; the first of two operations on words leaves the carry for the second.
OperationsAreExact ==
  done /\ task.what = "operate" =>
    LET n == Len(task.vs)
        a == ValueOf(task.vs[n - 1])
        b == ValueOf(task.vs[n])
    IN  /\ cpu.regs[cpu.vs[n - 1].r] = ExpectedResult(task.op, a, b)
        /\ \A i \in 1 .. n - 2 : cpu.regs[cpu.vs[i].r] = ValueOf(task.vs[i])
        /\ task.op = "addc1" => (cpu.flags.c = 1) = (a + b >= 2^W)
        /\ task.op = "subc1" => (cpu.flags.c = 1) = (a >= b)

\* Loads and stores reach the byte they are to reach, of the right size and
\* sign, and constants and addresses are what they are to be, whichever
\* instructions hold them.  Not stated where stuff_const_harder is undefined or
\* adds bits twice: gadd_sp and calcaddr lose most constants that need more than
\* one instruction.
AddressesAreExact ==
  done /\ cpu.err = "" =>
    LET e == task.vs[1]
        target == CASE e.place = "local" -> 1000 + e.c
                    [] e.place = "llocal" -> MemoryAt(Wrapped(1000 + e.c))
                    [] OTHER -> e.c
    IN  CASE task.what \in {"load", "store"} ->
               cpu.access = [addr |-> Wrapped(target), size |-> SizeOf(e.type),
                             signed |-> task.what = "load" /\ SignedType(e.type), store |-> task.what = "store"]
          [] task.what = "const" -> cpu.regs[2] = Wrapped(e.c)
          [] task.what = "address" -> cpu.regs[2] = Wrapped(1000 + e.c)
          [] task.what = "sp" -> cpu.regs[sp] = Wrapped(77 + e.c)
          [] OTHER -> TRUE
=============================================================================

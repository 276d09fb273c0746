--------------------------- MODULE CodeGenerator ---------------------------
(***************************************************************************)
(* The code generator of tcc.c and i386/gen.c: the value stack, register   *)
(* allocation and the instructions it emits.  Every function of the code   *)
(* is an operator on a state s, a record of                                *)
(*   vs     vstack, bottom first; vtop is the last element                 *)
(*   loc    the lowest stack slot in use                                   *)
(*   ind    the number of jumps emitted                                    *)
(*   reg, flags, mem, sp, jump   a processor that executes each            *)
(*          instruction when it is emitted.  Expressions only jump         *)
(*          forward: when a jump is taken, `jump' is its number and        *)
(*          nothing is executed until it is resolved.                      *)
(*   test   the jumps that gtst has collected                              *)
(* Do makes a sequence of calls, as the functions of the code do.          *)
(* Words are the unit of addresses, so the 4 of the code is 1 here.        *)
(***************************************************************************)
EXTENDS Words, Sequences, TLC

CONSTANT CharBits              \* bits in a char

ASSUME CharBitsAssumption == CharBits \in 1 .. Width

Junk == -1                     \* what an undefined register, flag or cell holds

Regs == {"eax", "ecx", "edx"}
RegOrder == <<"eax", "ecx", "edx">>
RC_INT == Regs
RC_EAX == {"eax"}
RC_ECX == {"ecx"}
RC_EDX == {"edx"}
RC_IRET == RC_EAX
RC_LRET == RC_EDX

Types == {"int", "char", "llong", "ptr", "lptr", "func"}   \* lptr points to a long long
IsPointer(t) == t \in {"ptr", "lptr"}
Pointed(t) == IF t = "ptr" THEN "int" ELSE "llong"
PointerTo(t) == IF t = "int" THEN "ptr" ELSE "lptr"
Size(t) == IF t = "llong" THEN 2 ELSE 1

(***************************************************************************)
(* An SValue: type, where the value is, the second register of a long      *)
(* long, the flags VT_LVAL, VT_LVAL_BYTE and VT_MUSTCAST, and the constant *)
(* c: a number or frame address, a condition (or the name of a function),  *)
(* or a list of jumps.                                                     *)
(***************************************************************************)
SValue(t, r, lv, c) ==
    [t |-> t, r |-> r, r2 |-> "const", lv |-> lv, byte |-> lv /\ t = "char", must |-> FALSE,
     c |-> c, tag |-> "", jumps |-> {}]
OfCond(cond) == [SValue("int", "cmp", FALSE, 0) EXCEPT !.tag = cond]
OfJumps(r, jumps) == [SValue("int", r, FALSE, 0) EXCEPT !.jumps = jumps]
InReg(v, r) == [v EXCEPT !.r = r, !.lv = FALSE, !.byte = FALSE, !.must = FALSE,
                         !.c = 0, !.tag = "", !.jumps = {}]

IsConst(v) == v.r = "const" /\ ~v.lv
IsJump(v) == v.r \in {"jmp", "jmpi"}
InFlags(v) == v.r = "cmp"

Top(s) == s.vs[Len(s.vs)]
Below(s) == s.vs[Len(s.vs) - 1]
SetTop(s, v) == [s EXCEPT !.vs[Len(s.vs)] = v]
SetBelow(s, v) == [s EXCEPT !.vs[Len(s.vs) - 1] = v]
SetType(s, t) == [s EXCEPT !.vs[Len(s.vs)].t = t]
Drop(s) == [s EXCEPT !.vs = SubSeq(@, 1, Len(@) - 1)]

Push(s, v) == [s EXCEPT !.vs = Append(@, v)]

(* -------------------------------- calls -------------------------------- *)

vsetc(v) == <<"vsetc", v>>
vpushi(n) == vsetc(SValue("int", "const", FALSE, Wrap(n, Width)))
vseti(r) == <<"vseti", r>>                \* a jump: its list is test
vdup == <<"vdup">>
vover == <<"vover">>                      \* vpushv(vtop - 1)
vpop == <<"vpop">>
drop == <<"drop">>                        \* vtop--
gv(rc) == <<"gv", rc>>
gv2(rc1, rc2) == <<"gv2", rc1, rc2>>
gv_dup == <<"gv_dup">>
lexpand == <<"lexpand">>
lbuild == <<"lbuild">>
pair == <<"pair">>                        \* vtop holds the high word of the next entry
save_regs(n) == <<"save_regs", n>>
gaddrof == <<"gaddrof">>
indir == <<"indir">>
gtst(inv, jumps) == <<"gtst", inv, jumps>>
gen_opic(op) == <<"gen_opic", op>>
gen_op(op) == <<"gen_op", op>>
gen_cast(t) == <<"gen_cast", t>>
gfunc_call(n) == <<"gfunc_call", n>>
vstore == <<"vstore">>

\* Assignments to fields of vtop, and the top entries in another order: place
\* i takes what was at place p[i].
type(t) == <<"type", t>>
lvalue == <<"lvalue">>
comparison(op) == <<"comparison", op>>
mustcast == <<"mustcast">>
constant(n) == <<"constant", n>>
registers(r, r2) == <<"registers", r, r2>>
order(p) == <<"order", p>>
vswap == order(<<2, 1>>)
vrotb3 == order(<<2, 3, 1>>)
vrotb4 == order(<<2, 3, 4, 1>>)
vrott3 == order(<<3, 1, 2>>)

Ordered(s, p) ==
    LET n == Len(s.vs) - Len(p)
    IN [s EXCEPT !.vs = SubSeq(@, 1, n) \o [i \in 1 .. Len(p) |-> @[n + p[i]]]]

RECURSIVE Do(_, _)

(* ------------------------------ the processor -------------------------- *)

NoFlags == [x |-> Junk, y |-> Junk, c |-> Junk]

Read(s, a) == IF a \in DOMAIN s.mem THEN s.mem[a] ELSE Junk
SetReg(s, r, n) == IF s.jump = 0 THEN [s EXCEPT !.reg[r] = n] ELSE s
SetFlags(s, f) == IF s.jump = 0 THEN [s EXCEPT !.flags = f] ELSE s
Write(s, a, n) == IF s.jump = 0 THEN [s EXCEPT !.mem = (a :> n) @@ @] ELSE s

Alu(op, a, b) == IF Junk \in {a, b} THEN Junk ELSE Compute(op, a, b, Width)
Holds(cond, f) == Alu(cond, f.x, f.y)

\* The low bits of a word, sign extended (movsbl).
SignedChar(n) == IF n = Junk THEN Junk ELSE Wrap(Signed(n % 2^CharBits, CharBits), Width)

\* A jump is taken: one on an undefined condition leads nowhere.
Jump(s, taken) ==
    LET site == s.ind + 1
    IN [s EXCEPT !.ind = site,
                 !.jump = IF @ # 0 \/ taken = 0 THEN @ ELSE IF taken = 1 THEN site ELSE Junk]
gjmp(s) == Jump(s, 1)
gen_resolve_sym(s, jumps) == IF s.jump \in jumps THEN [s EXCEPT !.jump = 0] ELSE s

\* The address of an lvalue, and the word it holds.
Address(s, v) ==
    CASE v.r = "local" -> v.c
      [] v.r = "llocal" -> Read(s, v.c)
      [] OTHER -> s.reg[v.r]
WordAt(s, v) ==
    IF v.byte THEN SignedChar(Read(s, Address(s, v))) ELSE Read(s, Address(s, v))

Loaded(s, v) ==
    CASE v.lv -> WordAt(s, v)
      [] ~v.lv /\ v.r = "const" -> v.c % 2^Width
      [] ~v.lv /\ v.r = "local" -> v.c
      [] ~v.lv /\ v.r = "cmp" -> Holds(v.tag, s.flags)
      [] ~v.lv /\ v.r \in Regs -> s.reg[v.r]

load(s, r, v) ==
    LET fall == Truth(v.r = "jmpi")
    IN IF IsJump(v)
       THEN IF s.jump \in v.jumps THEN [s EXCEPT !.jump = 0, !.reg[r] = 1 - fall]
            ELSE SetReg(s, r, fall)
       ELSE SetReg(s, r, Loaded(s, v))

\* No instruction stores at an address that is itself in memory.
store(s, r, v) ==
    LET a == IF v.r = "llocal" THEN Junk ELSE Address(s, v)
        old == Read(s, a)
        n == IF r \in Regs THEN s.reg[r] ELSE Junk
    IN IF s.jump # 0 \/ a = Junk THEN s
       ELSE IF v.t = "char" /\ Junk \notin {old, n}
            THEN Write(s, a, (old \div 2^CharBits) * 2^CharBits + (n % 2^CharBits))
            ELSE Write(s, a, n)

(* ------------------------- register allocation ------------------------- *)

\* v's value is in r, alone or as half of a long long.
LivesIn(v, r) == v.r = r \/ (v.t = "llong" /\ v.r2 = r)
Names(v, r) == v.r = r \/ v.r2 = r

MinOf(S) == CHOOSE i \in S : \A j \in S : i <= j
Holders(s, r) == {i \in 1 .. Len(s.vs) : LivesIn(s.vs[i], r)}

\* TLC's SubSeq overlooks an EXCEPT on a function that is not yet a tuple.
AsTuple(f) == f \o <<>>

\* How an entry reads once its register is in slot a.
Spilled(v, a) ==
    IF v.lv THEN [v EXCEPT !.r = "llocal", !.r2 = "const", !.c = a]
    ELSE SValue(v.t, "local", TRUE, a)

save_reg(s, r) ==
    IF Holders(s, r) = {} THEN s ELSE
    LET p == s.vs[MinOf(Holders(s, r))]
        wide == p.t = "llong" /\ ~p.lv
        slot == s.loc - (IF wide THEN 2 ELSE 1)
        s1 == Write([s EXCEPT !.loc = slot], slot, s.reg[p.r])
        s2 == IF wide THEN Write(s1, slot + 1, s.reg[p.r2]) ELSE s1
        also == {i \in Holders(s, p.r) : i >= MinOf(Holders(s, r))}
    IN [s2 EXCEPT !.vs = AsTuple([i \in 1 .. Len(s.vs) |->
            IF i = MinOf(Holders(s, r)) \/ i \in also THEN Spilled(s.vs[i], slot) ELSE s.vs[i]])]

FreeRegs(s, rc) == {r \in rc : \A i \in 1 .. Len(s.vs) : ~Names(s.vs[i], r)}

\* The register get_reg returns: the first free one, or else that of the
\* lowest entry that has one.
RegFor(s, rc) ==
    IF FreeRegs(s, rc) # {}
    THEN RegOrder[MinOf({i \in 1 .. 3 : RegOrder[i] \in FreeRegs(s, rc)})]
    ELSE LET v == s.vs[MinOf({i \in 1 .. Len(s.vs) : \E r \in rc : Names(s.vs[i], r)})]
         IN IF v.r \in rc THEN v.r ELSE v.r2

get_reg(s, rc) == IF FreeRegs(s, rc) # {} THEN s ELSE save_reg(s, RegFor(s, rc))

\* save_regs: the registers of all but the top n entries.
SaveUnder(s, n) ==
    LET saved[i \in 0 .. Len(s.vs)] ==
            IF i = 0 THEN s
            ELSE LET q == saved[i - 1]
                 IN IF q.vs[i].r \in Regs THEN save_reg(q, q.vs[i].r) ELSE q
    IN saved[Len(s.vs) - n]

move_reg(s, r, from) ==
    IF r = from THEN s ELSE load(save_reg(s, r), r, SValue("int", from, FALSE, 0))

AddressOfTop(s) ==
    SetTop(s, IF Top(s).r = "llocal" THEN [Top(s) EXCEPT !.r = "local", !.byte = FALSE]
              ELSE [Top(s) EXCEPT !.lv = FALSE])

(* ------------------- values in registers: gv and friends --------------- *)

\* Mutant: they do.
SetValueOver(s, v) == Push(s, v)

\* Flags and jumps do not stay under another entry.
SetValue(s, v) ==
    Push(IF s.vs # <<>> /\ (InFlags(Top(s)) \/ IsJump(Top(s))) THEN Do(s, <<gv(RC_INT)>>) ELSE s, v)

\* Mutant: the jumps to the value of a popped entry go nowhere.
PopUnresolved(s) == Drop(s)
Pop(s) == Drop(IF IsJump(Top(s)) THEN gen_resolve_sym(s, Top(s).jumps) ELSE s)

Named(s, r) == SetTop(s, InReg(Top(s), r))
Fetched(s, r) == load(s, r, Top(s))

\* From the address of a long long to that of its high word.
AtHigh == <<type("int"), gaddrof, vpushi(1), gen_op("+"), lvalue>>

\* The low word of vtop, a long long, goes to r; its high word is left above.
LowIn(s, r) == SetBelow(Push(Fetched(s, r), Top(s)), InReg(Top(s), r))
HighAbove(s, r) ==
    LET v == Top(s)
    IN CASE IsConst(v) -> Do(Named(Fetched(s, r), r), <<vpushi(High(v.c))>>)
         [] v.lv -> Do(LowIn(SaveUnder(s, 1), r),
                       AtHigh)
         [] OTHER -> SetTop(LowIn(s, r), InReg(v, v.r2))

\* The high word goes to a second register.
HighIn(s, r2) == SetTop(Drop(Fetched(s, r2)), [Below(s) EXCEPT !.r2 = r2])
WithHigh(s, rc2) == HighIn(get_reg(s, rc2), RegFor(s, rc2))

InRegisters(v, rc) == ~v.lv /\ v.r \in rc /\ (v.t = "llong" => v.r2 \in rc)

LoadTop(s, rc, r) ==
    Named(IF Top(s).t # "llong" THEN Fetched(s, r)
          ELSE WithHigh(HighAbove(s, r), IF rc = RC_IRET THEN RC_LRET ELSE RC_INT), r)

Gv(s, rc) ==
    IF InRegisters(Top(s), rc) THEN Named(s, Top(s).r)
    ELSE LoadTop(get_reg(s, rc), rc, RegFor(s, rc))

\* Loading one operand may spill the other.
AgainBelow(s, rc1) == IF Below(s).r \in Regs THEN s ELSE Do(s, <<vswap, gv(rc1), vswap>>)
AgainTop(s, rc2) == IF Top(s).r \in Regs THEN s ELSE Do(s, <<gv(rc2)>>)
Gv2(s, rc1, rc2) ==
    IF ~InFlags(Top(s)) /\ ~IsJump(Top(s))
    THEN AgainBelow(Do(s, <<vswap, gv(rc1), vswap, gv(rc2)>>), rc1)
    ELSE AgainTop(Do(s, <<gv(rc2), vswap, gv(rc1), vswap>>), rc2)

Expand(s) ==
    LET v == [Top(s) EXCEPT !.t = "int", !.r2 = "const"]
    IN Push(SetTop(s, v), [v EXCEPT !.r = Top(s).r2])

Paired(s) == Do(SetBelow(s, [Below(s) EXCEPT !.t = "llong", !.r2 = Top(s).r]), <<vpop>>)

\* gv_dup: the value of vtop in a register, and again in another.
CopyIn(s, r) ==
    Named(Push(load(s, r, SValue("int", Top(s).r, FALSE, 0)), Top(s)), r)
DuplicateWord(s) == CopyIn(get_reg(s, RC_INT), RegFor(s, RC_INT))
Duplicate(s) ==
    IF Top(s).t # "llong" THEN DuplicateWord(Do(s, <<gv(RC_INT)>>))
    ELSE Do(s, <<lexpand, gv_dup, vswap, vrotb3, gv_dup, vrotb4, lbuild,
                 vrotb3, vrotb3, vswap, lbuild, vswap>>)

(* ------------------------------ operations ----------------------------- *)

\* An instruction r = r op n, and the flags it leaves.
Emit(s, op, r, n) ==
    LET a == s.reg[r]
        known == Junk \notin {a, n}
        carry == s.flags.c
        sum == IF known THEN a + n + (IF op = "addc2" THEN carry ELSE 0) ELSE Junk
        diff == IF known THEN a - n - (IF op = "subc2" THEN carry ELSE 0) ELSE Junk
        lost == op \in {"addc2", "subc2"} /\ carry = Junk
    IN CASE op \in {"+", "addc1", "addc2"} ->
              SetFlags(SetReg(s, r, IF known /\ ~lost THEN Wrap(sum, Width) ELSE Junk),
                       [NoFlags EXCEPT !.c = IF known THEN Truth(sum >= 2^Width) ELSE Junk])
         [] op \in {"-", "subc1", "subc2"} ->
              SetFlags(SetReg(s, r, IF known /\ ~lost THEN Wrap(diff, Width) ELSE Junk),
                       [NoFlags EXCEPT !.c = IF known THEN Truth(diff < 0) ELSE Junk])
         [] op \in Comparisons -> SetFlags(s, [x |-> a, y |-> n, c |-> Junk])
         [] OTHER -> SetFlags(SetReg(s, r, Alu(op, a, n)), NoFlags)

\* mul and div take eax and leave their results in eax and edx.
EmitMul(s, r) ==
    LET a == s.reg["eax"]
        b == s.reg[r]
        known == Junk \notin {a, b}
    IN SetFlags(SetReg(SetReg(s, "eax", IF known THEN Low(a * b) ELSE Junk),
                       "edx", IF known THEN High(a * b) ELSE Junk), NoFlags)
EmitDiv(s, r) ==
    LET a == s.reg["eax"]
        b == s.reg[r]
        ok == Junk \notin {a, b} /\ b # 0
    IN SetFlags(SetReg(SetReg(s, "eax", IF ok THEN Compute("/", a, b, Width) ELSE Junk),
                       "edx", IF ok THEN Compute("%", a, b, Width) ELSE Junk), NoFlags)

\* The operators of gen_opi that are one instruction on any two registers.
Simple == {"+", "-", "&", "|", "^", "addc1", "addc2", "subc1", "subc2"} \cup Comparisons
Shifts == {"<<", ">>", "shr"}

\* The operands of an instruction: the second can be a constant.
Operands2(s, op) ==
    IF IsConst(Top(s)) /\ op # "*" THEN Do(s, <<vswap, gv(RC_INT), vswap>>)
    ELSE Do(s, <<gv2(RC_INT, IF op \in Shifts THEN RC_ECX ELSE RC_INT)>>)
Second(s, op) ==
    LET n == IF IsConst(Top(s)) THEN Top(s).c % 2^Width
             ELSE s.reg[IF op \in Shifts THEN "ecx" ELSE Top(s).r]
    IN IF op \in Shifts /\ n # Junk THEN n % Width ELSE n
Instruction(s, op) == Drop(Emit(s, op, Below(s).r, Second(s, op)))

\* eax and the register r of the entry just popped.
MulDiv(s, op, r) ==
    CASE op = "umull" -> SetTop(EmitMul(s, r), [Top(s) EXCEPT !.r = "eax", !.r2 = "edx"])
      [] op = "/" -> SetTop(EmitDiv(s, r), [Top(s) EXCEPT !.r = "eax"])
      [] op = "%" -> SetTop(EmitDiv(s, r), [Top(s) EXCEPT !.r = "edx"])
\* Mutant: what edx holds is lost.
PopOperandUnsaved(s, op) == MulDiv(Drop(s), op, Top(s).r)
PopOperand(s, op) == MulDiv(save_reg(Drop(s), "edx"), op, Top(s).r)

GenOpi(s, op) ==
    CASE op \in {"/", "%", "umull"} -> PopOperand(Do(s, <<gv2(RC_EAX, RC_ECX)>>), op)
      [] op \in Comparisons -> Do(Instruction(Operands2(s, op), op), <<comparison(op)>>)
      [] OTHER -> Instruction(Operands2(s, op), op)

\* gen_opic: constants are folded, a constant goes on the right, operations
\* without effect are dropped and products by powers of two become shifts;
\* gen_opi and gen_opl generate the rest.
Unfolded == {"addc1", "addc2", "subc1", "subc2", "umull"}
Commutative == {"+", "&", "^", "|", "*"}
AllOnes == 2^(2 * Width) - 1
NoEffect(op, n) ==
    \/ op \in {"*", "/"} /\ n = 1
    \/ op \in {"+", "-", "|", "^"} \cup Shifts /\ n = 0
    \/ op = "&" /\ n = AllOnes
TwoTo == [k \in 1 .. 2 * Width - 2 |-> 2^k]

GenOpic(s, op) ==
    LET value(v) == IF v.t = "llong" THEN v.c ELSE Widen(v.c % 2^Width)
        l1 == value(Below(s))
        l2 == value(Top(s))
        low == IF "llong" \in {Below(s).t, Top(s).t} THEN "gen_opl" ELSE "gen_opi"
        c1 == IsConst(Below(s))
        c2 == IsConst(Top(s))
        fold == c1 /\ c2 /\ op \notin Unfolded /\ ~(op \in {"/", "%"} /\ l2 = 0)
        n == Compute(op, l1, l2, 2 * Width)
        swapped == c1 /\ ~c2 /\ op \in Commutative
        s1 == IF swapped THEN Ordered(s, <<2, 1>>) ELSE s
        l == IF swapped THEN l1 ELSE l2
        shift == {k \in DOMAIN TwoTo : TwoTo[k] = l}
    IN CASE fold -> LET v == Below(s) IN
                    SetTop(Drop(s), [v EXCEPT !.c = IF v.t = "llong" THEN n ELSE Low(n)])
         [] ~fold /\ IsConst(Top(s1)) /\ ~(c1 /\ c2) /\ NoEffect(op, l) -> Drop(s1)
         [] ~fold /\ IsConst(Top(s1)) /\ ~(c1 /\ c2) /\ op = "*" /\ shift # {} ->
              Do(SetTop(s1, [Top(s1) EXCEPT !.c = MinOf(shift)]), <<<<low, "<<">>>>)
         [] OTHER -> Do(s1, <<<<low, op>>>>)

(* ----------------------------- tests and calls ------------------------- *)

\* A test jumps if vtop is not 0 (inv = 0) or is 0 (inv = 1), and joins the
\* jumps of test, which go to the same place.
Jumped(s) == [s EXCEPT !.test = @ \cup {s.ind}]
TestFlags(s, cond) == Jumped(Jump(s, Holds(cond, s.flags)))
Compared(s) == SetFlags(s, [x |-> s.reg[Top(s).r], y |-> 0, c |-> 0])

TestValue(s, inv) ==
    LET jumps == (Top(s).c % 2^Width # 0) = (inv = 0)
    IN CASE ~IsConst(Top(s)) -> Drop(TestFlags(Compared(Do(s, <<gv(RC_INT)>>)), IF inv = 1 THEN "==" ELSE "!="))
         [] IsConst(Top(s)) /\ jumps -> Jumped(gjmp(Drop(s)))
         [] IsConst(Top(s)) /\ ~jumps -> Drop(s)

Test(s, inv) ==
    LET v == Top(s)
    IN CASE InFlags(v) -> TestFlags(Drop(s), IF inv = 1 THEN Opposite(v.tag) ELSE v.tag)
         [] IsJump(v) /\ (v.r = "jmpi") = (inv = 1) -> [Drop(s) EXCEPT !.test = @ \cup v.jumps]
         [] IsJump(v) /\ (v.r = "jmpi") # (inv = 1) ->
              gen_resolve_sym(Jumped(gjmp(Drop(s))), v.jumps)
         [] v.t = "llong" -> TestValue([Do(s, <<vpushi(0), gen_op("!=")>>) EXCEPT !.test = s.test], inv)
         [] OTHER -> TestValue(s, inv)

\* What a function makes of its arguments: the library functions compute
\* on long longs, any other function mixes its words.
Callee(f, args) ==
    LET n == Len(args)
        a == Pair(args[1], args[2])
        mix[i \in 0 .. n] == IF i = 0 THEN 5 ELSE Wrap(mix[i - 1] + (i + 1) * args[i], Width)
    IN CASE Junk \in {args[i] : i \in 1 .. n} -> Junk
         [] f \in {"/", "%"} -> IF Pair(args[3], args[4]) = 0 THEN Junk
                                ELSE Compute(f, a, Pair(args[3], args[4]), 2 * Width)
         [] f \in Shifts -> IF args[3] >= 2 * Width THEN Junk
                            ELSE Compute(f, a, args[3], 2 * Width)
         [] OTHER -> mix[n]

PushWord(s, r) == IF s.jump = 0 THEN [s EXCEPT !.sp = <<s.reg[r]>> \o @] ELSE s

\* Pushes vtop as an argument.
PushTop(s) ==
    Drop(PushWord(IF Top(s).t = "llong" THEN PushWord(s, Top(s).r2) ELSE s, Top(s).r))

\* Mutant: the caller leaves the words on the stack.
ReturnedUnpopped(s, value, n) ==
    [s EXCEPT !.flags = NoFlags,
              !.reg = [eax |-> IF value = Junk THEN Junk ELSE Low(value), ecx |-> Junk,
                       edx |-> IF value = Junk THEN Junk ELSE High(value)]]

\* The function runs on the n words on the processor's stack and changes
\* every register.
Returned(s, value, n) ==
    [s EXCEPT !.sp = SubSeq(@, n + 1, Len(@)), !.flags = NoFlags,
              !.reg = [eax |-> IF value = Junk THEN Junk ELSE Low(value), ecx |-> Junk,
                       edx |-> IF value = Junk THEN Junk ELSE High(value)]]
CallTop(s, n) ==
    Drop(IF s.jump = 0 THEN Returned(s, Callee(Top(s).tag, SubSeq(s.sp, 1, n)), n) ELSE s)

\* gfunc_call of a known function with n arguments, which it pops.
CallFunction(s, n) ==
    LET pushed[i \in 0 .. n] == IF i = 0 THEN s ELSE PushTop(Do(pushed[i - 1], <<gv(RC_INT)>>))
        called(q) == CallTop(q, Len(q.sp) - Len(s.sp))
    IN called(SaveUnder(pushed[n], 0))

Function(f) == [SValue("func", "const", FALSE, 0) EXCEPT !.tag = f]

(* ------------------------------- long longs ---------------------------- *)

\* The results of a library function are in eax and edx.
Library(op) ==
    <<vsetc(Function(op)), vrott3, gfunc_call(2), vpushi(0), registers("eax", "edx")>>

\* Two long longs as words L1 H1 L2 H2.
Words4 == <<vswap, lexpand, vrotb3, lexpand>>

\* The low words first: they make the carry that the high words take.
ByHalves(low, high) ==
    Words4 \o <<order(<<2, 4, 1, 3>>), gen_op(low), vrotb3, vrotb3, gen_op(high), lbuild>>

Multiply64 ==
    Words4 \o <<order(<<2, 4, 1, 3>>), vover, vover, gen_op("umull"), lexpand,
                order(<<5, 6, 1, 2, 3, 4>>), order(<<3, 2, 1>>), gen_op("*"), vrotb3, vrotb3,
                gen_op("*"), gen_op("+"), gen_op("+"), lbuild>>

\* By a constant n; the comments of the code are for <<, the others swap words.
ShiftConst64(op, n) ==
    LET other == IF op = "<<" THEN <<>> ELSE <<vswap>>
        back == IF op = "<<" THEN "shr" ELSE "<<"
        along == IF op = "<<" THEN "<<" ELSE "shr"
        over == IF n > Width THEN <<vpushi(n - Width), gen_op(op)>> ELSE <<>>
        fill == IF op = ">>" THEN <<gv_dup, vpushi(Width - 1), gen_op(">>")>> ELSE <<vpushi(0)>>
        long == <<vpop>> \o over \o fill \o <<vswap>>
        short == <<vswap, gv_dup, vpushi(n), gen_op(op), vswap, vpushi(Width - n), gen_op(back),
                   vrotb3, vpushi(n), gen_op(along), gen_op("|")>>
    IN <<vswap, lexpand, vrotb3, vpop>> \o other \o (IF n >= Width THEN long ELSE short)
       \o other \o <<lbuild>>

\* First the high words, where equality decides nothing yet.
HighOp(op) == CASE op = "<" -> "<=" [] op = ">" -> ">=" [] op = "u<" -> "u<=" [] op = "u>" -> "u>="
                [] OTHER -> op
LowOp(op) == CASE op = "<" -> "u<" [] op = "<=" -> "u<=" [] op = ">" -> "u>" [] op = ">=" -> "u>="
               [] OTHER -> op

\* Then the low words, unless one of the jumps a has decided "no" or one of
\* the jumps b has decided "yes".
CompareLow(s, op, a, b) ==
    LET tested(q) == gen_resolve_sym(q, b)
    IN Do(tested(Do(s, <<gen_op(LowOp(op)), gtst(1, a)>>)), <<vseti("jmpi")>>)
CompareHigh(s, op) ==
    LET equal(q) == CompareLow(q, op, q.test, {})
        apart(q) == CompareLow(q, op, {}, q.test)
        unequal(q) == CompareLow(Jump(q, Holds("!=", q.flags)), op, q.test, {q.ind + 1})
    IN CASE op = "==" -> equal(Do(s, <<gtst(1, {})>>))
         [] op = "!=" -> apart(Do(s, <<gtst(0, {})>>))
         [] OTHER -> unequal(Do(s, <<gtst(1, {})>>))

GenOpl(s, op) ==
    CASE op \in Comparisons -> CompareHigh(Do(s, Words4 \o <<order(<<1, 3, 2, 4>>), gen_op(HighOp(op))>>), op)
      [] op \in Shifts /\ IsConst(Top(s)) -> Do(s, ShiftConst64(op, Top(s).c % 2^Width))
      [] op \in {"/", "%"} \/ (op \in Shifts /\ ~IsConst(Top(s))) -> Do(s, Library(op))
      [] op \in {"^", "&", "|"} -> Do(s, ByHalves(op, op))
      [] op = "+" -> Do(s, ByHalves("addc1", "addc2"))
      [] op = "-" -> Do(s, ByHalves("subc1", "subc2"))
      [] op = "*" -> Do(s, Multiply64)

(* ------------------------- casts and typed operations ------------------ *)

force_charshort_cast ==
    LET bits == Width - CharBits
    IN <<vpushi(bits), gen_op("<<"), vpushi(bits), gen_op(">>")>>

\* An int becomes a long long: its sign fills the high word.
SignExtend == <<gv(RC_INT), gv_dup, vpushi(Width - 1), gen_op(">>"), pair>>

Cast(s, t) ==
    LET v == Top(s)
        from == v.t
    IN CASE v.must -> Do(SetTop(s, [v EXCEPT !.must = FALSE]), force_charshort_cast \o <<gen_cast(t)>>)
         [] ~v.must /\ t = "llong" /\ from # "llong" /\ IsConst(v) ->
              SetTop(s, [v EXCEPT !.t = t, !.c = Widen(@ % 2^Width)])
         [] OTHER -> Do(s, (CASE t = "llong" /\ from # "llong" -> SignExtend
                              [] t = "char" /\ from # "char" -> force_charshort_cast
                              [] t = "int" /\ from = "llong" -> <<lexpand, vpop>>
                              [] OTHER -> <<>>) \o <<type(t)>>)

\* gen_op on a pointer and an int, in either order.
PointerOp(op, t, swapped) ==
    (IF swapped THEN <<vswap>> ELSE <<>>)
    \o <<vpushi(Size(Pointed(t))), gen_op("*"), gen_opic(op), type(t)>>

\* gen_op on two operands of type t; a shift count is an int.
ArithmeticOp(op, t) ==
    <<vswap, gen_cast(t), vswap, gen_cast(IF op \in Shifts THEN "int" ELSE t),
      gen_opic(op),
      type(IF op \in Comparisons THEN "int" ELSE t)>>

Operate(s, op) ==
    LET t1 == Below(s).t
        t2 == Top(s).t
    IN Do(s, CASE IsPointer(t1) -> PointerOp(op, t1, FALSE)
               [] ~IsPointer(t1) /\ IsPointer(t2) -> PointerOp(op, t2, TRUE)
               [] OTHER -> ArithmeticOp(op, IF "llong" \in {t1, t2} THEN "llong" ELSE "int"))

(* ------------------------- lvalues and assignment ---------------------- *)

Indirect(v) == (IF v.lv THEN <<gv(RC_INT)>> ELSE <<>>) \o <<type(Pointed(v.t)), lvalue>>

\* The address of an lvalue that was spilled is loaded again to store at it.
Reload(s, a) ==
    SetBelow(load(s, a, SValue("int", "local", TRUE, Below(s).c)),
             [Below(s) EXCEPT !.r = a, !.byte = FALSE, !.c = 0])
\* Mutant: the spilled address is not loaded.
AddressAsItIs(s) == s
AddressInRegister(s) ==
    IF Below(s).r = "llocal" THEN Reload(get_reg(s, RC_INT), RegFor(s, RC_INT)) ELSE s
StoreBelow(s, r) == store(s, r, Below(s))
StoreLow(s) == StoreBelow(AddressInRegister(s), Top(s).r)
StoreHigh(s) == StoreBelow(s, Top(s).r2)

\* The cast of an int to a char is left to whoever uses the value.
Assigned(s) ==
    LET to == Below(s).t
        delayed == to = "char" /\ Top(s).t = "int"
    IN Do(s, <<IF delayed THEN type(to) ELSE gen_cast(to), gv(RC_INT), <<"store low">>>>
             \o (IF to = "llong" THEN <<vswap>> \o AtHigh \o <<vswap, <<"store high">>>> ELSE <<>>)
             \o <<vswap, drop>> \o (IF delayed THEN <<mustcast>> ELSE <<>>))

inc(post, d) ==
    (IF post THEN <<vdup, gv_dup, vrotb3, vrotb3>> ELSE <<vdup>>)
    \o <<vpushi(d), gen_op("+"), vstore>>
    \o (IF post THEN <<vpop>> ELSE <<>>)

(* ------------------------------ making calls --------------------------- *)

Step(s, c) ==
    CASE c[1] = "vsetc" -> SetValue(s, c[2])
      [] c[1] = "vseti" -> SetValue([s EXCEPT !.test = {}], OfJumps(c[2], s.test))
      [] c[1] = "vdup" -> Push(s, Top(s))
      [] c[1] = "vover" -> Push(s, Below(s))
      [] c[1] = "vpop" -> Pop(s)
      [] c[1] = "drop" -> Drop(s)
      [] c[1] = "order" -> Ordered(s, c[2])
      [] c[1] = "type" -> SetTop(s, [Top(s) EXCEPT !.t = c[2]])
      [] c[1] = "lvalue" -> SetTop(s, [Top(s) EXCEPT !.lv = TRUE])
      [] c[1] = "mustcast" -> SetTop(s, [Top(s) EXCEPT !.must = TRUE])
      [] c[1] = "constant" -> SetTop(s, [Top(s) EXCEPT !.c = c[2]])
      [] c[1] = "comparison" -> SetTop(s, [OfCond(c[2]) EXCEPT !.t = Top(s).t])
      [] c[1] = "registers" -> SetTop(s, [InReg(Top(s), c[2]) EXCEPT !.r2 = c[3]])
      [] c[1] = "save_regs" -> SaveUnder(s, c[2])
      [] c[1] = "gaddrof" -> AddressOfTop(s)
      [] c[1] = "gv" -> Gv(s, c[2])
      [] c[1] = "gv2" -> Gv2(s, c[2], c[3])
      [] c[1] = "gv_dup" -> Duplicate(s)
      [] c[1] = "lexpand" -> Expand(Do(s, <<gv(RC_INT)>>))
      [] c[1] = "lbuild" -> Do(s, <<gv2(RC_INT, RC_INT), pair>>)
      [] c[1] = "pair" -> Paired(s)
      [] c[1] = "gtst" -> Test([s EXCEPT !.test = c[3]], c[2])
      [] c[1] = "gen_opi" -> GenOpi(s, c[2])
      [] c[1] = "gen_opl" -> GenOpl(s, c[2])
      [] c[1] = "gen_opic" -> GenOpic(s, c[2])
      [] c[1] = "gen_op" -> Operate(s, c[2])
      [] c[1] = "gen_cast" -> Cast(s, c[2])
      [] c[1] = "gfunc_call" -> CallFunction(s, c[2])
      [] c[1] = "indir" -> Do(s, Indirect(Top(s)))
      [] c[1] = "vstore" -> Assigned(s)
      [] c[1] = "store low" -> StoreLow(s)
      [] c[1] = "store high" -> StoreHigh(s)

Do(s, calls) == IF calls = <<>> THEN s ELSE Do(Step(s, Head(calls)), Tail(calls))
=============================================================================

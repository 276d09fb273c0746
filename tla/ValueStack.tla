----------------------------- MODULE ValueStack -----------------------------
(***************************************************************************)
(* The expression parser of tcc.c driving the code generator.  Each action *)
(* is what the parser does when an operand or an operator is complete.     *)
(* `source' computes what C says the expression is worth so far; the code  *)
(* generator knows nothing of it, and the properties compare the two.      *)
(***************************************************************************)
EXTENDS CodeGenerator, FiniteSets

CONSTANTS
    Leaves,        \* the kinds of operands that expressions are built from
    Literals,      \* the values of constants
    Ops,           \* the binary operators
    Increments,    \* what IncDec adds: 1 for ++, -1 for --
    Contents,      \* the values the variables may have at first
    MaxLeaves,     \* operands in a program
    MaxDepth,      \* entries on the value stack
    MaxOpen,       \* constructs that are open at a time
    MaxSteps       \* operands and operators in a program, not counting those of the
                   \* constructs that are opened and closed

VARIABLES
    code,          \* the state of the code generator and the processor
    open,          \* what the parser is in the middle of, innermost last
    source,        \* [vals, mem, live]: the values of the operands and of the
                   \* variables, and whether the source evaluates this point
    used,          \* operands so far: each has variables of its own
    steps

stackVars == <<code, open, source, used, steps>>

(* -------------------------- the program's variables --------------------- *)

\* Operand k has an int x and a y, long longs d and e, a char c, a pointer p
\* to two ints and a pointer q to two long longs.
VariablesSize == 17
Offset == [x |-> 0, y |-> 1, d |-> 2, e |-> 4, c |-> 6, p |-> 7, q |-> 8, ints |-> 9, longs |-> 11]
FrameTop == 2^Width - VariablesSize * MaxLeaves
At(name, k) == FrameTop + VariablesSize * (k - 1) + Offset[name]
Variables == FrameTop .. 2^Width - 1

Var(t, name, k) == SValue(t, "local", TRUE, At(name, k))

(* ------------------------------ what C says ----------------------------- *)

SourceRead(mem, t, a) == IF t = "llong" THEN Pair(mem[a], mem[a + 1]) ELSE
                         IF t = "char" THEN SignedChar(mem[a]) ELSE mem[a]
SourceWrite(mem, t, a, n) ==
    IF t = "llong" THEN [mem EXCEPT ![a] = Low(n), ![a + 1] = High(n)]
    ELSE [mem EXCEPT ![a] = IF t = "char" THEN ((@ \div 2^CharBits) * 2^CharBits) + (n % 2^CharBits) ELSE n]

Meaning(t, lv, n) == [t |-> t, lv |-> lv, n |-> n]
Worth(src, e) == IF ~src.live THEN 0 ELSE IF e.lv THEN SourceRead(src.mem, e.t, e.n) ELSE e.n

Converted(n, from, to) ==
    CASE to = "llong" /\ from # "llong" -> Widen(n)
      [] to # "llong" /\ from = "llong" -> Low(n)
      [] to = "char" /\ from = "int" -> SignedChar(n)
      [] OTHER -> n
Common(t1, t2) ==
    CASE IsPointer(t1) -> t1 [] IsPointer(t2) -> t2
      [] "llong" \in {t1, t2} /\ ~IsPointer(t1) /\ ~IsPointer(t2) -> "llong"
      [] OTHER -> "int"
Bits(t) == IF t = "llong" THEN 2 * Width ELSE Width

\* The value of e1 op e2 and its type.
Applied(src, op, e1, e2) ==
    LET t == Common(e1.t, e2.t)
        a == Converted(Worth(src, e1), e1.t, t)
        b == Converted(Worth(src, e2), e2.t, t)
        scale == Size(Pointed(t))
    IN CASE IsPointer(t) -> Meaning(t, FALSE,
              IF IsPointer(e1.t) THEN Wrap(a + scale * (IF op = "-" THEN -b ELSE b), Width)
              ELSE Wrap(scale * a + b, Width))
         [] ~IsPointer(t) /\ op \in Comparisons -> Meaning("int", FALSE, Compute(op, a, b, Bits(t)))
         [] OTHER -> Meaning(t, FALSE, IF src.live THEN Compute(op, a, b, Bits(t)) ELSE 0)

\* C gives no meaning to the other operations.
Defined(op, e1, e2) ==
    LET t == Common(e1.t, e2.t)
        b == Worth(source, e2)
    IN /\ "func" \notin {e1.t, e2.t}
       /\ IsPointer(t) => op = "+" /\ {e1.t, e2.t} = {t, "int"}
       /\ op \in Shifts => e2.t = "int" /\ b < Bits(e1.t)
       /\ op \in {"/", "%"} /\ source.live =>
            /\ b # 0
            /\ ~(b = 2^Bits(e2.t) - 1 /\ Converted(Worth(source, e1), e1.t, t) = 2^(Bits(t) - 1))

(* ------------------------------ the parser ------------------------------ *)

Depth == Len(code.vs)
Base == IF open = <<>> THEN 0 ELSE open[Len(open)].base
Operands == Depth - Base        \* the complete operands of the construct being parsed
Vals == source.vals
Val == Vals[Depth]
Frame == open[Len(open)]
Outer == SubSeq(open, 1, Len(open) - 1)
Room == Len(open) < MaxOpen

\* The top n operands give way to e.
Yields(n, e) == [source EXCEPT !.vals = Append(SubSeq(@, 1, Depth - n), e)]

Counted == steps < MaxSteps /\ steps' = steps + 1
Becomes(calls, src) == Counted /\ code' = Do(code, calls) /\ source' = src /\ UNCHANGED <<open, used>>

StackInit ==
    /\ \E m \in Contents :
         /\ code = [vs |-> <<>>, loc |-> FrameTop, ind |-> 0, jump |-> 0, sp |-> <<>>,
                    reg |-> [r \in Regs |-> Junk], flags |-> NoFlags, test |-> {},
                    mem |-> m]
         /\ source = [vals |-> <<>>, mem |-> m, live |-> TRUE]
    /\ open = <<>>
    /\ used = 0
    /\ steps = 0

\* An operand: a variable, or one of the small expressions that leave a value
\* in a register, in the flags, or at an address in a register.
Operand(kind, k) ==
    LET int(name) == vsetc(Var("int", name, k))
        long(name) == vsetc(Var("llong", name, k))
        element(t, name) == <<vsetc(Var(t, name, k)), vpushi(1), gen_op("+"), indir>>
    IN CASE kind = "int" -> <<int("x")>>
         [] kind = "char" -> <<vsetc(Var("char", "c", k))>>
         [] kind = "llong" -> <<long("d")>>
         [] kind = "ptr" -> <<vsetc(Var("ptr", "p", k))>>
         [] kind = "x + y" -> <<int("x"), int("y"), gen_op("+")>>
         [] kind = "x % y" -> <<int("x"), int("y"), gen_op("%")>>
         [] kind = "x < y" -> <<int("x"), int("y"), gen_op("<")>>
         [] kind = "d + e" -> <<long("d"), long("e"), gen_op("+")>>
         [] kind = "p[1]" -> element("ptr", "p")
         [] kind = "q[1]" -> element("lptr", "q")
         [] kind = "f" -> <<vsetc(Function("f"))>>

OperandMeans(src, kind, k) ==
    LET int(name) == Meaning("int", TRUE, At(name, k))
        long(name) == Meaning("llong", TRUE, At(name, k))
    IN CASE kind = "int" -> int("x")
         [] kind = "char" -> Meaning("char", TRUE, At("c", k))
         [] kind = "llong" -> long("d")
         [] kind = "ptr" -> Meaning("ptr", TRUE, At("p", k))
         [] kind = "x + y" -> Applied(src, "+", int("x"), int("y"))
         [] kind = "x % y" -> Applied(src, "%", int("x"), int("y"))
         [] kind = "x < y" -> Applied(src, "<", int("x"), int("y"))
         [] kind = "d + e" -> Applied(src, "+", long("d"), long("e"))
         [] kind = "p[1]" -> Meaning("int", TRUE, src.mem[At("p", k)] + 1)
         [] kind = "q[1]" -> Meaning("llong", TRUE, src.mem[At("q", k)] + 2)
         [] kind = "f" -> Meaning("func", FALSE, 0)

PushOperand(kind) ==
    /\ used < MaxLeaves
    /\ Depth < MaxDepth
    /\ Counted
    /\ used' = used + 1
    /\ code' = Do(code, Operand(kind, used'))
    /\ source' = Yields(0, OperandMeans(source, kind, used'))
    /\ UNCHANGED open

PushConstant(n) ==
    /\ Depth < MaxDepth
    /\ Depth > 0
    /\ Becomes(<<vpushi(n)>>, Yields(0, Meaning("int", FALSE, n)))

\* expr_prod, expr_sum, ...: the left operand, the right one, gen_op.
Binary(op) ==
    /\ Operands >= 2
    /\ Defined(op, Vals[Depth - 1], Val)
    /\ Becomes(<<gen_op(op)>>, Yields(2, Applied(source, op, Vals[Depth - 1], Val)))

Dereference ==
    /\ Operands >= 1
    /\ IsPointer(Val.t)
    /\ source.live => {Worth(source, Val), Worth(source, Val) + Size(Pointed(Val.t)) - 1} \subseteq Variables
    /\ Becomes(<<indir>>, Yields(1, Meaning(Pointed(Val.t), TRUE, Worth(source, Val))))

AddressOf ==
    /\ Operands >= 1
    /\ Val.lv
    /\ Val.t \in {"int", "llong"}
    /\ Becomes(<<gaddrof, type(PointerTo(Val.t))>>, Yields(1, Meaning(PointerTo(Val.t), FALSE, Val.n)))

\* unary '!'
NotOf(v) ==
    CASE IsConst(v) -> <<constant(Truth(v.c = 0))>>
      [] InFlags(v) -> <<comparison(Opposite(v.tag))>>
      [] OTHER -> <<save_regs(1), gtst(1, {}), vseti("jmp")>>
Not ==
    /\ Operands >= 1
    /\ Val.t \in {"int", "char", "llong"}
    /\ Becomes(NotOf(Top(code)), Yields(1, Meaning("int", FALSE, Truth(Worth(source, Val) = 0))))

\* x = v in the source: the value of the assignment has the type of x.
Stored(src, e, n) ==
    IF src.live THEN [src EXCEPT !.mem = SourceWrite(@, e.t, e.n, n)] ELSE src
Assignable(to, from) ==
    \/ to = from /\ to # "func"
    \/ {to, from} \subseteq {"int", "llong"}
    \/ to = "char" /\ from = "int"
    \/ to = "int" /\ from = "char"

Assign ==
    LET e == Vals[Depth - 1]
        n == Converted(Worth(source, Val), Val.t, e.t)
    IN /\ Operands >= 2
       /\ e.lv
       /\ Assignable(e.t, Val.t)
       /\ Becomes(<<vstore>>, Stored(Yields(2, Meaning(e.t, FALSE, n)), e, n))

IncDec(post, d) ==
    LET one == Meaning("int", FALSE, Wrap(d, Width))
        n == Converted(Applied(source, "+", Val, one).n, Common(Val.t, "int"), Val.t)
        result == IF post THEN Worth(source, Val) ELSE n
    IN /\ Operands >= 1
       /\ Val.lv
       /\ Becomes(inc(post, d), Stored(Yields(1, Meaning(Val.t, FALSE, result)), Val, n))

\* uneq on `x op=': the lvalue is duplicated before the right operand is read.
BeginCompound ==
    /\ Operands >= 1
    /\ Depth < MaxDepth
    /\ Val.lv
    /\ Room
    /\ code' = Do(code, <<vdup>>)
    /\ source' = Yields(0, Val)
    /\ open' = Append(open, [kind |-> "compound", base |-> Depth + 1])
    /\ UNCHANGED <<used, steps>>

EndCompound(op) ==
    LET e == Vals[Depth - 1]
        r == Applied(source, op, e, Val)
        n == Converted(r.n, r.t, e.t)
    IN /\ open # <<>> /\ Frame.kind = "compound"
       /\ Operands = 1
       /\ Defined(op, e, Val)
       /\ Assignable(e.t, r.t)
       /\ Counted
       /\ code' = Do(code, <<gen_op(op), vstore>>)
       /\ source' = Stored(Yields(3, Meaning(e.t, FALSE, n)), e, n)
       /\ open' = Outer
       /\ UNCHANGED used

\* A call of f with the top n operands.
Words(e) == IF e.t = "llong" THEN <<Low(Worth(source, e)), High(Worth(source, e))>>
            ELSE <<Worth(source, e)>>
Call(n) ==
    LET args == [i \in 1 .. n |-> Words(Vals[Depth - n + i])]
        flat[i \in 0 .. n] == IF i = 0 THEN <<>> ELSE flat[i - 1] \o args[i]
    IN /\ Operands > n
       /\ Vals[Depth - n].t = "func"
       /\ \A i \in Depth - n + 1 .. Depth : Vals[i].t # "func"
       /\ Becomes(<<gfunc_call(n), vsetc(SValue("int", "eax", FALSE, 0))>>,
                  Yields(n + 1, Meaning("int", FALSE, IF source.live THEN Callee("f", flat[n]) ELSE 0)))

\* The value before a comma, and that of an expression statement.
Discard ==
    /\ Operands = 1
    /\ Becomes(<<vpop>>, [source EXCEPT !.vals = SubSeq(@, 1, Depth - 1)])

(* ------------------ operands that may not be evaluated ------------------ *)

Testable == Val.t # "func"
Goes(src, live) == [src EXCEPT !.live = live]
Popped == [source EXCEPT !.vals = SubSeq(@, 1, Depth - 1)]

\* expr_land, expr_lor: kind is "&&" or "||".
Inv(kind) == IF kind = "&&" THEN 1 ELSE 0
Decides(kind) == (Worth(source, Val) = 0) = (kind = "&&")

BeginLogical(kind) ==
    /\ Operands >= 1
    /\ Testable
    /\ Room
    /\ code' = Do(code, <<save_regs(1), gtst(Inv(kind), {})>>)
    /\ open' = Append(open, [kind |-> kind, base |-> Depth - 1, jumps |-> code'.test,
                             live |-> source.live])
    /\ source' = Goes(Popped, source.live /\ ~Decides(kind))
    /\ UNCHANGED <<used, steps>>

InLogical(kind) == open # <<>> /\ Frame.kind = kind /\ Operands = 1 /\ Testable

NextLogical(kind) ==
    /\ InLogical(kind)
    /\ code' = Do(code, <<gtst(Inv(kind), Frame.jumps)>>)
    /\ open' = Append(Outer, [Frame EXCEPT !.jumps = code'.test])
    /\ source' = Goes(Popped, source.live /\ ~Decides(kind))
    /\ UNCHANGED <<used, steps>>

EndLogical(kind) ==
    LET all == source.live /\ ~Decides(kind)       \* no operand decided
    IN /\ InLogical(kind)
       /\ code' = Do(code, <<gtst(Inv(kind), Frame.jumps), vseti(IF kind = "&&" THEN "jmpi" ELSE "jmp")>>)
       /\ open' = Outer
       /\ source' = Goes(Yields(1, Meaning("int", FALSE, Truth(all = (kind = "&&")))), Frame.live)
       /\ UNCHANGED <<used, steps>>

\* expr_eq on `c ?'
BeginConditional ==
    /\ Operands >= 1
    /\ Testable
    /\ Room
    /\ code' = Do(code, (IF Depth > 1 THEN <<gv(RC_INT), save_regs(1)>> ELSE <<>>) \o <<gtst(1, {})>>)
    /\ open' = Append(open, [kind |-> "?", base |-> Depth - 1, jumps |-> code'.test, live |-> source.live])
    /\ source' = Goes(Popped, source.live /\ Worth(source, Val) # 0)
    /\ UNCHANGED <<used, steps>>

\* ... on `:', the value of the first branch put by,
Alternative ==
    /\ open # <<>> /\ Frame.kind = "?"
    /\ Operands = 1
    /\ Testable
    /\ code' = gen_resolve_sym(gjmp(Drop(code)), Frame.jumps)
    /\ open' = Append(Outer, [kind |-> ":", base |-> Frame.base, jumps |-> {code'.ind}, live |-> Frame.live,
                              sv |-> Top(code), taken |-> source.live,
                              t |-> Val.t, value |-> Worth(source, Val)])
    /\ source' = Goes(Popped, Frame.live /\ ~source.live)
    /\ UNCHANGED <<used, steps>>

\* ... and at the end: both values go to the same registers.
SameRegister(s, r2) == SetTop(move_reg(s, r2, Top(s).r), [Top(s) EXCEPT !.r = r2])
FirstBranch(s, t, rc) ==
    gen_resolve_sym(
        SameRegister(Do(SetTop(gen_resolve_sym(gjmp(s), Frame.jumps), Frame.sv), <<gen_cast(t), gv(rc)>>),
                     Top(s).r),
        {s.ind + 1})

EndConditional ==
    LET t == Common(Frame.t, Val.t)
        rc == IF t = "llong" THEN RC_IRET ELSE RC_INT
        n == IF Frame.taken THEN Converted(Frame.value, Frame.t, t)
             ELSE Converted(Worth(source, Val), Val.t, t)
    IN /\ open # <<>> /\ Frame.kind = ":"
       /\ Operands = 1
       /\ Val.t = Frame.t \/ {Val.t, Frame.t} \subseteq {"int", "char", "llong"}
       /\ Val.t # "func"
       /\ code' = FirstBranch(Do(code, <<gen_cast(t), gv(rc)>>), t, rc)
       /\ open' = Outer
       /\ source' = Goes(Yields(1, Meaning(t, FALSE, n)), Frame.live)
       /\ UNCHANGED <<used, steps>>

StackNext ==
    \/ \E kind \in Leaves : PushOperand(kind)
    \/ \E n \in Literals : PushConstant(n)
    \/ \E op \in Ops : Binary(op) \/ EndCompound(op)
    \/ Dereference \/ AddressOf \/ Not
    \/ Assign \/ BeginCompound
    \/ \E post \in BOOLEAN, d \in Increments : IncDec(post, d)
    \/ \E n \in 0 .. 2 : Call(n)
    \/ Discard
    \/ \E kind \in {"&&", "||"} : BeginLogical(kind) \/ NextLogical(kind) \/ EndLogical(kind)
    \/ BeginConditional \/ Alternative \/ EndConditional

StackSpec == StackInit /\ [][StackNext]_stackVars

(* ------------------------------ properties ------------------------------ *)

\* What an entry is worth on the processor.
OneWord(s, v) ==
    CASE IsJump(v) -> Truth((s.jump \in v.jumps) = (v.r = "jmp"))
      [] ~IsJump(v) /\ v.must -> SignedChar(Loaded(s, v))
      [] OTHER -> Loaded(s, v)
TwoWords(s, v) ==
    LET a == Address(s, v)
    IN CASE IsConst(v) -> <<Low(v.c), High(v.c)>>
         [] v.lv -> <<Read(s, a), Read(s, a + 1)>>
         [] OTHER -> <<s.reg[v.r], s.reg[v.r2]>>

\* Entry v denotes e: an lvalue its address, any other its value.
Denotes(s, v, e) ==
    /\ v.t = e.t
    /\ CASE e.lv -> v.lv /\ Address(s, v) = e.n
         [] ~e.lv /\ e.t = "llong" -> TwoWords(s, v) = <<Low(e.n), High(e.n)>>
         [] ~e.lv /\ e.t = "func" -> v.r = "const"
         [] OTHER -> OneWord(s, v) = e.n

\* Wherever the register allocator has put them, the operands have the
\* values C gives them (vstack, SValue: "indicates how the value is
\* currently stored in the generated code").
ValuesAreRight ==
    source.live => \A i \in 1 .. Depth : Denotes(code, code.vs[i], Vals[i])

\* The code is executed exactly where the source is evaluated; a value that
\* is a jump not yet resolved is alone in being reached by it.
ControlFollowsSource ==
    source.live <=>
        \/ code.jump = 0
        \/ Depth > 0 /\ code.jump \in Top(code).jumps

\* Assignments, to variables and through pointers, change just what they name.
MemoryIsRight == \A a \in Variables : code.mem[a] = source.mem[a]

\* Values in registers, in spilled entries and in variables are those of C
\* (gv, save_reg, vstore), at every step of an expression.
StateIsRight == ValuesAreRight /\ MemoryIsRight
=============================================================================

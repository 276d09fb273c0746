------------------------------- MODULE MCC67 -------------------------------
(***************************************************************************)
(* Programs for the C67 generator: statements of main, and functions that  *)
(* main calls, with the meaning that C gives them.                         *)
(***************************************************************************)
EXTENDS C67

Push1(e) == <<[do |-> "push", e |-> e]>>
Load1(rc) == <<[do |-> "gv", rc |-> rc]>>
C67Alu(op) == <<[do |-> "opi", op |-> op]>>
C67Flt(op) == <<[do |-> "opf", op |-> op]>>
C67Do(what) == <<[do |-> what]>>
C67Cast(what, t) == <<[do |-> what, type |-> t]>>
ToList(what, name) == <<[do |-> what, name |-> name]>>
Test1(inv, name) == <<[do |-> "test", inv |-> inv, name |-> name]>>
K(c) == C67Entry("const", "int", c)
C67L(t, c) == C67Entry("local", t, c)
G(t, c) == C67Entry("sym", t, c)
Main(body) == <<[do |-> "enter", name |-> "main", types |-> <<>>], [do |-> "locals", n |-> 48]>> \o body \o C67Do("leave")
C67Set(dest, value) == Push1(dest) \o value \o C67Do("assign")

Out == C67L("int", -48)
C67Through(ptr, t) == Push1(ptr) \o <<[do |-> "indir", type |-> t]>>
C67Operands == {Push1(K(c)) : c \in {0, 5, 40000}} \cup {Push1(C67L("int", -16)), Push1(G("int", 524)), Push1(C67L("char", -17)), Push1(C67Entry("address", "int", -24))}
C67Words == {0, 1, 7, 300, 32768, 65535}
\* n values wait in registers while the operation is made; then they are added.
C67Waiting(n) == IF n = 0 THEN <<>> ELSE IF n = 1 THEN Push1(C67L("int", -20)) \o Load1(C67RC_INT)
              ELSE Push1(C67L("int", -20)) \o Load1(C67RC_INT) \o Push1(C67L("int", -24)) \o Load1(C67RC_INT)
Added(n) == IF n = 0 THEN <<>> ELSE IF n = 1 THEN C67Alu("+") ELSE C67Alu("-") \o C67Alu("^")
IntOps == {"+", "-", "*", "&", "|", "^", "<<", "u>>", ">>", "<", ">", "=="}
Division == {"/", "u/", "%", "u%"}
Integers1 ==
  {Main(C67Set(Out, C67Waiting(n) \o l \o r \o C67Alu(op) \o Added(n))) : n \in 0 .. 2, l \in C67Operands, r \in C67Operands, op \in IntOps \ {"<<", "u>>", ">>"}}
  \cup {Main(C67Set(Out, C67Waiting(n) \o l \o Push1(K(c)) \o C67Alu(op) \o Added(n))) : n \in 0 .. 2, l \in C67Operands, c \in {0, 3, 15}, op \in {"<<", "u>>", ">>"}}
  \cup {Main(C67Set(Out, l \o Push1(K(c)) \o C67Alu(op))) : l \in C67Operands, c \in {1, 7, 65530}, op \in Division}
Tests ==
  {Main(Push1(K(a)) \o Push1(K(b)) \o C67Alu(op) \o Test1(inv, "x") \o C67Set(Out, Push1(K(1))) \o ToList("jump", "y") \o ToList("label", "x")
        \o C67Set(Out, Push1(K(2))) \o ToList("label", "y")) : a \in C67Words, b \in C67Words, op \in {"==", "!=", "<", ">=", ">", "<="}, inv \in {0, 1}}
\* && and ||, tested or stored.
Truths == {Push1(C67L("int", -16)), Push1(K(0)) \o Load1(C67RC_INT), Push1(K(3)) \o Load1(C67RC_ECX), Push1(K(5)) \o Push1(K(5)) \o C67Alu("=="), Push1(K(5)) \o Push1(K(5)) \o C67Alu("<")}
C67Place(inv) == IF inv = 1 THEN "jmpi" ELSE "jmp"
Both(inv, list, l, r) == l \o Test1(inv, list) \o r \o Test1(inv, list) \o <<[do |-> "logical", place |-> C67Place(inv), name |-> list]>>
Logic ==
  {Main(C67Set(Out, Both(inv, "x", l, r))) : inv \in {0, 1}, l \in Truths, r \in Truths}
  \cup {Main(Both(i, "x", l, r) \o Test1(j, "y") \o q \o Test1(j, "y") \o C67Set(Out, Push1(K(1))) \o ToList("jump", "z") \o ToList("label", "y")
             \o C67Set(Out, Push1(K(2))) \o ToList("label", "z")) : i \in {0, 1}, j \in {0, 1}, l \in Truths, r \in Truths, q \in Truths}
\* Counting down, forwards and backwards, and through a pointer to a label.
Loops ==
  {Main(C67Set(Out, Push1(K(3))) \o <<[do |-> "mark", name |-> "m"]>> \o C67Set(G("int", 520), Push1(G("int", 520)) \o Push1(Out) \o C67Alu("+"))
        \o C67Set(Out, Push1(Out) \o Push1(K(1)) \o C67Alu("-")) \o Push1(Out) \o e)
     : e \in {Test1(0, "x") \o <<[do |-> "patch", name |-> "x", to |-> "m"]>>,
              Test1(1, "x") \o <<[do |-> "back", to |-> "m"]>> \o ToList("label", "x"),
              Test1(1, "x") \o <<[do |-> "function", name |-> "m"]>> \o C67Do("goto") \o ToList("label", "x"),
              Test1(1, "x") \o <<[do |-> "function", name |-> "m"]>> \o Load1(C67RC_INT) \o C67Do("goto") \o ToList("label", "x")}}

C67Types == {"char", "uchar", "short", "ushort", "int"}
Stores1 == {Main(C67Set(d, Push1(K(c)))) : c \in {5, 200, 40000}, d \in {C67L(t, -24) : t \in C67Types} \cup {G(t, 528) : t \in C67Types} \cup {C67Entry("abs", "int", 532)}}
  \cup {Main(C67Through(C67L("int", -4), t) \o Push1(C67L("int", -16)) \o C67Do("assign")) : t \in C67Types}
  \cup {Main(C67Set(Out, Push1(e))) : e \in {C67L(t, c) : t \in C67Types, c \in {-16, -24}} \cup {C67L(t, -17) : t \in {"char", "uchar"}} \cup {C67L(t, -18) : t \in {"short", "ushort"}} \cup {G(t, 528) : t \in C67Types}}
  \cup {Main(C67Set(Out, C67Through(C67L("int", p), t))) : p \in {-4, -12}, t \in C67Types}
Sources(t) == {Push1(C67L(t, IF t = "double" THEN -32 ELSE -44)), Push1(C67L(t, -40)), Push1(G(t, 528)), C67Through(C67L("int", -12), t)}
FloatDests(t) == {Push1(C67L(t, -48)), Push1(G(t, 544)), C67Through(C67L("int", -12), t)}
C67Floats ==
  UNION {{Main(d \o l \o C67Do("assign")) : d \in FloatDests(t), l \in Sources(t)} : t \in {"float", "double"}}
  \cup UNION {{Main(C67Set(C67L(t, -48), l \o r \o C67Flt(op))) : l \in Sources(t), r \in Sources(t), op \in {"+", "-", "*", "/"}} : t \in {"float", "double"}}
  \cup UNION {{Main(C67Set(C67L(t, -48), l \o Load1(RC_FLOAT) \o r \o Push1(G(t, 520)) \o C67Flt(op) \o C67Flt("-"))) : l \in Sources(t), r \in Sources(t), op \in {"+", "-", "*"}} : t \in {"float", "double"}}
  \cup {Main(C67Set(C67L(t, -48), l \o C67Cast("itof", t))) : t \in {"float", "double"}, l \in C67Operands}
  \cup {Main(C67Set(Out, l \o C67Do("ftoi"))) : l \in Sources("float") \cup Sources("double")}
  \cup {Main(C67Set(C67L("double", -48), l \o C67Cast("ftof", "double"))) : l \in Sources("float")}
  \cup {Main(C67Set(Out, Push1(C67L("int", -20)) \o Load1(C67RC_INT) \o Push1(C67L("int", -16)) \o Load1(C67RC_INT) \o Push1(C67L("float", -44)) \o C67Cast("ftof", "double") \o C67Do("ftoi") \o C67Alu("-") \o C67Alu("-")))}
  \cup {Main(C67Set(C67L("float", -48), l \o C67Cast("ftof", "float"))) : l \in Sources("double")}

\* A function that stores its parameters and returns one of them, and calls of it.
C67Offsets(ts) == [k \in DOMAIN ts |-> LET f[i \in 1 .. k] == IF i = 1 THEN 8 ELSE f[i - 1] + IF ts[i - 1] = "double" THEN 8 ELSE 4 IN f[k]]
Param(ts, k) == C67L(ts[k], C67Offsets(ts)[k])
Keeper(name, ts, k) ==
  LET At1(i) == C67Set(G(ts[i], 512 + 8 * i), Push1(Param(ts, i)))
      f[i \in 0 .. Len(ts)] == IF i = 0 THEN <<>> ELSE f[i - 1] \o At1(i)
  IN  <<[do |-> "enter", name |-> name, types |-> ts], [do |-> "locals", n |-> 4]>> \o f[Len(ts)]
      \o (IF k = 0 THEN <<>> ELSE C67Set(Param(ts, k), Push1(Param(ts, k))) \o Push1(Param(ts, k)) \o C67Do("return")) \o C67Do("leave")
ArgOf(t, k) == CASE t = "double" -> Push1(C67L(t, -16 - 8 * k)) [] t = "float" -> Push1(C67L(t, -20 - 4 * k)) [] OTHER -> Push1(C67L("int", -20 - 4 * k))
Reversed(ts) == [k \in DOMAIN ts |-> ts[Len(ts) + 1 - k]]
ArgsFor(ts) ==
  LET order == IF "argument order" \in Suspect THEN ts ELSE Reversed(ts)
      f[i \in 0 .. Len(ts)] == IF i = 0 THEN <<>> ELSE f[i - 1] \o ArgOf(order[i], i) IN f[Len(ts)]
Fn(name) == <<[do |-> "function", name |-> name]>>
Call1(n, t) == <<[do |-> "call", n |-> n, type |-> t]>>
Signatures == UNION {[1 .. n -> {"int", "float", "double"}] : n \in 1 .. 3} \cup {[k \in 1 .. 4 |-> "double"]}
Calls ==
  {Keeper("f", ts, k) \o Main(C67Set(C67L(ts[k], -48), fn \o ArgsFor(ts) \o Call1(Len(ts), ts[k]))) : ts \in Signatures, k \in {1}, fn \in {Fn("f")}}
  \cup {Keeper("f", <<"int", "int">>, 2) \o Main(C67Set(Out, Fn("f") \o Load1(C67RC_INT) \o ArgsFor(<<"int", "int">>) \o Call1(2, "int")))}
  \cup {Keeper("f", <<"int", "int">>, k) \o Keeper("g", <<"int">>, 1)
        \o Main(C67Set(Out, Fn("f") \o a \o Call1(2, "int"))) : k \in {1, 2},
          a \in {Fn("g") \o Push1(K(77)) \o Call1(1, "int") \o Push1(K(55)), Push1(K(55)) \o Fn("g") \o Push1(K(77)) \o Call1(1, "int"),
                 Fn("g") \o Push1(K(77)) \o Call1(1, "int") \o Fn("g") \o Push1(K(99)) \o Call1(1, "int")}}

-----------------------------------------------------------------------------
(* What C does not get from the code.  Each kind is in its programs only   *)
(* when Suspect names it.                                                  *)

Wanted(kind, S) == IF kind \in Suspect THEN S ELSE {}
Astray ==
  Wanted("comparison stored", {Main(C67Set(Out, Push1(K(3)) \o Push1(K(4)) \o C67Alu(op))) : op \in {"!=", "<=", ">="}})
  \cup Wanted("unsigned comparison", {Main(C67Set(Out, Push1(K(3)) \o Push1(K(40000)) \o C67Alu("u<")))})
  \cup Wanted("float comparison", {Main(Push1(C67L("float", -44)) \o Push1(C67L("float", -40)) \o C67Flt("<") \o Test1(1, "x") \o ToList("label", "x"))})
  \cup Wanted("spilled pointer", {Main(C67Set(Out, C67Through(C67L("int", -4), "int") \o C67Waiting(2) \o Push1(K(1)) \o Load1(C67RC_INT) \o Push1(K(2)) \o Load1(C67RC_INT)
                                            \o C67Alu("+") \o C67Alu("+") \o C67Alu("+") \o C67Alu("+")))})
  \cup Wanted("constant address", {Main(C67Set(Out, Push1(C67Entry("abs", "int", 532))))})
  \cup Wanted("pair in use", {Main(C67Set(C67L("double", -48), Push1(C67L("int", -16)) \o Load1(C67RC_INT) \o C67Cast("itof", "double") \o Push1(C67L("int", -20)) \o C67Cast("itof", "double") \o C67Flt("+")))})
  \cup Wanted("values below a call", {Keeper("g", <<"int">>, 1) \o Main(C67Set(Out, Push1(C67L("int", -16)) \o Push1(K(3)) \o C67Alu("*") \o Push1(K(3)) \o Push1(K(4)) \o C67Alu("/") \o C67Alu("+")))})
  \cup Wanted("empty list", {Main(Push1(C67L("int", -16)) \o Test1(1, "y") \o Push1(K(1)) \o Test1(1, "x") \o <<[do |-> "logical", place |-> "jmpi", name |-> "x"]>>
                                  \o Test1(1, "y") \o C67Set(Out, Push1(K(1))) \o ToList("label", "y"))})
  \cup Wanted("nine arguments", {Keeper("f", [k \in 1 .. 9 |-> "int"], 1)
                                 \o Main(C67Set(Out, Fn("f") \o Push1(K(1)) \o Push1(K(1)) \o Push1(K(1)) \o Push1(K(1)) \o Push1(K(1)) \o Push1(K(1)) \o Push1(K(1)) \o Push1(K(1)) \o Push1(K(1)) \o Call1(9, "int")))})

C67Init ==
  \/ \E p \in Integers1 : Compile67(p)
  \/ \E p \in Tests : Compile67(p)
  \/ \E p \in Logic : Compile67(p)
  \/ \E p \in Loops : Compile67(p)
  \/ \E p \in Stores1 : Compile67(p)
  \/ \E p \in C67Floats : Compile67(p)
  \/ \E p \in Calls : Compile67(p)
  \/ \E p \in Astray : Compile67(p)
C67Spec == C67Init /\ [][C67Next]_c67Vars

-----------------------------------------------------------------------------
(* The meaning of the steps in C.  A value is its words; an lvalue has an   *)
(* address as well, a parameter its number.                                *)

C67Val(v, a, t) == [v |-> v, a |-> a, t |-> t, k |-> 0]
ParamNumber(s, fc) == LET ts == s.types IN CHOOSE k \in DOMAIN ts : C67Offsets(ts)[k] = fc
EntryValue(s, e) ==
  CASE e.place = "const" -> C67Val(<<Short16(e.c)>>, -1, e.type)
    [] e.place = "address" -> C67Val(<<C67FirstFree + 8 + e.c>>, -1, e.type)
    [] e.place = "local" /\ e.c > 0 -> [C67Val(s.args[ParamNumber(s, e.c)], -1, e.type) EXCEPT !.k = ParamNumber(s, e.c)]
    [] e.place = "local" /\ e.c <= 0 -> C67Val(ValueAt(s.mem, C67FirstFree + 8 + e.c, e.type), C67FirstFree + 8 + e.c, e.type)
    [] e.place \in {"sym", "abs"} -> C67Val(ValueAt(s.mem, e.c, e.type), e.c, e.type)
StepOf(what, field, name) == CHOOSE i \in DOMAIN gen.steps : gen.steps[i].do = what /\ gen.steps[i][field] = name
Arrival(name) == CHOOSE i \in DOMAIN gen.steps : gen.steps[i].do \in {"label", "patch", "logical"} /\ gen.steps[i].name = name
MarkAt(name) == CHOOSE i \in DOMAIN gen.steps : gen.steps[i].do = "mark" /\ gen.steps[i].name = name
C67Written(mem, d, v) ==
  IF d.t = "double" THEN WriteBytes(WriteBytes(mem, d.a, 4, v[1]), d.a + 4, 4, v[2]) ELSE WriteBytes(mem, d.a, C67SizeOf(d.t), v[1])
Last1(s) == s.st[Len(s.st)]
C67Below(s, n) == SubSeq(s.st, 1, Len(s.st) - n)
On1(s, n, v) == [s EXCEPT !.st = Append(C67Below(s, n), v), !.at = @ + 1]
JumpTo1(s, name) ==
  LET i == Arrival(name)
      p == gen.steps[i]
  IN  CASE p.do = "label" -> [s EXCEPT !.at = i + 1]
        [] p.do = "patch" -> [s EXCEPT !.at = MarkAt(p.to) + 1]
        [] p.do = "logical" -> [s EXCEPT !.at = i + 1, !.st = Append(@, C67Val(<<IF p.place = "jmp" THEN 1 ELSE 0>>, -1, "int"))]
Called(s, n, t) ==
  LET k == Len(s.st)
      args == [i \in 1 .. n |-> IF "argument order" \in Suspect THEN s.st[k - n + i].v ELSE s.st[k + 1 - i].v]
      enter == CHOOSE i \in DOMAIN gen.steps : gen.steps[i].do = "enter" /\ gen.steps[i].name = s.st[k - n].t
  IN  [s EXCEPT !.at = enter + 1, !.types = gen.steps[enter].types, !.args = args,
                !.back = s.at + 1, !.rest = C67Below(s, n + 1), !.st = <<>>, !.rt = t]
AfterStep(s, p) ==
  CASE p.do = "push" -> On1(s, 0, EntryValue(s, p.e))
    [] p.do = "function" -> On1(s, 0, C67Val(<<0>>, -1, p.name))
    [] p.do = "logical" -> On1(s, 0, C67Val(<<IF p.place = "jmp" THEN 0 ELSE 1>>, -1, "int"))
    [] p.do = "indir" -> On1(s, 1, C67Val(ValueAt(s.mem, Last1(s).v[1], p.type), Last1(s).v[1], p.type))
    [] p.do = "opi" -> LET a == s.st[Len(s.st) - 1].v[1]
                           b == Last1(s).v[1]
                       IN  On1(s, 2, C67Val(<<IF p.op \in Compares THEN C67Truth(C67Ordered(p.op, a, b)) ELSE IntResult(p.op, a, b)>>, -1, "int"))
    [] p.do = "opf" -> LET a == s.st[Len(s.st) - 1].v
                           b == Last1(s).v
                       IN  On1(s, 2, C67Val(IF p.op \in Compares THEN <<C67Truth(FloatLess(a, b))>> ELSE FloatResult(p.op, a, b, Len(a)), -1, Last1(s).t))
    [] p.do = "itof" -> On1(s, 1, C67Val(ConvertResult("int", p.type, Last1(s).v), -1, p.type))
    [] p.do = "ftoi" -> On1(s, 1, C67Val(ConvertResult(Last1(s).t, "int", Last1(s).v), -1, "int"))
    [] p.do = "ftof" -> On1(s, 1, C67Val(ConvertResult(Last1(s).t, p.type, Last1(s).v), -1, p.type))
    [] p.do = "assign" -> LET d == s.st[Len(s.st) - 1]
                              t == [s EXCEPT !.st = C67Below(s, 2), !.at = @ + 1]
                          IN  IF d.k > 0 THEN [t EXCEPT !.args[d.k] = Last1(s).v] ELSE [t EXCEPT !.mem = C67Written(@, d, Last1(s).v)]
    [] p.do = "test" -> LET t == [s EXCEPT !.st = C67Below(s, 1)]
                        IN  IF (Last1(s).v[1] # 0) # (p.inv = 1) THEN JumpTo1(t, p.name) ELSE [t EXCEPT !.at = @ + 1]
    [] p.do = "jump" -> JumpTo1(s, p.name)
    [] p.do = "back" -> [s EXCEPT !.at = MarkAt(p.to) + 1]
    [] p.do = "goto" -> [s EXCEPT !.at = MarkAt(Last1(s).t) + 1, !.st = C67Below(s, 1)]
    [] p.do = "call" -> Called(s, p.n, p.type)
    [] p.do = "return" -> [s EXCEPT !.result = Last1(s).v, !.st = C67Below(s, 1), !.at = @ + 1]
    [] p.do = "leave" -> IF s.back = 0 THEN [s EXCEPT !.at = @ + 1]
                         ELSE [s EXCEPT !.at = s.back, !.back = 0, !.st = Append(s.rest, C67Val(s.result, -1, s.rt))]
    [] OTHER -> [s EXCEPT !.at = @ + 1]
RECURSIVE C67Meaning(_)
C67Meaning(s) == IF s.at > Len(gen.steps) THEN s.mem ELSE C67Meaning(AfterStep(s, gen.steps[s.at]))
C67Start == CHOOSE i \in DOMAIN gen.steps : gen.steps[i].do = "enter" /\ gen.steps[i].name = "main"
InC == C67Meaning([at |-> C67Start, st |-> <<>>, mem |-> Initial, types |-> <<>>, args |-> <<>>, back |-> 0, rest |-> <<>>,
                result |-> <<0>>, rt |-> "int"])

C67Variables == 520 .. 551 \cup C67FirstFree - 40 .. C67FirstFree + 7
\* The code leaves in memory what the program means: every value is read after
\* the instruction that makes it has delivered it, operands are on the sides of
\* the processor that the instruction can reach, jumps and calls arrive where
\* they are to and come back, and the caller has its frame again.
C67RunsAsC ==
  dsp.status = "done" =>
    /\ dsp.err = "" /\ gen.vs = <<>>
    /\ dsp.regs[31] = C67FirstFree /\ dsp.regs[15] = FrameOfCaller
    /\ \A a \in C67Variables : dsp.mem[a] = InC[a]
=============================================================================

--------------------------- MODULE MCMachineCode ---------------------------
(***************************************************************************)
(* The machine code the compiler makes, each part run as it is made, and   *)
(* the run-time library that it calls: the value stack with the i386       *)
(* generator, the ARM generator (single operations; calls), arithmetic of  *)
(* long longs, the bounds checker.  A behaviour is one of the five; the    *)
(* state of the others is idle.                                            *)
(***************************************************************************)
EXTENDS ValueStack, LongLong, ArmCode, ArmCalls, BoundCheck

-----------------------------------------------------------------------------
(* Contents of the i386 program's variables.  Operands differ in all their *)
(* words; some long longs agree in their high words, some values are 0,    *)
(* some are negative.                                                      *)

Words1 == [x |-> <<3, 16, 251, 20>>, y |-> <<5, 249, 2, 7>>, c |-> <<100, 7, 130, 9>>,
           d |-> <<Pair(9, 1), Pair(0, 4), Pair(200, 255), Pair(17, 1)>>,
           e |-> <<Pair(250, 2), Pair(6, 0), Pair(90, 3), Pair(1, 128)>>]
Words2 == [x |-> <<0, 6, 12, 255>>, y |-> <<4, 3, 253, 11>>, c |-> <<9, 200, 3, 77>>,
           d |-> <<Pair(0, 0), Pair(5, 0), Pair(5, 0), Pair(33, 7)>>,
           e |-> <<Pair(8, 254), Pair(5, 255), Pair(2, 1), Pair(70, 0)>>]

Memory(w) ==
    [a \in Variables |->
        LET k == ((a - FrameTop) \div VariablesSize) + 1
            o == (a - FrameTop) % VariablesSize
        IN CASE o = Offset.x -> w.x[k]
             [] o = Offset.y -> w.y[k]
             [] o = Offset.c -> w.c[k]
             [] o = Offset.d -> Low(w.d[k])
             [] o = Offset.d + 1 -> High(w.d[k])
             [] o = Offset.e -> Low(w.e[k])
             [] o = Offset.e + 1 -> High(w.e[k])
             [] o = Offset.p -> At("ints", k)
             [] o = Offset.q -> At("longs", k)
             [] OTHER -> Wrap(40 * k + 3 * o, Width)]

TwoMemories == {Memory(Words1), Memory(Words2)}
Down == {-1}

-----------------------------------------------------------------------------
(* Single operations of the ARM generator.                                 *)

InPlace(place, r, c) == [place |-> place, r |-> r, c |-> c, type |-> "int"]
Typed(place, t, c) == [place |-> place, r |-> 3, c |-> c, type |-> t]
Task(what, op, vs, carry) == Compile([what |-> what, op |-> op, vs |-> vs, carry |-> carry])
\* Constants whose bits are in up to two runs.
Runs == {2^j - 2^i : i \in 0 .. W, j \in 0 .. W} \cap 0 .. 2^W - 1
TwoRuns ==
    {c \in {a + 2^i * b : a \in {0, 1, 3, 5, 8, 15}, b \in {0, 1, 2, 7, 15, 31, 255}, i \in 0 .. W}
           \cup Runs \cup {2^W - 1 - a : a \in Runs} : c < 2^W}
FewWords == {0, 1, 3, 16, 200, 2^W - 2, 2^(W - 1), 2^(W - 1) - 1, 2^W - 1, 4370}
Lefts(a) == {InPlace("reg", 0, a), InPlace("reg", 12, a), InPlace("local", 0, -12)}
\* What is below the operands may share their registers, but not when long longs
\* are multiplied by words (gen_opl).
Sharing(op, e) == {<<>>} \cup (IF e.place = "reg" /\ op # "*" THEN {<<e>>} ELSE {})
ArmOps == {"+", "-", "&", "|", "^", "addc1", "subc1", "addc2", "subc2"}
          \cup {"==", "<", ">=", "<=", ">", "u<", "u>=", "u<=", "u>", "!="}
Offsets == {c \in TwoRuns : c < 2^(W - 1)} \cup -200 .. 200 \cup {-c : c \in {d \in TwoRuns : d < 2^(W - 1)}}
ArmTypes == {"char", "uchar", "short", "ushort", "int", "float", "double"}
CodeInit ==
    \/ \E op \in ArmOps, c \in TwoRuns : Task("operate", op, <<InPlace("reg", 0, 4370), InPlace("const", 0, c)>>, 1)
    \/ \E op \in {"-", "subc1", "subc2", "<", "^"}, c \in TwoRuns :
          Task("operate", op, <<InPlace("const", 0, c), InPlace("reg", 1, 4370)>>, 0)
    \/ \E op \in ArmOps \cup {"*"}, k \in {0, 1}, a \in FewWords : \E l \in Lefts(a) : \E q \in Sharing(op, l),
          r \in {InPlace("reg", 1, 5), InPlace("local", 0, 8), InPlace("const", 0, 9), InPlace("cmp", 0, 1), l} :
          Task("operate", op, q \o <<l, r>>, k)
    \/ \E op \in {"<<", "u>>", ">>"}, a \in FewWords, b \in 1 .. W - 1 : \E l \in {InPlace("reg", 0, a)} :
          \E q \in {<<>>, <<l>>}, r \in {InPlace("reg", 1, b), InPlace("const", 0, b)} : Task("operate", op, q \o <<l, r>>, 0)
    \/ \E w \in {"load", "store"}, t \in ArmTypes, c \in -200 .. 200 : Task(w, "", <<Typed("local", t, c)>>, 0)
    \/ \E t \in {"char", "int", "float"}, c \in Offsets : Task("load", "", <<Typed("local", t, c)>>, 0)
    \/ \E w \in {"load", "store"}, t \in ArmTypes, p \in {"ptr", "memory"}, c \in {0, 68, 4370} :
          Task(w, "", <<Typed(p, t, c)>>, 0)
    \/ \E t \in ArmTypes, c \in {0, 68, 4370} : Task("load", "", <<Typed("llocal", t, c)>>, 0)
    \/ \E w \in {"const", "address", "sp"}, c \in Offsets : Task(w, "", <<InPlace("const", 0, c)>>, 0)

-----------------------------------------------------------------------------
(* Calls on the ARM, of up to four arguments of every size and in every    *)
(* place, with the registers handed out in several orders.                 *)

Form(t, place) == [type |-> t, place |-> place]
AllForms ==
    {Form("int", p) : p \in {"const", "reg", "ptr"}} \cup {Form("llong", p) : p \in {"const", "reg", "local", "ptr"}}
    \cup {Form("float", "reg"), Form("double", "reg"), Form("double", "local")}
    \cup {Form("s1", "local"), Form("s2", "ptr"), Form("s5", "local")}
FewForms == {Form("int", "const"), Form("int", "reg"), Form("llong", "reg"), Form("llong", "ptr"), Form("s2", "ptr"),
             Form("double", "reg")}
Orders == {<<0, 1, 2, 3, 4>>, <<3, 2, 1, 0, 4>>, <<4, 1, 3, 0, 2>>, <<1, 0, 4, 2, 3>>}
NeedsInts(f) ==
    CASE f.place = "ptr" -> 1
      [] f.place = "reg" /\ ~IsFloat(f.type) -> Length[f.type]
      [] OTHER -> 0
NeedsFloats(f) == IF f.place = "reg" /\ IsFloat(f.type) THEN 1 ELSE 0
\* The first register of each entry, counted through the regs; last, how many are taken.
IntsBefore(forms) ==
    LET f[k \in 1 .. Len(forms) + 1] == IF k = 1 THEN 1 ELSE f[k - 1] + NeedsInts(forms[k - 1]) IN f
FloatsBefore(forms) ==
    LET f[k \in 1 .. Len(forms) + 1] == IF k = 1 THEN 5 ELSE f[k - 1] + NeedsFloats(forms[k - 1]) IN f
Fits(forms) == IntsBefore(forms)[Len(forms) + 1] <= 6 /\ FloatsBefore(forms)[Len(forms) + 1] <= 9
\* The entries from the one numbered first on, their registers in regs.
Entries(forms, first, regs) ==
    LET One(f, k, int, float) ==
          ArmEntry(first + k - 1, f.type, f.place,
                IF NeedsFloats(f) = 1 THEN float ELSE IF NeedsInts(f) > 0 THEN regs[int] ELSE None,
                IF NeedsInts(f) = 2 THEN regs[int + 1] ELSE None)
    IN  [k \in 1 .. Len(forms) |-> One(forms[k], k, IntsBefore(forms)[k], FloatsBefore(forms)[k])]
BeginCallOf(pending, function, args, regs, returns, ellipsis) ==
    /\ Fits(<<pending, function>> \o args)
    /\ \E e \in {Entries(<<pending, function>> \o args, -1, regs)} :
         Begin([pending |-> <<e[1]>>, function |-> e[2], args |-> SubSeq(e, 3, Len(e)),
                     returns |-> returns, ellipsis |-> ellipsis])

Waiting == {Form("int", "reg"), Form("llong", "reg"), Form("double", "reg"), Form("s2", "ptr")}
Functions == {Form("int", "const"), Form("int", "reg")}
Flags == {<<Form("int", "cmp")>>, <<Form("llong", "reg"), Form("int", "cmp")>>,
          <<Form("int", "reg"), Form("s2", "ptr"), Form("int", "cmp")>>}
Short == UNION {[1 .. n -> AllForms] : n \in 1 .. 2} \cup Flags
Long == [1 .. 3 -> AllForms] \cup [1 .. 4 -> FewForms]
CallsInit ==
    \E o \in Orders :
      \/ \E p \in Waiting, f \in Functions, a \in Short, e \in BOOLEAN : BeginCallOf(p, f, a, o, "int", e)
      \/ \E a \in Long, e \in BOOLEAN : BeginCallOf(Form("int", "reg"), Form("int", "const"), a, o, "int", e)
      \/ \E n \in 1 .. 2 : \E a \in [1 .. n -> FewForms \ {Form("llong", "reg")}] :
           BeginCallOf(Form("int", "reg"), Form("int", "const"), <<Form("int", "const")>> \o a, o, "s2", FALSE)

-----------------------------------------------------------------------------
StackIdle ==
  /\ code = [vs |-> <<>>, jump |-> 1, mem |-> [a \in Variables |-> 0]]
  /\ source = [vals |-> <<>>, mem |-> [a \in Variables |-> 0], live |-> FALSE]
  /\ open = <<>> /\ used = MaxLeaves /\ steps = MaxSteps
LongLongIdle == call = [f |-> "idle", a |-> 0, b |-> 0] /\ ret = 0
ArmCodeIdle == task = [what |-> "idle"] /\ cpu = [err |-> ""] /\ done = FALSE
ArmCallsIdle == shape = <<>> /\ m = <<>> /\ plan = <<>> /\ pass = <<>> /\ at = "idle"

\* The checker of a program that bound_error has stopped.
BoundCheckIdle == t1 = EmptyTable /\ allocated = {} /\ error = "freeing invalid region"

MachineInit ==
  \/ StackInit /\ LongLongIdle /\ ArmCodeIdle /\ ArmCallsIdle /\ BoundCheckIdle
  \/ StackIdle /\ \/ LongLongInit /\ ArmCodeIdle /\ ArmCallsIdle /\ BoundCheckIdle
                  \/ LongLongIdle /\ CodeInit /\ ArmCallsIdle /\ BoundCheckIdle
                  \/ LongLongIdle /\ ArmCodeIdle /\ CallsInit /\ BoundCheckIdle
                  \/ LongLongIdle /\ ArmCodeIdle /\ ArmCallsIdle /\ Init

OnlyBoundCheck == UNCHANGED <<stackVars, llVars, codeVars, armVars>>
MachineNext ==
  \/ StackNext /\ UNCHANGED <<llVars, codeVars, armVars, vars>>
  \/ LongLongNext /\ UNCHANGED <<stackVars, codeVars, armVars, vars>>
  \/ CodeNext /\ UNCHANGED <<stackVars, llVars, armVars, vars>>
  \/ ArmNext /\ UNCHANGED <<stackVars, llVars, codeVars, vars>>
  \/ \E p \in Places, size \in Sizes : New(p, size) /\ OnlyBoundCheck
  \/ \E p \in Places : Delete(p) /\ OnlyBoundCheck
  \/ \E p, q \in Places, size \in Sizes : Realloc(p, q, size) /\ OnlyBoundCheck
  \/ \E p \in UNION {Bytes(r) : r \in allocated} : CheckPointer(p) /\ OnlyBoundCheck
MachineSpec == MachineInit /\ [][MachineNext]_<<stackVars, llVars, codeVars, armVars, vars>>

-----------------------------------------------------------------------------
\* What the ARM generator emits does what C says: single operations compute,
\* load and store what they are to, without losing a value that waits; in a call
\* every argument's words arrive at the address that the prologue gives the
\* parameter, and what waits below the call survives it (arm/gen.c; ArmCode,
\* ArmCalls).
ArmRunsAsC == OperationsAreExact /\ AddressesAreExact /\ (at # "idle" => ArmCallsAgree)
=============================================================================

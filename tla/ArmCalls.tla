------------------------------ MODULE ArmCalls ------------------------------
(***************************************************************************)
(* Calls as the ARM code generator makes them (arm/gen.c), in the build     *)
(* without TCC_ARM_EABI and TCC_ARM_VFP: gfunc_call, with the registers it  *)
(* shuffles, and gfunc_prolog on the other side.  The instructions are      *)
(* executed as they are emitted.                                            *)
(*                                                                         *)
(* A word is <<kind, id, k>>: the k-th word of the value id, or a pointer   *)
(* to the value's (k+1)-th word.  The values are the arguments, numbered    *)
(* from 1, the function, 0, and what waits below it on the value stack.     *)
(***************************************************************************)
EXTENDS Integers, Sequences, FiniteSets

VARIABLES
  shape,           \* the call: args, pending, function (each with the types and places of entries),
                   \* returns, ellipsis
  m,               \* the value stack, and what the code has done to the machine
  plan,            \* of each of the first arguments, the registers of its words
  pass,            \* [i, keep, todo, args_size]: the loop variables of gfunc_call, keep with the
                   \* registers in plan2
  at               \* where gfunc_call is
armVars == <<shape, m, plan, pass, at>>

Ints == 0 .. 4                     \* TREG_R0 .. TREG_R3, TREG_R12
Floats == 5 .. 8                   \* TREG_F0 .. TREG_F3
None == 99                         \* VT_CONST as r2
Garbage == <<"garbage", 0, 0>>
Length == [int |-> 1, float |-> 1, double |-> 2, llong |-> 2, s1 |-> 1, s2 |-> 2, s3 |-> 3, s5 |-> 5]
IsFloat(t) == t \in {"float", "double"}
IsStruct(t) == t \in {"s1", "s2", "s3", "s5"}
WordOf(id, k) == <<"word", id, k>>
WordsOf(id, n) == [k \in 1 .. n |-> WordOf(id, k)]
Deref(p, k) == IF p[1] = "at" THEN WordOf(p[2], p[3] + k) ELSE Garbage

(* An entry of the value stack: its place is a constant, a register (two    *)
(* for a long long), a variable, a spill slot, memory that a register or a  *)
(* slot points to, or the flags.  off counts words.                         *)
ArmEntry(id, type, place, r, r2) ==
  [id |-> id, type |-> type, place |-> place, r |-> r, r2 |-> r2, slot |-> 0, off |-> 0]

ArmTop(x) == x.vs[Len(x.vs)]
ArmSetTop(x, e) == [x EXCEPT !.vs[Len(x.vs)] = e]
ArmPush(x, e) == [x EXCEPT !.vs = Append(@, e)]
Drop1(x) == [x EXCEPT !.vs = SubSeq(@, 1, Len(@) - 1)]
arm_vswap(x) == [x EXCEPT !.vs[Len(x.vs)] = x.vs[Len(x.vs) - 1], !.vs[Len(x.vs) - 1] = ArmTop(x)]
\* The n-th entry from the top becomes the top, or the top the n-th.
vnrott(x, n) ==
  LET k == Len(x.vs) - n + 1
  IN  [x EXCEPT !.vs = SubSeq(@, 1, k - 1) \o SubSeq(@, k + 1, Len(@)) \o <<x.vs[k]>>]
vrott(x, n) ==
  LET k == Len(x.vs) - n
  IN  [x EXCEPT !.vs = SubSeq(@, 1, k) \o <<ArmTop(x)>> \o SubSeq(@, k + 1, Len(@) - 1)]

-----------------------------------------------------------------------------
(* Registers.                                                              *)

Least(S) == CHOOSE x \in S : \A y \in S : x <= y
Uses(e, r) == r \in {e.r, e.r2}
Saves(e, r) == e.r = r \/ (e.type = "llong" /\ e.r2 = r)
InRegister(x, e) ==
  IF e.r \in Floats THEN x.floats[e.r]
  ELSE IF e.type = "llong" /\ e.place = "reg" THEN <<x.regs[e.r], x.regs[e.r2]>> ELSE <<x.regs[e.r]>>

arm_save_reg(x, r) ==
  LET S == {i \in DOMAIN x.vs : Saves(x.vs[i], r)}
      Spilled(e) == [e EXCEPT !.place = IF e.place = "ptr" THEN "slotptr" ELSE "slot",
                              !.r = None, !.r2 = None, !.slot = Len(x.slots) + 1, !.off = 0]
  IN  IF S = {} THEN x
      ELSE [x EXCEPT !.slots = Append(@, InRegister(x, x.vs[Least(S)])),
                     !.vs = [i \in DOMAIN x.vs |-> IF i \in S THEN Spilled(x.vs[i]) ELSE x.vs[i]]]

ArmFree(x, rc) == {r \in rc : \A i \in DOMAIN x.vs : ~Uses(x.vs[i], r)}
\* What get_reg spills: of the entry nearest to the bottom.
Victim(x, rc) ==
  LET i == Least({j \in DOMAIN x.vs : {x.vs[j].r, x.vs[j].r2} \cap rc # {}})
  IN  IF x.vs[i].r \in rc THEN x.vs[i].r ELSE x.vs[i].r2
\* The state in which get_reg's register is free, and the register.
arm_get_reg(x, rc) ==
  LET Spilling(r) == [x |-> arm_save_reg(x, r), r |-> r]
  IN  IF ArmFree(x, rc) # {} THEN [x |-> x, r |-> Least(ArmFree(x, rc))] ELSE Spilling(Victim(x, rc))

\* Entries up to n below the top.
arm_save_regs(x, n) ==
  LET f[i \in 0 .. Len(x.vs) - n] ==
        IF i = 0 THEN x
        ELSE LET Next(y) == IF y.vs[i].r # None THEN arm_save_reg(y, y.vs[i].r) ELSE y IN Next(f[i - 1])
  IN  f[Len(x.vs) - n]

\* The words at the place of e, from its offset on.
Content(x, e, n) ==
  CASE e.place \in {"const", "cmp", "local"} -> [k \in 1 .. n |-> WordOf(e.id, e.off + k)]
    [] e.place = "address" -> <<<<"at", e.id, 0>>>>
    [] e.place = "reg" -> InRegister(x, e)
    [] e.place = "slot" -> [k \in 1 .. n |-> x.slots[e.slot][e.off + k]]
    [] e.place = "ptr" -> [k \in 1 .. n |-> Deref(x.regs[e.r], e.off + k)]
    [] e.place = "slotptr" -> [k \in 1 .. n |-> Deref(x.slots[e.slot][1], e.off + k)]

ArmInReg(e, r) == [e EXCEPT !.place = "reg", !.r = r, !.r2 = None, !.off = 0]
\* load() of a word or a floating point value into r.
Load(x, r) ==
  LET e == ArmTop(x)
      y == IF r \in Floats THEN [x EXCEPT !.floats[r] = Content(x, e, Length[e.type])]
           ELSE [x EXCEPT !.regs[r] = Content(x, e, 1)[1]]
  IN  ArmSetTop(y, ArmInReg(e, r))
\* gv of anything but a long long.
arm_gv(x, rc) ==
  LET Into(g) == Load(g.x, g.r)
  IN  IF ArmTop(x).place = "reg" /\ ArmTop(x).r \in rc THEN x ELSE Into(arm_get_reg(x, rc))

\* gv of a long long in memory: everything else is saved, and the pointer is
\* moved to the second word.
GvLong(x) ==
  LET Second(y, e, r, r2) ==
        ArmSetTop([y EXCEPT !.regs[r] = Content(y, e, 1)[1], !.regs[r2] = Content(y, e, 2)[2]],
               [ArmInReg(e, r) EXCEPT !.r2 = r2])
      \* The pointer takes a register of its own while the words are loaded.
      Words(y, e, r) ==
        LET taken == {r} \cup (IF e.place = "ptr" THEN {e.r} ELSE {Least(Ints \ {r})})
        IN  Second(y, e, r, Least(Ints \ taken))
      Saved(y, r) == Words(y, ArmTop(y), r)
      First(g) == Saved(arm_save_regs(g.x, 1), g.r)
  IN  First(arm_get_reg(x, Ints))

\* lexpand_nr: the low word below the high one, nothing loaded that need not be.
lexpand_nr(x) ==
  LET Split(y, low, high) == ArmPush(ArmSetTop(y, low), high)
      Halves(y) ==
        LET e == ArmTop(y)
            word == [e EXCEPT !.type = "int", !.r2 = None]
        IN  IF e.place = "reg" THEN Split(y, word, [word EXCEPT !.r = e.r2])
            ELSE Split(y, word, [word EXCEPT !.off = @ + 1])
  IN  IF ArmTop(x).place \in {"ptr", "slotptr"} THEN Halves(GvLong(x)) ELSE Halves(x)

-----------------------------------------------------------------------------
(* gfunc_call.                                                             *)

Args == Len(shape.args)
ArmBytes(t) == 4 * Length[t]
\* The registers of the words of the arguments that are passed in registers;
\* those of structures and floating point values are popped from the stack.
PlanFor(types) ==
  LET start[k \in 1 .. Len(types) + 1] == IF k = 1 THEN 0 ELSE start[k - 1] + Length[types[k - 1]]
  IN  [k \in 1 .. Len(types) |->
         IF start[k] >= 4 \/ IsFloat(types[k]) \/ IsStruct(types[k]) THEN <<>>
         ELSE IF types[k] = "llong" /\ start[k] < 3 THEN <<start[k], start[k] + 1>> ELSE <<start[k]>>]

\* A value in the flags can only be on the top; it is the first to go to a
\* register.
BeginCall ==
  /\ at = "begin"
  /\ m' = IF ArmTop(m).place = "cmp" THEN arm_gv(m, Ints) ELSE m
  /\ plan' = PlanFor([k \in 1 .. Args |-> shape.args[k].type])
  /\ pass' = [i |-> 0, keep |-> <<>>, todo |-> 0 .. 3, args_size |-> 0]
  /\ at' = "pass"
  /\ UNCHANGED shape

\* The next argument, from the last to the first, comes to the top.
Argument == Args - pass.i
Raised == vnrott(m, Len(pass.keep) + 1)
Passed(n) == [pass EXCEPT !.i = @ + 1, !.args_size = @ + n]
Pushed(x, words) == Drop1([x EXCEPT !.stack = words \o @])
Passing(S) == at = "pass" /\ pass.i < Args /\ ArmTop(Raised).type \in S

\* memcpy to the stack, by a call, for which all registers are saved.
PassStruct ==
  /\ Passing({"s1", "s2", "s3", "s5"})
  /\ LET Clobbered(s) == [s EXCEPT !.regs = [r \in Ints |-> Garbage], !.floats = [r \in Floats |-> <<>>]]
         Copied(g) == Pushed(Clobbered(arm_save_regs(g, 0)), Content(g, ArmTop(g), Length[ArmTop(g).type]))
     IN  m' = Copied(arm_get_reg(Raised, Ints).x)
  /\ pass' = Passed(ArmBytes(ArmTop(Raised).type))
  /\ UNCHANGED <<shape, plan, at>>

PassFloat ==
  /\ Passing({"float", "double"})
  /\ LET PushTop(g) == Pushed(g, g.floats[ArmTop(g).r]) IN m' = PushTop(arm_gv(Raised, Floats))
  /\ pass' = Passed(ArmBytes(ArmTop(Raised).type))
  /\ UNCHANGED <<shape, plan, at>>

\* A word: kept for its register, or pushed.
PassWord(x, p, regs, j) ==
  IF Len(regs) >= j THEN [x |-> x, p |-> [p EXCEPT !.keep = Append(@, regs[j]), !.todo = @ \ {regs[j]}]]
  ELSE LET PushTop(g) == Pushed(g, <<g.regs[ArmTop(g).r]>>) IN [x |-> PushTop(arm_gv(x, Ints)), p |-> p]

PassInt ==
  /\ Passing({"int"})
  /\ LET Taken(w) == m' = w.x /\ pass' = w.p IN Taken(PassWord(Raised, Passed(4), plan[Argument], 1))
  /\ UNCHANGED <<shape, plan, at>>

\* The high word first; if it is kept the low one is swapped to the top.
PassLong ==
  /\ Passing({"llong"})
  /\ LET regs == plan[Argument]
         Low(h) == PassWord(IF Len(regs) = 2 THEN arm_vswap(h.x) ELSE h.x, h.p, regs, 1)
         Taken(w) == m' = w.x /\ pass' = w.p
     IN  Taken(Low(PassWord(lexpand_nr(Raised), Passed(8), regs, 2)))
  /\ UNCHANGED <<shape, plan, at>>

\* Each word that was kept is loaded into its register.
Place ==
  /\ at = "pass" /\ pass.i = Args
  /\ LET k == Len(pass.keep)
         f[i \in 0 .. k] == IF i = 0 THEN m ELSE vrott(arm_gv(f[i - 1], {pass.keep[k - i + 1]}), k)
     IN  m' = arm_save_regs(f[k], k)
  /\ at' = "placed"
  /\ UNCHANGED <<shape, plan, pass>>

InRegs(n) == IF n \div 4 > 4 THEN 4 ELSE n \div 4
\* The registers whose words are on the stack.
ArmPopped(p) == {r \in p.todo : r < InRegs(p.args_size)}
\* ldmia sp!: the registers in ascending order.
PopRegisters ==
  /\ at = "placed"
  /\ LET S == ArmPopped(pass)
         nth(r) == Cardinality({q \in S : q <= r})
         \* Entries that mark the registers as used.
         marks == [j \in 1 .. Cardinality(S) |-> ArmEntry(0, "int", "reg", CHOOSE r \in S : nth(r) = j, None)]
     IN  /\ m' = [m EXCEPT !.regs = [r \in Ints |-> IF r \in S THEN m.stack[nth(r)] ELSE m.regs[r]],
                           !.stack = SubSeq(@, Cardinality(S) + 1, Len(@)),
                           !.vs = @ \o marks]
         /\ pass' = [pass EXCEPT !.args_size = @ - 4 * InRegs(@), !.i = Len(pass.keep) + Cardinality(S) + 1]
  /\ at' = "call"
  /\ UNCHANGED <<shape, plan>>

\* gcall_or_jmp; the function may be in a register.
ArmJump ==
  /\ at = "call"
  /\ LET x == vnrott(m, pass.i) IN m' = IF ArmTop(x).place = "const" THEN x ELSE arm_gv(x, Ints)
  /\ at' = "called"
  /\ UNCHANGED <<shape, plan, pass>>

-----------------------------------------------------------------------------
(* The function that is called, and the return.                            *)

Sum(types) ==
  LET f[k \in 0 .. Len(types)] == IF k = 0 THEN 0 ELSE f[k - 1] + Length[types[k]] IN f[Len(types)]
\* The declared parameters: all arguments but those for the ellipsis.
Declared == [k \in 1 .. (IF shape.ellipsis THEN 1 ELSE Args) |-> shape.args[k].type]
\* The result's address is a parameter when the structure is larger than a word.
Hidden == shape.returns \in {"s2", "s3", "s5"}
Implicit == IF IsStruct(shape.returns) THEN 1 ELSE 0

\* How many registers gfunc_prolog pushes.
Saved == LET n == Sum(Declared) IN IF shape.ellipsis \/ n > 4 THEN 4 ELSE n
\* Where the prologue finds parameter k, in words from fp.
ArmAddress(k) ==
  LET skipped == IF Implicit = 1 /\ Hidden THEN 1 ELSE 0
      first == IF Implicit = 1 THEN 2 ELSE 1       \* the address of the result is the first argument
  IN  IF k < first THEN 0
      ELSE skipped + Sum([j \in 1 .. k - first |-> shape.args[j + first - 1].type])

gfunc_prolog ==
  /\ at = "called"
  /\ m' = [m EXCEPT !.stack = [r \in 1 .. Saved |-> m.regs[r - 1]] \o @]
  /\ at' = "body"
  /\ UNCHANGED <<shape, plan, pass>>

\* gfunc_epilog takes sp from ip, which was sp; the caller drops the rest.
Return ==
  /\ at = "body"
  /\ m' = [m EXCEPT !.stack = SubSeq(@, Saved + 1 + pass.args_size \div 4, Len(@)),
                    !.regs = [r \in Ints |-> Garbage], !.floats = [r \in Floats |-> <<>>],
                    !.vs = SubSeq(@, 1, Len(@) - pass.i)]
  /\ at' = "returned"
  /\ UNCHANGED <<shape, plan, pass>>

-----------------------------------------------------------------------------
ArmContents(e) ==
  IF e.place = "reg" THEN WordsOf(e.id, Length[e.type]) ELSE <<<<"at", e.id, 0>>>>
\* The registers hold what the entries say they hold.
ArmHolds(vs, r) ==
  LET S == {i \in DOMAIN vs : Uses(vs[i], r)}
  IN  IF S = {} THEN Garbage
      ELSE LET e == vs[Least(S)] IN IF e.r = r THEN ArmContents(e)[1] ELSE ArmContents(e)[2]
Begin(c) ==
  /\ shape = c
  /\ LET vs == c.pending \o <<c.function>> \o c.args
     IN  m = [vs |-> vs, slots |-> <<>>, stack |-> <<>>,
              regs |-> [r \in Ints |-> ArmHolds(vs, r)],
              floats |-> [r \in Floats |->
                            LET S == {i \in DOMAIN vs : vs[i].r = r}
                            IN  IF S = {} THEN <<>> ELSE ArmContents(vs[Least(S)])]]
  /\ plan = <<>> /\ pass = [i |-> 0, keep |-> <<>>, todo |-> {}, args_size |-> 0] /\ at = "begin"

ArmNext ==
  \/ BeginCall \/ PassStruct \/ PassFloat \/ PassInt \/ PassLong
  \/ Place \/ PopRegisters \/ ArmJump \/ gfunc_prolog \/ Return

-----------------------------------------------------------------------------
\* The function finds every argument's words at the address it gives the
\* parameter, in whatever registers, variables and memory the caller had them
\* and however their words were split between registers and stack; and values
\* that wait below the call survive it, in memory, with the stack as it was.
ArmCallsAgree ==
  /\ at = "body" =>
       /\ Content(m, ArmTop(m), 1)[1] = WordOf(0, 1)
       /\ \A k \in 1 .. Args : \A j \in 1 .. Length[shape.args[k].type] :
            ArmAddress(k) + j \in DOMAIN m.stack /\ m.stack[ArmAddress(k) + j] = WordOf(k, j)
  /\ at = "returned" =>
       /\ m.stack = <<>>
       /\ Len(m.vs) = Len(shape.pending)
       /\ \A i \in DOMAIN m.vs : Content(m, m.vs[i], Length[m.vs[i].type]) = WordsOf(m.vs[i].id, Length[m.vs[i].type])
=============================================================================

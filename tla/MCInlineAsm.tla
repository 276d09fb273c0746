---------------------------- MODULE MCInlineAsm ----------------------------
(***************************************************************************)
(* asm statements of up to four operands, and what the text of each may    *)
(* rely on.                                                                *)
(***************************************************************************)
EXTENDS InlineAsm

InRegisterOutputs == {<<"=", "r">>, <<"=", "&", "r">>, <<"=", "a">>, <<"+", "r">>, <<"=", "q">>, <<"=", "&", "q">>}
Lvalues == {"local", "llocal"}
\* Where tcc does something else: long longs other than lvalues in the frame,
\* char outputs that may come to esi or edi, and inputs that share the place of
\* an output in memory are left out, and so is g with the address of a local.
MCOutputs ==
  [c : InRegisterOutputs \cup {<<"=", "m">>, <<"=", "g">>, <<"+", "m">>}, vt : Lvalues]
  \cup [c : {<<"=", "q">>, <<"=", "a">>}, vt : {"char"}] \cup [c : {<<"=", "A">>}, vt : {"wide"}]
MCInputs ==
  [c : {<<"r">>, <<"a">>, <<"d">>, <<"S">>, <<"i", "r">>, <<"m", "r">>, <<"q">>}, vt : Lvalues]
  \cup [c : {<<"r">>, <<"g">>, <<"i", "r">>}, vt : {"const"}] \cup [c : {<<"r">>}, vt : {"addr"}]
  \cup [c : {<<"m">>, <<"g">>}, vt : Lvalues] \cup [c : {<<"A">>}, vt : {"wide"}]
References == [c : {<<"0">>}, vt : {"local", "const"}]
Referred == {o \in MCOutputs : o.c \in InRegisterOutputs /\ ~Has(o.c, "+")}
Ones(S) == {<<x>> : x \in S}
Twos(S, T) == {<<x, y>> : x \in S, y \in T}
Form(os, is, cls) == [outputs |-> os, inputs |-> is, clobbers |-> cls]
MCForms ==
  {Form(Ones(MCOutputs), Twos(MCInputs, MCInputs), {{}, {0}, {3}, {0, 1, 2, 3}}),
   Form(Twos(MCOutputs, MCOutputs), Ones(MCInputs), {{}, {0}, {3}, {0, 1, 2, 3}}),
   Form(Ones(Referred), Twos(References, MCInputs), {{}}),
   Form(Twos(Referred, MCOutputs), Twos(MCInputs, References), {{}})}

(* ------------------------------ properties ----------------------------- *)

Expected(i) == IF Op(i).vt = "addr" THEN Pointer(i) ELSE Value(i)
\* When the text reads them, operands denote what the program passes, although
\* & outputs have been written and clobbered registers trashed before;
\* asm_compute_constraints and the loads of asm_gen_code.
OperandsHoldTheirValues ==
  phase \in {"writes", "epilog", "end"} =>
    \A i \in Operands : Reads(i) => seen[i] = <<Expected(i), HighValue(i)>>

\* Behind the statement, each output is where the program has it, all of it,
\* and nothing else has been written to.
OutputsReachTheirHomes ==
  phase = "end" =>
    \A c \in DOMAIN mem :
      mem[c] = CASE c[1] = "cell" /\ IsOutput(c[2]) -> Result(c[2])
                 [] c[1] = "high" /\ IsOutput(c[2]) /\ Op(c[2]).vt = "wide" -> HighResult(c[2])
                 [] c[1] = "cell" -> Value(c[2])
                 [] c[1] = "high" -> HighValue(c[2])
                 [] OTHER -> Pointer(c[2])

\* out_reg may be a register that nobody saves.
ScratchIsSaved == got.out \in Saved => got.out \in InUse
\* ebx, esi and edi, which the code generator never saves for anybody, are as
\* they were.
SavedRegistersSurvive ==
  phase = "end" => pushed = <<>> /\ (ScratchIsSaved => \A r \in Saved : regs[r] = Entry(r))

\* The sets of registers that meet a letter of an operand's constraint.
AsmChoices(i) ==
  LET Letter(ch) ==
        CASE ch \in DOMAIN RegisterOf -> {{RegisterOf[ch]}}
          [] ch = "q" -> {{r} : r \in 0 .. 3}
          [] ch = "r" -> {{r} : r \in AsmRegs}
          [] ch = "A" -> {{EAX, EDX}}
          [] ch = "i" -> IF Op(i).vt = "const" THEN {{}} ELSE {}
          [] OTHER -> IF Op(i).vt = "llocal" THEN {{r} : r \in AsmRegs} ELSE {{}}
  IN  UNION {Letter(Op(i).c[k]) : k \in {x \in Indices(Op(i).c) : Op(i).c[x] \notin Modifiers}}
\* Operands from i on can be given registers next to those that are used.
RECURSIVE Placeable(_, _)
Placeable(i, used) ==
  LET c == Op(i).c
      mask == IF Has(c, "m") \/ Has(c, "g") THEN {"in"} ELSE MaskOf(i)
  IN  \/ i > Len(asm.ops)
      \/ IsReference(i) /\ Placeable(i + 1, used)
      \/ \E rs \in AsmChoices(i) :
           /\ \A r \in rs : used[r] \cap mask = {}
           /\ Placeable(i + 1, [r \in AsmRegs |-> IF r \in rs THEN used[r] \cup mask ELSE used[r]])
\* A statement is refused for its registers only if they do not suffice.
RefusedForWantOfRegisters ==
  phase = "could not be satisfied" => ~Placeable(1, NothingGot.used)

\* An asm statement reads and writes what its operands denote and nothing else:
\* no register that asm_compute_constraints gives to two of them, that the text
\* destroys or that is saved around it holds a value that is wanted still; and it
\* is refused for its registers only if they do not suffice.
OperandsAreKept ==
  OperandsHoldTheirValues /\ OutputsReachTheirHomes /\ SavedRegistersSurvive /\ RefusedForWantOfRegisters
=============================================================================

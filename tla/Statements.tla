------------------------------ MODULE Statements ------------------------------
(***************************************************************************)
(* Statements of a function (block(), gen_function) and the jumps they     *)
(* leave: if, loops, switch, goto, labels and local labels.  The code is a *)
(* sequence of instructions; a jump whose target is not known yet holds    *)
(* the address of the next jump of its list instead, and 0 ends a list.    *)
(* Each call of block() that waits for a sub-statement is an activation;   *)
(* break, continue and case find their lists through the pointers that     *)
(* these calls pass on.                                                    *)
(***************************************************************************)
EXTENDS Integers, Sequences, FiniteSets, SequencesExt

CONSTANTS
    Families,    \* sets of programs: [stmts, conds, tests, length]
    Names,       \* labels
    AfterError   \* whether the caller compiles again after an error

ASSUME StatementsAssumption ==
    /\ AfterError \in BOOLEAN
    /\ \A f \in Families : f.length \in Nat

VARIABLES
    code,               \* instructions of the function, gen_ind = Len(code) + 1
    activations,        \* calls of block() that wait, the outermost first
    returned,           \* the sub-statement of the last one has returned
    rsym,               \* list of the jumps to the end of the function
    global_label_stack, \* labels: [token, r, next]
    local_label_stack,
    sym_label,          \* name -> its chain of <<stack, index>>
    stmtState,          \* "parsing", "done", or "error"
    tree,               \* ghost: the statements read, each with its parent
    family              \* the programs of this behaviour

labels == <<global_label_stack, local_label_stack, sym_label>>
stmtVars == <<code, activations, returned, rsym, labels, stmtState, tree, family>>

(* -------------------------------- the code ------------------------------ *)

\* What a program can be seen to do (point), the comparison of a case, and
\* jumps: always, or when the last test or comparison came out as `when`.
AtPoint(node, what) == [op |-> "at", point |-> <<node, what>>]
Compare(node, rel, v) == [op |-> "compare", switch |-> node, rel |-> rel, value |-> v]
Jump(t) == [op |-> "jump", to |-> t, pending |-> TRUE]
JumpIf(when, t) == [op |-> "jumpif", when |-> when, to |-> t, pending |-> TRUE]
IsJump(i) == i.op \in {"jump", "jumpif"}

Ind(c) == Len(c) + 1

\* The jumps of the list that begins at t; lists link to earlier jumps.
Linked(c, t) ==
    LET from[i \in 0 .. Len(c)] == IF i = 0 THEN {} ELSE {i} \cup from[c[i].to]
    IN from[t]

gen_resolve_sym_addr(c, t, a) ==
    LET list == Linked(c, t)
    IN [i \in DOMAIN c |-> IF i \in list THEN [c[i] EXCEPT !.to = a, !.pending = FALSE]
                           ELSE c[i]]
gen_resolve_sym(c, t) == gen_resolve_sym_addr(c, t, Ind(c))

gjmp(c, t) == Append(c, Jump(t))
gjmp_addr(c, a) == Append(c, [Jump(a) EXCEPT !.pending = FALSE])

(* A condition and gtst: the code, and the list of the jumps that leave.   *)
Constants == [one |-> TRUE, zero |-> FALSE]
Operand(c, node, what, when, t) == c \o <<AtPoint(node, what), JumpIf(when, t)>>

\* a && b, a || b: gexpr has tested both operands.
BothTested(c, node, when) ==
    LET first == Operand(c, node, "test", when, 0)
    IN Operand(first, node, "second", when, Len(first))

\* gtst(inv, t) with inv = 1 jumps if the condition is false.
gtst(c, node, cond, when, t) ==
    IF cond = "none" THEN [code |-> c, list |-> t]
    ELSE IF cond \in DOMAIN Constants THEN
        IF Constants[cond] = when THEN [code |-> gjmp(c, t), list |-> Ind(c)]
        ELSE [code |-> c, list |-> t]
    ELSE IF cond = "var" THEN
        LET d == Operand(c, node, "test", when, t) IN [code |-> d, list |-> Len(d)]
    ELSE
        LET jumps == (cond = "or")        \* on what the operands' jumps leave
            d == BothTested(c, node, jumps)
        IN IF jumps = when THEN [code |-> d, list |-> Len(d)]
           ELSE [code |-> gen_resolve_sym(gjmp(d, t), Len(d)), list |-> Ind(d)]

(* ------------------------------- activations ---------------------------- *)

TopBlock == Last(activations)

\* bsym, csym, case_sym, def_sym: the activation whose a, b, b, c they point
\* at, 0 for NULL; the arguments of the call for the sub-statement.
FunctionBlock ==
    [stmt |-> "function", node |-> 0, a |-> 0, b |-> 0, c |-> 0, d |-> 0, llabel |-> 0,
     bsym |-> 0, csym |-> 0, case_sym |-> 0, def_sym |-> 0]
CallBlock(stmt) == [TopBlock EXCEPT !.stmt = stmt, !.node = Len(tree) + 1,
                          !.a = 0, !.b = 0, !.c = 0, !.d = 0]
LoopBlock(stmt) == [CallBlock(stmt) EXCEPT !.bsym = Len(activations) + 1, !.csym = Len(activations) + 1]
SwitchBlock == [CallBlock("switch") EXCEPT !.bsym = Len(activations) + 1,
              !.case_sym = Len(activations) + 1, !.def_sym = Len(activations) + 1]

\* A statement is read where a sub-statement is, and in { } at any number.
Labelled == tree # <<>> /\ ~returned /\ Last(tree).stmt \in {"label", "case", "default"}
Wanted(stmt) ==
    /\ stmtState = "parsing"
    /\ ~returned \/ TopBlock.stmt = "compound"
    /\ TopBlock.stmt = "function" => stmt = "compound"
Readable(stmt) == Wanted(stmt) /\ stmt \in family.stmts /\ Len(tree) < family.length
Conditions == family.conds \cup {"var"}

\* The statement read, under the label or statement it belongs to.
Node(stmt) == [stmt |-> stmt, in |-> IF Labelled THEN Len(tree) ELSE TopBlock.node]
ReadNode(node) == tree' = Append(tree, node)

Opens(activation) ==
    /\ activations' = Append(activations, activation)
    /\ returned' = FALSE
Leaf == returned' = TRUE /\ UNCHANGED activations
SubReturned(stmt) == stmtState = "parsing" /\ returned /\ TopBlock.stmt = stmt
Returns(c) ==
    /\ code' = c
    /\ activations' = Front(activations)
    /\ UNCHANGED <<returned, rsym, labels, stmtState, tree, family>>

\* error(): nothing that belongs to statements is reset.
StatementError ==
    /\ stmtState' = "error"
    /\ UNCHANGED <<activations, returned, family>>

(* ------------------------- expressions and selection -------------------- *)

ExprStatement ==
    /\ Wanted("expr")
    /\ TopBlock.stmt = "compound" => Readable("expr")
    /\ ReadNode(Node("expr"))
    /\ code' = Append(code, AtPoint(Len(tree) + 1, "expr"))
    /\ Leaf
    /\ UNCHANGED <<rsym, labels, stmtState, family>>

If ==
    /\ Readable("if")
    /\ \E cond \in Conditions :
         LET test == gtst(code, Len(tree) + 1, cond, FALSE, 0) IN
         /\ ReadNode(Node("if") @@ [cond |-> cond])
         /\ code' = test.code
         /\ Opens([CallBlock("if") EXCEPT !.a = test.list])
    /\ UNCHANGED <<rsym, labels, stmtState, family>>

Else ==
    /\ SubReturned("if")
    /\ "else" \in family.stmts
    /\ code' = gen_resolve_sym(gjmp(code, 0), TopBlock.a)
    /\ activations' = Append(Front(activations), [TopBlock EXCEPT !.stmt = "else", !.d = Ind(code)])
    /\ returned' = FALSE
    /\ UNCHANGED <<rsym, labels, stmtState, tree, family>>

IfReturns == SubReturned("if") /\ Returns(gen_resolve_sym(code, TopBlock.a))
ElseReturns == SubReturned("else") /\ Returns(gen_resolve_sym(code, TopBlock.d))

(* --------------------------------- loops -------------------------------- *)

While ==
    /\ Readable("while")
    /\ \E cond \in Conditions :
         LET test == gtst(code, Len(tree) + 1, cond, FALSE, 0) IN
         /\ ReadNode(Node("while") @@ [cond |-> cond])
         /\ code' = test.code
         /\ Opens([LoopBlock("while") EXCEPT !.a = test.list, !.d = Ind(code)])
    /\ UNCHANGED <<rsym, labels, stmtState, family>>

\* Mutant: continue leaves the loop.
ContinueLeaves(start) ==
    Returns(gen_resolve_sym(gen_resolve_sym(gjmp_addr(code, start), TopBlock.a), TopBlock.b))
LoopReturns(start) ==
    Returns(gen_resolve_sym_addr(gen_resolve_sym(gjmp_addr(code, start), TopBlock.a), TopBlock.b, start))
WhileReturns == SubReturned("while") /\ LoopReturns(TopBlock.d)

For ==
    /\ Readable("for")
    /\ \E cond \in Conditions \cup {"none"}, init, step \in BOOLEAN :
         LET n == Len(tree) + 1
             begun == IF init THEN Append(code, AtPoint(n, "init")) ELSE code
             test == gtst(begun, n, cond, FALSE, 0)
             e == Ind(test.code)
             stepped == gjmp_addr(Append(gjmp(test.code, 0), AtPoint(n, "step")), Ind(begun))
         IN
         /\ ReadNode(Node("for") @@ [cond |-> cond, init |-> init, step |-> step])
         /\ code' = IF step THEN gen_resolve_sym(stepped, e) ELSE test.code
         /\ Opens([LoopBlock("for") EXCEPT !.a = test.list,
                                      !.c = IF step THEN e + 1 ELSE Ind(begun)])
    /\ UNCHANGED <<rsym, labels, stmtState, family>>

ForReturns == SubReturned("for") /\ LoopReturns(TopBlock.c)

DoBegins ==
    /\ Readable("do")
    /\ \E cond \in Conditions : ReadNode(Node("do") @@ [cond |-> cond])
    /\ Opens([LoopBlock("do") EXCEPT !.d = Ind(code)])
    /\ UNCHANGED <<code, rsym, labels, stmtState, family>>

DoReturns ==
    /\ SubReturned("do")
    /\ LET test == gtst(gen_resolve_sym(code, TopBlock.b), TopBlock.node, tree[TopBlock.node].cond, TRUE, 0)
       IN Returns(gen_resolve_sym(gen_resolve_sym_addr(test.code, test.list, TopBlock.d), TopBlock.a))

\* break and continue, through the pointer they were given.
Break ==
    /\ Readable("break")
    /\ ReadNode(Node("break"))
    /\ IF TopBlock.bsym = 0 THEN StatementError /\ UNCHANGED code
       ELSE /\ code' = gjmp(code, activations[TopBlock.bsym].a)
            /\ activations' = [activations EXCEPT ![TopBlock.bsym].a = Ind(code)]
            /\ returned' = TRUE
            /\ UNCHANGED <<stmtState, family>>
    /\ UNCHANGED <<rsym, labels>>

Continue ==
    /\ Readable("continue")
    /\ ReadNode(Node("continue"))
    /\ IF TopBlock.csym = 0 THEN StatementError /\ UNCHANGED code
       ELSE /\ code' = gjmp(code, activations[TopBlock.csym].b)
            /\ activations' = [activations EXCEPT ![TopBlock.csym].b = Ind(code)]
            /\ returned' = TRUE
            /\ UNCHANGED <<stmtState, family>>
    /\ UNCHANGED <<rsym, labels>>

Return ==
    /\ Readable("return")
    /\ ReadNode(Node("return"))
    /\ code' = gjmp(Append(code, AtPoint(Len(tree) + 1, "return")), rsym)
    /\ rsym' = Ind(code) + 1
    /\ Leaf
    /\ UNCHANGED <<labels, stmtState, family>>

(* -------------------------------- switch -------------------------------- *)

SwitchBegins ==
    /\ Readable("switch")
    /\ ReadNode(Node("switch"))
    /\ code' = gjmp(Append(code, AtPoint(Len(tree) + 1, "switch")), 0)
    /\ Opens([SwitchBlock EXCEPT !.b = Ind(code) + 1])
    /\ UNCHANGED <<rsym, labels, stmtState, family>>

\* Mutant: without a default the tests have nowhere to go.
SwitchWithoutDefault ==
    /\ SubReturned("switch")
    /\ Returns(gen_resolve_sym(IF TopBlock.c = 0 THEN code
                               ELSE gen_resolve_sym_addr(code, TopBlock.b, TopBlock.c), TopBlock.a))
SwitchReturns ==
    /\ SubReturned("switch")
    /\ LET default == IF TopBlock.c = 0 THEN Ind(code) ELSE TopBlock.c
       IN Returns(gen_resolve_sym(gen_resolve_sym_addr(code, TopBlock.b, default), TopBlock.a))

\* The tests of v1 ... v2: the list of the jumps to the next case is left
\* open, the last test is still in the flags.
RangeTests(c, sw, range) ==
    IF range[1] = range[2]
    THEN [code |-> Append(c, Compare(sw, "eq", range[1])), list |-> 0]
    ELSE [code |-> c \o <<Compare(sw, "ge", range[1]), JumpIf(FALSE, 0),
                          Compare(sw, "le", range[2])>>,
          list |-> Ind(c) + 1]

\* case r1: case r2: ... as one loop (next_case): all but the last jump to
\* the statement if their test holds.  b is the list of those jumps.
CaseTests(c, sw, ranges, case_sym, b) ==
    LET Next_case(s, k) ==
            LET t == RangeTests(gen_resolve_sym(s.code, s.list), sw, ranges[k])
            IN IF k < Len(ranges)
               THEN [code |-> Append(t.code, JumpIf(TRUE, s.b)), list |-> t.list,
                     b |-> Ind(t.code)]
               ELSE [code |-> Append(t.code, JumpIf(FALSE, t.list)), list |-> Ind(t.code),
                     b |-> s.b]
    IN FoldLeft(Next_case, [code |-> c, list |-> case_sym, b |-> b],
                [k \in DOMAIN ranges |-> k])

Case ==
    /\ Readable("case")
    /\ Labelled => Last(tree).stmt # "case"
    /\ \E ranges \in family.tests :
         /\ ReadNode(Node("case") @@ [tests |-> ranges])
         /\ IF TopBlock.case_sym = 0 THEN StatementError /\ UNCHANGED code
            ELSE LET sw == activations[TopBlock.case_sym]
                     tests == CaseTests(gjmp(code, 0), sw.node, ranges, sw.b, Ind(code))
                 IN
                 /\ code' = gen_resolve_sym(tests.code, tests.b)
                 /\ activations' = [activations EXCEPT ![TopBlock.case_sym].b = tests.list]
                 /\ returned' = FALSE
                 /\ UNCHANGED <<stmtState, family>>
    /\ UNCHANGED <<rsym, labels>>

Default ==
    /\ Readable("default")
    /\ ReadNode(Node("default"))
    /\ UNCHANGED code
    /\ IF TopBlock.def_sym = 0 \/ activations[TopBlock.def_sym].c # 0 THEN StatementError
       ELSE /\ activations' = [activations EXCEPT ![TopBlock.def_sym].c = Ind(code)]
            /\ returned' = FALSE
            /\ UNCHANGED <<stmtState, family>>
    /\ UNCHANGED <<rsym, labels>>

(* -------------------------------- labels -------------------------------- *)

LABEL_DEFINED == 0
LABEL_FORWARD == 1
LABEL_DECLARED == 2

NoLabel == <<"none", 0>>
label_find(name) == IF sym_label[name] = <<>> THEN NoLabel ELSE Head(sym_label[name])
LabelSym(s) == (IF s[1] = "global" THEN global_label_stack ELSE local_label_stack)[s[2]]
SetLabel(s, sym) ==
    /\ global_label_stack' = IF s[1] = "global" THEN [global_label_stack EXCEPT ![s[2]] = sym]
                             ELSE global_label_stack
    /\ local_label_stack' = IF s[1] = "local" THEN [local_label_stack EXCEPT ![s[2]] = sym]
                            ELSE local_label_stack
    /\ UNCHANGED sym_label
\* label_push on the global stack: behind all others of its name.
PushGlobal(name, r, next) ==
    /\ global_label_stack' = Append(global_label_stack, [token |-> name, r |-> r, next |-> next])
    /\ sym_label' = [sym_label EXCEPT ![name] =
                         Append(@, <<"global", Len(global_label_stack) + 1>>)]
    /\ UNCHANGED local_label_stack

\* Mutant: && does not mark a label of __label__ as used.
AddressKeepsDeclared(name, jumps) ==
    LET s == label_find(name)
        known == s # NoLabel
        defined == known /\ LabelSym(s).r = LABEL_DEFINED
        list == IF known THEN LabelSym(s).next ELSE 0
    IN
    /\ IF defined \/ (known /\ ~jumps) THEN UNCHANGED labels
       ELSE IF known THEN SetLabel(s, [LabelSym(s) EXCEPT !.r = LABEL_FORWARD, !.next = Ind(code)])
       ELSE PushGlobal(name, LABEL_FORWARD, IF jumps THEN Ind(code) ELSE 0)
    /\ code' = IF ~jumps THEN Append(code, AtPoint(Len(tree) + 1, "expr"))
               ELSE IF defined THEN gjmp_addr(code, list)
               ELSE gjmp(code, list)

\* A use of a label, whose jump (if it is one) joins its list or goes there.
UseLabel(name, jumps) ==
    LET s == label_find(name)
        known == s # NoLabel
        defined == known /\ LabelSym(s).r = LABEL_DEFINED
        list == IF known THEN LabelSym(s).next ELSE 0
        next == IF jumps THEN Ind(code) ELSE list
    IN
    /\ IF defined THEN UNCHANGED labels
       ELSE IF known THEN SetLabel(s, [LabelSym(s) EXCEPT !.r = LABEL_FORWARD, !.next = next])
       ELSE PushGlobal(name, LABEL_FORWARD, next)
    /\ code' = IF ~jumps THEN Append(code, AtPoint(Len(tree) + 1, "expr"))
               ELSE IF defined THEN gjmp_addr(code, list)
               ELSE gjmp(code, list)

Goto ==
    /\ Readable("goto")
    /\ \E name \in Names : ReadNode(Node("goto") @@ [name |-> name]) /\ UseLabel(name, TRUE)
    /\ Leaf
    /\ UNCHANGED <<rsym, stmtState, family>>

\* An expression statement with &&name in it.
AddressOfLabel ==
    /\ Readable("address")
    /\ \E name \in Names : ReadNode(Node("address") @@ [name |-> name]) /\ UseLabel(name, FALSE)
    /\ Leaf
    /\ UNCHANGED <<rsym, stmtState, family>>

Label ==
    /\ Readable("label")
    /\ \E name \in Names :
         LET s == label_find(name) IN
         /\ ReadNode(Node("label") @@ [name |-> name])
         /\ IF s # NoLabel /\ LabelSym(s).r = LABEL_DEFINED
            THEN StatementError /\ UNCHANGED <<code, labels>>
            ELSE /\ IF s = NoLabel
                    THEN PushGlobal(name, LABEL_DEFINED, Ind(code)) /\ UNCHANGED code
                    ELSE /\ SetLabel(s, [LabelSym(s) EXCEPT !.r = LABEL_DEFINED,
                                                            !.next = Ind(code)])
                         /\ code' = gen_resolve_sym(code, LabelSym(s).next)
                 /\ returned' = FALSE
                 /\ UNCHANGED <<activations, stmtState, family>>
    /\ UNCHANGED rsym

\* block_after_label at '}', where no statement follows.
NothingAfterLabel ==
    /\ stmtState = "parsing"
    /\ Labelled
    /\ TopBlock.stmt = "compound"
    /\ returned' = TRUE
    /\ UNCHANGED <<code, activations, rsym, labels, stmtState, tree, family>>

\* label_pop down to the height h, the newest first: an undefined label is
\* an error, which leaves it and those below it; the chains lose the others.
Undefined(stack, h) == {i \in h + 1 .. Len(stack) : stack[i].r = LABEL_FORWARD}
Popped(stack, h) ==
    LET lost == Undefined(stack, h)
    IN IF lost = {} THEN h ELSE CHOOSE i \in lost : \A j \in lost : j <= i
\* Mutant: labels that are popped stay in their chains.
ChainsStay(which, stack, keep) == sym_label
ChainsWithout(which, stack, keep) ==
    [name \in Names |->
       LET gone == {i \in keep + 1 .. Len(stack) : stack[i].token = name}
       IN IF gone = {} THEN sym_label[name]
          ELSE LET oldest == CHOOSE i \in gone : \A j \in gone : i <= j
                   at == CHOOSE k \in DOMAIN sym_label[name] :
                             sym_label[name][k] = <<which, oldest>>
               IN SubSeq(sym_label[name], at + 1, Len(sym_label[name]))]

(* --------------------------- blocks and functions ----------------------- *)

\* { with the labels of __label__; llabel is the height to pop to.
DeclaredLabels(names) ==
    [i \in DOMAIN names |-> [token |-> names[i], r |-> LABEL_DECLARED, next |-> 0]]
Compound ==
    /\ TopBlock.stmt = "function" \/ Readable("compound")
    /\ Wanted("compound")
    /\ \E names \in IF "__label__" \in family.stmts THEN {<<>>} \cup {<<n>> : n \in Names}
                    ELSE {<<>>} :
         /\ ReadNode(Node("compound") @@ [labels |-> ToSet(names)])
         /\ local_label_stack' = local_label_stack \o DeclaredLabels(names)
         /\ sym_label' = [n \in Names |->
                IF n \in ToSet(names)
                THEN <<<<"local", Len(local_label_stack) + 1>>>> \o sym_label[n]
                ELSE sym_label[n]]
    /\ activations' = Append(activations,
                             [CallBlock("compound") EXCEPT !.llabel = Len(local_label_stack)])
    /\ returned' = TRUE
    /\ UNCHANGED <<code, rsym, global_label_stack, stmtState, family>>

CloseCompound ==
    /\ SubReturned("compound")
    /\ LET keep == Popped(local_label_stack, TopBlock.llabel) IN
       /\ sym_label' = ChainsWithout("local", local_label_stack, keep)
       /\ IF keep = TopBlock.llabel
          THEN /\ local_label_stack' = SubSeq(local_label_stack, 1, keep)
               /\ activations' = Front(activations)
               /\ UNCHANGED <<returned, stmtState, family>>
          ELSE StatementError /\ UNCHANGED local_label_stack
    /\ UNCHANGED <<code, rsym, global_label_stack, tree>>

EndFunction ==
    /\ SubReturned("function")
    /\ LET keep == Popped(global_label_stack, 0) IN
       /\ sym_label' = ChainsWithout("global", global_label_stack, keep)
       /\ IF keep = 0
          THEN global_label_stack' = <<>> /\ stmtState' = "done"
               /\ UNCHANGED <<activations, returned, family>>
          ELSE StatementError /\ UNCHANGED global_label_stack
    /\ code' = gen_resolve_sym(code, rsym)
    /\ UNCHANGED <<rsym, local_label_stack, tree>>

\* The next function, of this unit or, after an error, of the next one.
GenFunction ==
    /\ stmtState = "done" \/ (stmtState = "error" /\ AfterError)
    /\ code' = <<>>
    /\ activations' = <<FunctionBlock>>
    /\ returned' = FALSE
    /\ rsym' = 0
    /\ stmtState' = "parsing"
    /\ tree' = <<>>
    /\ UNCHANGED <<labels, family>>

StatementsInit ==
    /\ family \in Families
    /\ code = <<>>
    /\ activations = <<FunctionBlock>>
    /\ returned = FALSE
    /\ rsym = 0
    /\ global_label_stack = <<>>
    /\ local_label_stack = <<>>
    /\ sym_label = [n \in Names |-> <<>>]
    /\ stmtState = "parsing"
    /\ tree = <<>>

StatementsNext ==
    \/ ExprStatement \/ If \/ Else \/ IfReturns \/ ElseReturns
    \/ While \/ WhileReturns \/ For \/ ForReturns \/ DoBegins \/ DoReturns
    \/ Break \/ Continue \/ Return
    \/ SwitchBegins \/ SwitchReturns \/ Case \/ Default
    \/ Goto \/ AddressOfLabel \/ Label \/ NothingAfterLabel
    \/ Compound \/ CloseCompound \/ EndFunction \/ GenFunction

StatementsSpec == StatementsInit /\ [][StatementsNext]_stmtVars

(* ------------------------------ properties ------------------------------ *)

\* The lists that someone will patch: in the variables of block() calls, in
\* forward labels, and rsym.
JumpPointers ==
    LET Of(k) == CASE activations[k].stmt = "if" -> {<<"a", k>>}
                   [] activations[k].stmt = "else" -> {<<"d", k>>}
                   [] activations[k].stmt \in {"while", "for", "do", "switch"} ->
                        {<<"a", k>>, <<"b", k>>}
                   [] OTHER -> {}
    IN UNION {Of(k) : k \in DOMAIN activations}
ForwardLabels ==
    ({"global"} \X DOMAIN global_label_stack) \cup ({"local"} \X DOMAIN local_label_stack)
JumpLists ==
    [p \in JumpPointers |-> activations[p[2]][p[1]]]
      @@ [s \in {l \in ForwardLabels : LabelSym(l).r = LABEL_FORWARD} |-> LabelSym(s).next]
      @@ (<<"rsym", 0>> :> rsym)

Waiting == [p \in DOMAIN JumpLists |-> Linked(code, JumpLists[p])]

\* block() patches a list when its statement ends, and by no other way can a
\* jump get its target: each jump without a target is in exactly one list that
\* a running block(), a forward label or the end of the function will patch,
\* and a finished function has none.
EveryJumpIsPending ==
    LET pending == {i \in DOMAIN code : IsJump(code[i]) /\ code[i].pending}
    IN CASE stmtState = "parsing" ->
              /\ pending = UNION {Waiting[p] : p \in DOMAIN JumpLists}
              /\ \A p, q \in DOMAIN JumpLists : p # q => Waiting[p] \cap Waiting[q] = {}
         [] stmtState = "done" -> pending = {}
         [] OTHER -> TRUE
===============================================================================

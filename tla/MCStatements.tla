----------------------------- MODULE MCStatements -----------------------------
(***************************************************************************)
(* What C says of the statements that were read: where control goes from   *)
(* each point, written on the tree of statements; and where the code goes. *)
(***************************************************************************)
EXTENDS Statements, TLC

Values == 0 .. 4

Nodes == DOMAIN tree
Children(n) == SetToSortSeq({m \in Nodes : tree[m].in = n}, <)
StmtOf(n) == IF n = 0 THEN "function" ELSE tree[n].stmt

RECURSIVE Around(_)
Around(n) == IF n = 0 THEN <<0>> ELSE <<n>> \o Around(tree[n].in)

\* The nearest statement around n of these kinds, 0 if there is none.
Nearest(n, stmts) ==
    LET found == SelectSeq(Tail(Around(n)), LAMBDA m : StmtOf(m) \in stmts)
    IN IF found = <<>> THEN 0 ELSE found[1]
Loops == {"while", "for", "do"}

\* The block whose __label__ declares this name, 0 for the function.
ScopeOf(n, name) ==
    LET found == SelectSeq(Around(n), LAMBDA m : StmtOf(m) = "compound" /\ name \in tree[m].labels)
    IN IF found = <<>> THEN 0 ELSE found[1]
SameLabel(n) == {m \in Nodes : /\ tree[m].stmt = "label" /\ tree[m].name = tree[n].name
                               /\ ScopeOf(m, tree[m].name) = ScopeOf(n, tree[n].name)}

\* The cases and the default that belong to switch sw.
CasesOf(sw) == SetToSortSeq({m \in Nodes : tree[m].stmt = "case" /\ Nearest(m, {"switch"}) = sw}, <)
DefaultsOf(sw) == {m \in Nodes : tree[m].stmt = "default" /\ Nearest(m, {"switch"}) = sw}
Matches(m, v) == \E k \in DOMAIN tree[m].tests : v \in tree[m].tests[k][1] .. tree[m].tests[k][2]

(* Enter(n): the first point that is reached when statement n begins, with *)
(* `fuel` steps left before the program is known to loop without a point.  *)
Forever == <<0, "forever">>
TheEnd == <<0, "end">>

RECURSIVE Enter(_, _), After(_, _), Test(_, _), When(_, _, _)
EnterSub(n, k, fuel) == IF k <= Len(Children(n)) THEN Enter(Children(n)[k], fuel) ELSE After(n, fuel)
Enter(n, fuel) ==
    LET s == tree[n] IN
    IF fuel = 0 THEN Forever
    ELSE CASE s.stmt \in {"expr", "address"} -> <<n, "expr">>
           [] s.stmt = "return" -> <<n, "return">>
           [] s.stmt \in {"if", "while"} -> Test(n, fuel - 1)
           [] s.stmt = "for" -> IF s.init THEN <<n, "init">> ELSE Test(n, fuel - 1)
           [] s.stmt \in {"do", "compound", "label", "case", "default"} -> EnterSub(n, 1, fuel - 1)
           [] s.stmt = "switch" -> <<n, "switch">>
           [] s.stmt = "break" -> After(Nearest(n, Loops \cup {"switch"}), fuel - 1)
           [] s.stmt = "continue" ->
                LET loop == Nearest(n, Loops) IN
                IF tree[loop].stmt = "for" /\ tree[loop].step THEN <<loop, "step">>
                ELSE Test(loop, fuel - 1)
           [] s.stmt = "goto" -> Enter(Min(SameLabel(n)), fuel - 1)
After(n, fuel) ==
    LET up == tree[n].in
        next == {k \in DOMAIN Children(up) : Children(up)[k] > n}
    IN IF fuel = 0 THEN Forever
       ELSE IF up = 0 THEN TheEnd
       ELSE CASE tree[up].stmt = "compound" /\ next # {} -> Enter(Children(up)[Min(next)], fuel - 1)
              [] tree[up].stmt \in {"while", "do"} -> Test(up, fuel - 1)
              [] tree[up].stmt = "for" ->
                   IF tree[up].step THEN <<up, "step">> ELSE Test(up, fuel - 1)
              [] OTHER -> After(up, fuel - 1)
Test(n, fuel) ==
    IF tree[n].cond \in {"one", "none"} THEN When(n, TRUE, fuel)
    ELSE IF tree[n].cond = "zero" THEN When(n, FALSE, fuel)
    ELSE <<n, "test">>
When(n, truth, fuel) ==
    IF fuel = 0 THEN Forever
    ELSE IF truth THEN EnterSub(n, 1, fuel - 1)
    ELSE IF tree[n].stmt = "if" THEN EnterSub(n, 2, fuel - 1)
    ELSE After(n, fuel - 1)

Fuel == 3 * Len(tree) + 3

\* Where C goes from a point, given the outcome of the test or the value.
Follow(point, o) ==
    LET n == point[1]
        what == point[2]
        s == tree[n]
    IN CASE what = "test" -> IF s.cond = "and" /\ o THEN <<n, "second">>
                             ELSE IF s.cond = "or" /\ ~o THEN <<n, "second">>
                             ELSE When(n, o, Fuel)
         [] what = "second" -> When(n, o, Fuel)
         [] what \in {"init", "step"} -> Test(n, Fuel)
         [] what = "switch" ->
              LET match == SelectSeq(CasesOf(n), LAMBDA m : Matches(m, o))
              IN IF match # <<>> THEN Enter(match[1], Fuel)
                 ELSE IF DefaultsOf(n) # {} THEN Enter(Min(DefaultsOf(n)), Fuel)
                 ELSE After(n, Fuel)
         [] what = "return" -> TheEnd
         [] OTHER -> After(n, Fuel)

Outcomes(what) == CASE what \in {"test", "second"} -> BOOLEAN
                    [] what = "switch" -> Values
                    [] OTHER -> {TRUE}

(* Where the code goes from address i: `flag` is the outcome of the last   *)
(* test, sw the switch whose value v is in its register.                   *)
Lost == <<0, "lost">>
Holds(i, v) == CASE i.rel = "eq" -> v = i.value
                 [] i.rel = "ge" -> v >= i.value
                 [] i.rel = "le" -> v <= i.value
RECURSIVE Run(_, _, _, _, _)
Run(i, flag, sw, v, fuel) ==
    IF fuel = 0 THEN Forever
    ELSE IF i > Len(code) THEN TheEnd
    ELSE CASE code[i].op = "at" -> code[i].point
           [] code[i].op = "compare" ->
                IF code[i].switch # sw THEN Lost
                ELSE Run(i + 1, Holds(code[i], v), sw, v, fuel - 1)
           [] code[i].op = "jump" -> Run(code[i].to, flag, sw, v, fuel - 1)
           [] code[i].op = "jumpif" ->
                Run(IF flag = code[i].when THEN code[i].to ELSE i + 1, flag, sw, v, fuel - 1)

RunFrom(i, o) ==
    LET point == code[i].point
    IN IF point[2] = "switch" THEN Run(i + 1, FALSE, point[1], o, Len(code) + 1)
       ELSE Run(i + 1, o, 0, 0, Len(code) + 1)

(* What C refuses: the rules of break, continue, case and labels.          *)
Misplaced(n) ==
    CASE StmtOf(n) = "break" -> Nearest(n, Loops \cup {"switch"}) = 0
      [] StmtOf(n) = "continue" -> Nearest(n, Loops) = 0
      [] StmtOf(n) = "case" -> Nearest(n, {"switch"}) = 0
      [] StmtOf(n) = "default" -> Nearest(n, {"switch"}) = 0
                                  \/ Cardinality(DefaultsOf(Nearest(n, {"switch"}))) > 1
      [] StmtOf(n) = "label" -> Cardinality(SameLabel(n)) > 1
      [] OTHER -> FALSE
\* The use of a label that is not defined.
NotDefined(n) == StmtOf(n) \in {"goto", "address"} /\ SameLabel(n) = {}

\* From every point, on every outcome, the code of a finished function goes
\* where C says control goes: jumps out of and into nested statements, the
\* tests of cases and the steps of loops included.
CodeFollowsSource ==
    stmtState = "done" =>
      /\ Run(1, FALSE, 0, 0, Len(code) + 1) = Enter(1, Fuel)
      /\ \A i \in DOMAIN code : code[i].op = "at" =>
           \A o \in Outcomes(code[i].point[2]) :
             RunFrom(i, o) = Follow(code[i].point, o)

\* A function is refused just when a break, continue, case, default or label
\* is misplaced or repeated, or a label is missing, each judged by the scopes
\* of C and of __label__; what one function did to the tables of labels does
\* not decide about the next.
StatementsRefusedAsC ==
    /\ stmtState = "error" => \/ \E n \in Nodes : Misplaced(n)
                              \/ \E n \in Nodes : NotDefined(n) /\ ScopeOf(n, tree[n].name) = TopBlock.node
    /\ stmtState = "done" => \A n \in Nodes : ~Misplaced(n) /\ ~NotDefined(n)

\* What C makes of a function, tcc does: its code has the jumps that the source
\* asks for, none of them is forgotten or patched twice while block() runs, and
\* what is refused is misplaced.
StatementsAsC == EveryJumpIsPending /\ CodeFollowsSource /\ StatementsRefusedAsC

(* The programs: loops, conditions, switches and labels.                   *)
Programs(stmts, conds, tests, length) ==
    [stmts |-> stmts, conds |-> conds, tests |-> tests, length |-> length]
AllConditions == {"one", "zero", "and", "or"}
SomeTests == {<<<<1, 1>>>>, <<<<2, 3>>>>, <<<<1, 1>>, <<3, 4>>>>, <<<<2, 3>>, <<0, 0>>>>}
MCFamilies == {
    Programs({"if", "else", "while", "for", "do", "break", "continue", "expr"}, {}, {}, 4),
    Programs({"if", "else", "while", "for", "do"}, AllConditions, {}, 3),
    Programs({"switch", "case", "default", "break", "continue", "while", "compound"},
             {}, SomeTests, 6),
    Programs({"goto", "label", "compound", "__label__", "if", "while", "return", "address"},
             {}, {}, 5)}
TwoNames == {"x", "y"}
===============================================================================

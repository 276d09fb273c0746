------------------------------ MODULE MCParser --------------------------------
(***************************************************************************)
(* What the parser reads: declarations, what is initialized, and the       *)
(* statements of functions.  A behaviour is one of the three; the state of *)
(* the others is idle.                                                     *)
(***************************************************************************)
EXTENDS Declarations, Initializers, MCStatements

(* ----------------------------- declarations ------------------------------ *)

\* Lists of up to four specifiers, declarators three levels deep, and
\* structs of up to three members in two levels.

Id == [k |-> "id"]
Abstract == [k |-> "abstract"]
Ptr(q, d) == [k |-> "ptr", q |-> q, d |-> d]
Paren(d) == [k |-> "paren", d |-> d]
Wrapped(d) == IF d.k = "ptr" THEN Paren(d) ELSE d
Arr(n, d) == [k |-> "arr", n |-> n, d |-> Wrapped(d)]
Fn(kind, list, d) == [k |-> "fn", params |-> [kind |-> kind, list |-> list], d |-> Wrapped(d)]
P(specs, d) == [specs |-> specs, d |-> d]

IntParam == P(<<"int">>, Abstract)
MCParams == {
  <<"old", <<>>>>, <<"new", <<>>>>, <<"new", <<IntParam>>>>,
  <<"new", <<P(<<"const", "char">>, Ptr(<<"const">>, Id)), P(<<"T">>, Arr(<<"2">>, Id))>>>>,
  <<"new", <<P(<<"int">>, Fn("new", <<IntParam>>, Id)), P(<<"int">>, Arr(<<>>, Arr(<<"3">>, Abstract)))>>>>,
  <<"new", <<P(<<"char">>, Fn("new", <<IntParam>>, Ptr(<<>>, Abstract)))>>>>,
  <<"ellipsis", <<IntParam>>>>, <<"old", <<P(<<>>, Id), P(<<>>, Id)>>>>}

Outside(ds) ==
  {Ptr(q, d) : q \in {<<>>, <<"const">>, <<"const", "volatile">>}, d \in ds}
  \cup {Arr(n, d) : n \in {<<"2">>, <<"3">>, <<>>}, d \in ds}
  \cup {Fn(p[1], p[2], d) : p \in MCParams, d \in ds}
  \cup {Paren(d) : d \in ds}
D1 == {Id} \cup Outside({Id})
D2 == D1 \cup Outside(D1)
MCDeclarators == D2 \cup Outside(D2)

\* The base types that declarators of every depth are tried with.
Words(g) == {w \in Specifiers : g[w] > 0}
Bases == {{"int"}, {"const", "T"}, {"static", "char"}, {"int", "typedef"}, {"extern", "int"}}
RECURSIVE ReturnsByParens(_)
\* Declarators of a function whose '(' stands behind a parenthesized part:
\* the function loses its "static".
ReturnsByParens(d) ==
  CASE d.k = "paren" -> d.d.k \in {"ptr", "fn", "arr"} \/ ReturnsByParens(d.d)
    [] d.k \in {"ptr", "arr", "fn"} -> ReturnsByParens(d.d)
    [] OTHER -> FALSE
Read(g) == Total(g, Specifiers)
Meant(g, d) == LegalType(Meaning(d, BaseType(g)))
Plainly(g) == Read(g) = Cardinality(Words(g))

\* Array sizes and declarations without a prototype are left out of what is
\* compared.
RECURSIVE Comparable(_)
Comparable(d) ==
  CASE d.k = "arr" -> d.n = <<"2">> /\ Comparable(d.d)
    [] d.k = "fn" -> d.params.kind # "old" /\ Comparable(d.d)
    [] d.k \in {"ptr", "paren"} -> Comparable(d.d)
    [] OTHER -> TRUE
LegalFor(words, ds) ==
  LET g == [w \in Specifiers |-> IF w \in words THEN 1 ELSE 0]
  IN  {d \in ds : /\ Meant(g, d)
                  /\ "static" \in words /\ Meaning(d, BaseType(g)).k = "fn" => ~ReturnsByParens(d)}
File(ds) == ds \X {"file"}
Both(ds) == ds \X {"file", "block"}
AfterBase == [words \in Bases |-> File(LegalFor(words, MCDeclarators)) \cup Both(LegalFor(words, D1))]
ComparedBases == {{"int"}, {"const", "T"}}
CompareAfter ==
  [words \in ComparedBases |->
     File(LegalFor(words, {d \in D2 : /\ Comparable(d)
                                      /\ d.k # "id" => d.k # "paren" /\ d.d.k # "paren"}))]
MCFollowing(g, second) ==
  CASE TypeRows(g) = {} -> {}
    [] second -> IF Words(g) \in ComparedBases /\ Plainly(g) THEN CompareAfter[Words(g)] ELSE {}
    [] Words(g) \in Bases /\ Plainly(g) -> AfterBase[Words(g)]
    [] OTHER -> Both({Id})

M(type, named, bits) == [type |-> type, named |-> named, bits |-> bits, aligned |-> 0, packed |-> FALSE]
Byte == Plain("byte")
Short == Plain("short")
MCMembers ==
  {M(t, TRUE, -1) : t \in {Byte, Plain("llong"), Array(Byte, 3), Array(Byte, -1)}}
  \cup {M(Zero, TRUE, w) : w \in {3, 30, 32}} \cup {M(Zero, FALSE, w) : w \in {0, 2}}
  \cup {M(Short, TRUE, 15)}
  \cup {[M(Short, TRUE, -1) EXCEPT !.aligned = 8], [M(Zero, TRUE, -1) EXCEPT !.packed = TRUE]}

(* ----------------------------- initializers ------------------------------ *)

\* Declarations with initializers of up to three items, with braces,
\* designators, strings and compound literals.

T(t) == <<[t |-> t]>>
V == T("v")
Str(n) == <<[t |-> "str", len |-> n]>>
At(i) == <<[t |-> "index", from |-> i, to |-> i]>>
To(i, j) == <<[t |-> "index", from |-> i, to |-> j]>>
Dot(name) == <<[t |-> "field", name |-> name]>>
Literal == T("(") \o T("type") \o T(")") \o T("{") \o V \o T(",") \o V \o T("}")

\* Lists of one to n items of a set, in braces.
Seqs(items, n) == UNION {[1 .. k -> items] : k \in 1 .. n}
RECURSIVE Joined(_)
Joined(seq) == IF Len(seq) = 1 THEN seq[1] ELSE seq[1] \o T(",") \o Joined(Tail(seq))
Braces(list) == T("{") \o list \o T("}")
Lists(items, n) ==
  UNION {{Braces(Joined(q)), Braces(Joined(q) \o T(","))} : q \in Seqs(items, n)}
With(designators_, values) == {d \o v : d \in designators_, v \in values}

Declared(type, inits) == {[type |-> type, toks |-> i \o T(";")] : i \in inits}

F(name, type, c) == [name |-> name, type |-> type, c |-> c]
Pair == Struct(<<F("x", Int_, 0), F("y", Int_, 1)>>, 2, FALSE)
Nested == Struct(<<F("p", Pair, 0), F("z", Int_, 2)>>, 3, FALSE)
Union_ == Struct(<<F("a", Int_, 0), F("b", Pair, 0)>>, 2, TRUE)
Tagged == Struct(<<F("u", Union_, 0), F("z", Int_, 2)>>, 3, FALSE)
Named == Struct(<<F("n", ArrayOf(Char, 2), 0), F("v", Int_, 2)>>, 3, FALSE)
Fielded == Struct(<<F("a", Bits(1), 0), F("b", Bits(2), 0), F("c", Int_, 1)>>, 2, FALSE)

BV == Braces(V)
BVV == Braces(Joined(<<V, V>>))
VVVV == {Braces(Joined([i \in 1 .. n |-> V])) : n \in 1 .. 5}

\* Initializers that the code does right.
MCInputs ==
  Declared(Int_, {V, BV, Braces(BV), Str(1), Literal})
  \cup Declared(ArrayOf(Int_, 3),
         Lists({V, BV} \cup With({At(0), At(1), At(2), To(0, 1)}, {V}), 3) \cup VVVV)
  \cup Declared(ArrayOf(Int_, -1), Lists({V} \cup With({At(0), At(2), To(1, 2)}, {V, BV}), 3))
  \cup UNION {Declared(ArrayOf(ArrayOf(Int_, 2), n),
                       Lists({V, BV, BVV}, 3) \cup VVVV
                       \cup Lists({BV} \cup With({At(0), At(1)}, {BV, BVV, Braces(At(1) \o V)}), 3)
                       \cup {Braces(At(1) \o V \o T(",") \o V)}) : n \in {2, -1}}
  \cup Declared(Pair, Lists({V, BV} \cup With({Dot("x"), Dot("y")}, {V}), 2) \cup VVVV)
  \cup Declared(Nested, Lists({V, BV, BVV}, 3)
                        \cup Lists({BVV, Braces(Dot("y") \o V)}
                                   \cup With({Dot("p")}, {BV, BVV}) \cup With({Dot("z")}, {V}), 3))
  \cup Declared(Tagged, Lists({BV, Braces(Dot("b") \o BVV), Braces(Dot("b") \o BV)}
                               \cup With({Dot("u")}, {BV}) \cup With({Dot("z")}, {V}), 3) \cup {BV})
  \cup UNION {Declared(ArrayOf(Pair, n),
                       Lists({BV, BVV, Braces(Dot("y") \o V)} \cup With({At(0), At(1)}, {BV, BVV}), 3)
                       \cup VVVV) : n \in {2, -1}}
  \cup UNION {Declared(ArrayOf(Char, n),
                       {Str(1), Str(2), Str(3), Str(4), Str(1) \o Str(1), Str(2) \o Str(2),
                        Braces(Str(2)), Braces(Str(1) \o Str(1))}
                       \cup Lists({V} \cup With({At(2)}, {V}), 3)) : n \in {3, -1}}
  \cup UNION {Declared(ArrayOf(ArrayOf(Char, 2), n),
                       Lists({Str(1), Str(2), Str(3), Braces(Str(1)), BVV} \cup With({At(1)}, {Str(1)}), 3))
               : n \in {2, -1}}
  \cup Declared(Named, Lists({Str(1), Str(2), BVV, Dot("v") \o V}, 2) \cup Lists({Str(1), V, BVV}, 3))
  \cup Declared(Fielded, {Braces(Joined(q)) : q \in
                            {<<V, V>>, <<V, V, V>>, <<Dot("b") \o V, Dot("a") \o V>>,
                             <<Dot("b") \o V, Dot("a") \o V, V, V>>}})
  \cup Declared(ArrayOf(Int_, 3), Lists({V, Str(1), Literal}, 3))
  \cup Declared(ArrayOf(Int_, -1), Lists({V, Str(1)}, 2))

(* ----------------------------- the three together ---------------------- *)

DeclarationsIdle ==
  /\ mode = "idle" /\ bag = NoBag /\ b = NoSpecs /\ decls = <<>>
  /\ pack_stack = <<0>> /\ str = NoStruct /\ tags = <<>>
InitializersIdle ==
  /\ input = [type |-> Int_, toks |-> <<>>]
  /\ storage = "local" /\ do_bounds_check = FALSE
  /\ phase = "idle" /\ length = 0 /\ st = [objects |-> {}]
StatementsIdle ==
  /\ code = <<>> /\ activations = <<FunctionBlock>> /\ returned = FALSE /\ rsym = 0
  /\ global_label_stack = <<>> /\ local_label_stack = <<>> /\ sym_label = [n \in Names |-> <<>>]
  /\ stmtState = "idle" /\ tree = <<>> /\ family = Programs({}, {}, {}, 0)

ParserInit ==
  \/ Init /\ InitializersIdle /\ StatementsIdle
  \/ DeclarationsIdle /\ InitializersInit /\ StatementsIdle
  \/ DeclarationsIdle /\ InitializersIdle /\ StatementsInit

OnlyDeclarations == UNCHANGED <<initVars, stmtVars>>
OnlyInitializers == UNCHANGED <<vars, stmtVars>>
OnlyStatements == UNCHANGED <<vars, initVars>>
ParserNext ==
  \/ \E tok \in Specifiers : Specifier(tok) /\ OnlyDeclarations
  \/ mode # "idle" /\ \E f \in Following(bag, decls # <<>>) : Declare(f[1], f[2]) /\ OnlyDeclarations
  \/ Again /\ OnlyDeclarations
  \/ \E push \in BOOLEAN, val \in Packs : PragmaPack(push, val) /\ OnlyDeclarations
  \/ PragmaPop /\ OnlyDeclarations
  \/ \E kind \in {"struct", "union"} : OpenStruct(kind) /\ OnlyDeclarations
  \/ \E m \in Members \cup StructMembers : Member(m) /\ OnlyDeclarations
  \/ CloseStruct /\ OnlyDeclarations
  \/ SizePass /\ OnlyInitializers
  \/ Allocate /\ OnlyInitializers
  \/ DataPass /\ OnlyInitializers
  \/ ExprStatement /\ OnlyStatements
  \/ If /\ OnlyStatements
  \/ Else /\ OnlyStatements
  \/ IfReturns /\ OnlyStatements
  \/ ElseReturns /\ OnlyStatements
  \/ While /\ OnlyStatements
  \/ WhileReturns /\ OnlyStatements
  \/ For /\ OnlyStatements
  \/ ForReturns /\ OnlyStatements
  \/ DoBegins /\ OnlyStatements
  \/ DoReturns /\ OnlyStatements
  \/ Break /\ OnlyStatements
  \/ Continue /\ OnlyStatements
  \/ Return /\ OnlyStatements
  \/ SwitchBegins /\ OnlyStatements
  \/ SwitchReturns /\ OnlyStatements
  \/ Case /\ OnlyStatements
  \/ Default /\ OnlyStatements
  \/ Goto /\ OnlyStatements
  \/ AddressOfLabel /\ OnlyStatements
  \/ Label /\ OnlyStatements
  \/ NothingAfterLabel /\ OnlyStatements
  \/ Compound /\ OnlyStatements
  \/ CloseCompound /\ OnlyStatements
  \/ EndFunction /\ OnlyStatements
  \/ GenFunction /\ OnlyStatements
ParserSpec == ParserInit /\ [][ParserNext]_<<vars, initVars, stmtVars>>
=============================================================================

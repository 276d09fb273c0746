---------------------------- MODULE Declarations ----------------------------
(***************************************************************************)
(* Types and how declarations build them, tcc.c: parse_btype reads the     *)
(* specifiers, one turn of its loop a token; type_decl,                    *)
(* parse_function_parameters and parse_array_dimensions read a declarator; *)
(* decl decides what is declared; struct_decl lays out members and bit-    *)
(* fields, under #pragma pack and attributes; external_sym compares        *)
(* declarations of one name.                                               *)
(*                                                                         *)
(* A type is [bt, unsigned, array, q, st, ref], as in CType: the basic     *)
(* type and the flags of `t', and a sequence that is empty or holds the    *)
(* Sym `ref' points to.  Type chains are values: the Syms on local_stack   *)
(* and global_stack are SymScopes's part.                                  *)
(***************************************************************************)
EXTENDS Integers, Sequences, FiniteSets

CONSTANTS
  MaxSpecs,        \* specifiers in a declaration
  Following(_, _), \* the declarators, as trees, with their scope, that follow
                   \* some specifiers, in a first or second declaration
  Members,         \* members of structs, but for those of struct type
  MaxStructs,      \* structs
  MaxMembers,      \* members of all structs together
  Packs,           \* arguments of #pragma pack
  Regular,         \* TRUE: bit-fields that share a unit have one size and
                   \* unnamed ones fit into a unit that has been begun
  CharIsUnsigned   \* -funsigned-char

VARIABLES
  mode,       \* what is read: "specifiers", "declared", "members" or "error"
  bag,        \* how often each specifier has been read
  b,          \* parse_btype's locals
  decls,      \* the declarations of x so far, with what became of them
  pack_stack, \* the values of #pragma pack, pack_stack_ptr at the last
  str,        \* struct_decl's locals: the struct that is being read
  tags        \* the structs that have been read
vars == <<mode, bag, b, decls, pack_stack, str, tags>>

Err == "error"
TypeWords == {"char", "short", "int", "long", "float", "double", "void",
              "_Bool", "signed", "unsigned", "T"}
StorageWords == {"static", "extern", "typedef"}
QualifierWords == {"const", "volatile"}
Specifiers == TypeWords \cup StorageWords \cup QualifierWords
Punctuation == {"*", "(", ")", "[", "]", ",", ";", "..."}
Numbers == {"2", "3"}
NumVal == [n \in Numbers |-> IF n = "2" THEN 2 ELSE 3]

Type(bt, q, ref) ==
  [bt |-> bt, unsigned |-> FALSE, array |-> FALSE, q |-> q, st |-> {}, ref |-> ref]
Plain(bt) == Type(bt, {}, <<>>)
\* t = 0, which is int and also stands for a type not known yet.
Zero == Plain("int")
IsZero(type) == [type EXCEPT !.ref = <<>>] = Zero
\* The type that the name T is a typedef of.
TypedefT == [Plain("byte") EXCEPT !.unsigned = TRUE]

RefTo(type, c, params) == <<[type |-> type, c |-> c, params |-> params]>>
mk_pointer(type) ==
  [Type("ptr", {}, RefTo(type, -1, <<>>)) EXCEPT !.st = type.st]
pointed_type(type) == type.ref[1].type
Array(type, n) == [Type("ptr", {}, RefTo(type, n, <<>>)) EXCEPT !.array = TRUE]

\* The size and the alignment of a type on i386.
RECURSIVE type_size(_)
type_size(type) ==
  CASE type.bt = "struct" -> <<type.ref[1].c, type.ref[1].r>>
    [] type.bt = "ptr" /\ type.array ->
         LET e == type_size(pointed_type(type)) IN <<e[1] * type.ref[1].c, e[2]>>
    [] type.bt = "ptr" -> <<4, 4>>
    [] type.bt = "ldouble" -> <<12, 4>>
    [] type.bt \in {"double", "llong"} -> <<8, 4>>
    [] type.bt \in {"int", "enum", "float"} -> <<4, 4>>
    [] type.bt = "short" -> <<2, 2>>
    [] OTHER -> <<1, 1>>

(* ----------------------- declaration specifiers ------------------------ *)

NoSpecs == [bt |-> "int", unsigned |-> FALSE, signed |-> FALSE, q |-> {},
            st |-> {}, array |-> FALSE, ref |-> <<>>, typespec |-> FALSE,
            found |-> FALSE, error |-> FALSE]

\* Label basic_type1: VT_INT is 0, so that "int" counts as no basic type.
Basic(x, u) ==
  IF x.bt # "int" THEN [x EXCEPT !.error = TRUE]
  ELSE [x EXCEPT !.bt = u, !.typespec = TRUE]
Long(x) ==
  CASE x.bt = "double" -> [x EXCEPT !.bt = "ldouble"]
    [] x.bt = "long" -> [x EXCEPT !.bt = "llong"]
    [] OTHER -> Basic(x, "long")

\* Which tokens the loop takes: a typedef name only before any type.
Takes(x, tok) == tok # "T" \/ ~x.typespec
Word(x, tok) ==
  CASE tok = "char" -> Basic(x, "byte")
    [] tok = "_Bool" -> Basic(x, "bool")
    [] tok \in {"void", "short", "float"} -> Basic(x, tok)
    [] tok = "int" -> [x EXCEPT !.typespec = TRUE]
    [] tok = "long" -> Long(x)
    [] tok = "double" -> IF x.bt = "long" THEN [x EXCEPT !.bt = "ldouble"] ELSE Basic(x, "double")
    [] tok = "signed" -> [x EXCEPT !.signed = TRUE, !.typespec = TRUE]
    [] tok = "unsigned" -> [x EXCEPT !.unsigned = TRUE, !.typespec = TRUE]
    [] tok \in QualifierWords -> [x EXCEPT !.q = @ \cup {tok}]
    [] tok \in StorageWords -> [x EXCEPT !.st = @ \cup {tok}]
    [] tok = "T" -> [x EXCEPT !.bt = IF @ = "int" THEN TypedefT.bt ELSE @,
                              !.unsigned = @ \/ TypedefT.unsigned, !.typespec = TRUE]
TakeSpecifier(x, tok) == [Word(x, tok) EXCEPT !.found = TRUE]

\* Label the_end: the type that parse_btype returns, or an error.
BadSigns(x) == x.signed /\ x.unsigned
Specified(x) ==
  [Plain(IF x.bt = "long" THEN "int" ELSE x.bt) EXCEPT
     !.unsigned = x.unsigned \/ (CharIsUnsigned /\ x.bt = "byte" /\ ~x.signed),
     !.q = x.q, !.st = x.st]

(* ----------------------------- declarators ----------------------------- *)

\* What reading returns: the tokens left, a type, a name ("" for none).
Out(toks, type, name) == [toks |-> toks, type |-> type, name |-> name]
Failed == Out(<<Err>>, Zero, "")
Skip(out, tok) == IF Head(out.toks) = tok THEN [out EXCEPT !.toks = Tail(@)] ELSE Failed
Bad(out) == Head(out.toks) = Err

RECURSIVE Loop(_, _)
\* parse_btype as a whole, for a parameter.
Loop(x, toks) ==
  IF Head(toks) \in Specifiers /\ Takes(x, Head(toks)) /\ ~x.error
  THEN Loop(TakeSpecifier(x, Head(toks)), Tail(toks)) ELSE <<x, toks>>
parse_btype(toks) ==
  LET l == Loop(NoSpecs, toks)
  IN  [found |-> l[1].found, error |-> l[1].error \/ BadSigns(l[1]),
       toks |-> l[2], type |-> Specified(l[1])]

RECURSIVE Pointers(_, _, _)
\* The pointers in front, with the qualifiers behind each star.
Pointers(toks, type, quals) ==
  CASE Head(toks) = "*" -> Pointers(Tail(toks), mk_pointer(type), TRUE)
    [] quals /\ Head(toks) \in QualifierWords ->
         Pointers(Tail(toks), [type EXCEPT !.q = @ \cup {Head(toks)}], TRUE)
    [] OTHER -> Out(toks, type, "")

\* Mutant: arrays stay arrays in parameters.
ArrayParameter(type) ==
  IF type.bt = "func" THEN mk_pointer(type) ELSE [type EXCEPT !.q = {}]
convert_parameter_type(type) ==
  LET plain == [type EXCEPT !.q = {}, !.array = FALSE]
  IN  IF plain.bt = "func" THEN mk_pointer(plain) ELSE plain

RECURSIVE Append_(_, _)
\* The base type goes to the end of the chain that parentheses made.
Append_(type1, type) ==
  IF IsZero(pointed_type(type1)) THEN [type1 EXCEPT !.ref[1].type = type]
  ELSE [type1 EXCEPT !.ref[1].type = Append_(@, type)]

RECURSIVE TypeDecl(_, _, _), Parameters(_, _, _), ArrayDimensions(_, _)
\* parse_array_dimensions, from the '[' on.
ArrayDimensions(toks, type) ==
  LET n == IF toks[2] \in Numbers THEN NumVal[toks[2]] ELSE -1
      after == Skip(Out(SubSeq(toks, IF n = -1 THEN 2 ELSE 3, Len(toks)),
                        [type EXCEPT !.st = {}], ""), "]")
      inner == IF ~Bad(after) /\ Head(after.toks) = "["
               THEN ArrayDimensions(after.toks, after.type) ELSE after
  IN  IF Bad(inner) THEN Failed
      ELSE Out(inner.toks, [Array(inner.type, n) EXCEPT !.st = type.st], "")

\* The parameters behind the '(' and the commas; l tells which kind they are.
Parameters(toks, params, l) ==
  LET List(t, ps, k) == [toks |-> t, params |-> ps, kind |-> k]
      Wrong == List(<<Err>>, <<>>, "old")
      Name == IF Head(toks) \in Specifiers \cup Punctuation \cup Numbers THEN Failed
              ELSE Out(Tail(toks), Zero, Head(toks))
      More(out, kind, all) ==
        CASE Bad(out) \/ (kind = "new" /\ out.type.bt = "void") -> Wrong
          [] Head(out.toks) = ")" -> List(out.toks, all, kind)
          [] Head(out.toks) \notin {")", ","} -> Wrong
          [] kind = "new" /\ out.toks[2] = "..." -> List(SubSeq(out.toks, 3, Len(out.toks)), all, "ellipsis")
          [] OTHER -> Parameters(Tail(out.toks), all, kind)
      Parameter(out, kind) ==
        More(out, kind, Append(params, [name |-> out.name, type |-> convert_parameter_type(out.type)]))
      From(base, old) ==
        CASE ~old /\ (~base.found \/ base.error) -> Wrong
          [] ~old /\ base.type.bt = "void" /\ Head(base.toks) = ")" -> List(base.toks, params, "new")
          [] OTHER -> Parameter(IF old THEN Name ELSE TypeDecl(base.toks, base.type, TRUE),
                                IF old THEN "old" ELSE "new")
      Read(base) == From(base, l = "old" \/ (l = "" /\ ~base.found))
  IN  Read(parse_btype(toks))

\* The return type loses const, and its storage passes to the function.
Function(type, list) ==
  [Type("func", {}, RefTo([type EXCEPT !.st = {}, !.q = @ \ {"const"}], list.kind, list.params))
     EXCEPT !.st = type.st]
parse_function_parameters(toks, type) ==
  LET Read(list) == Skip(Out(list.toks, Function(type, list), ""), ")")
  IN  Read(IF toks[2] = ")" THEN [toks |-> Tail(toks), params |-> <<>>, kind |-> "old"]
           ELSE Parameters(Tail(toks), <<>>, ""))

\* TYPE_DIRECT is given in every use here.  Whatever is not punctuation is
\* taken for the name, keywords too.
TypeDecl(toks, type, abstract) ==
  LET stars == Pointers(toks, type, FALSE)
      Inner(t) == CASE Head(t) = "(" -> Skip(TypeDecl(Tail(t), Zero, abstract), ")")
                    [] Head(t) \notin Punctuation \cup Numbers -> Out(Tail(t), Zero, Head(t))
                    [] abstract -> Out(t, Zero, "")
                    [] OTHER -> Failed
      Outer(inner) == CASE Bad(inner) -> Failed
                        [] Head(inner.toks) = "(" -> parse_function_parameters(inner.toks, stars.type)
                        [] Head(inner.toks) = "[" -> ArrayDimensions(inner.toks, stars.type)
                        [] OTHER -> Out(inner.toks, stars.type, "")
      Joined(inner, outer) ==
        IF Bad(outer) THEN Failed
        ELSE Out(outer.toks, IF IsZero(inner.type) THEN outer.type
                             ELSE Append_(inner.type, outer.type), inner.name)
      Around(inner) == Joined(inner, Outer(inner))
  IN  Around(Inner(stars.toks))
type_decl(toks, type) == TypeDecl(toks, type, FALSE)

(* -------------------------- compatible types --------------------------- *)

RECURSIVE is_compatible_types(_, _), SameParameters(_, _)
SameParameters(p1, p2) ==
  \/ p1 = <<>> /\ p2 = <<>>
  \/ /\ p1 # <<>> /\ p2 # <<>>
     /\ is_compatible_types(Head(p1).type, Head(p2).type)
     /\ SameParameters(Tail(p1), Tail(p2))
is_compatible_func(s1, s2) ==
  /\ is_compatible_types(s1.type, s2.type)
  /\ \/ "old" \in {s1.c, s2.c}
     \/ s1.c = s2.c /\ SameParameters(s1.params, s2.params)
\* Mutant: the flags of the outermost type are not compared.
SameBasicType(type1, type2) ==
  /\ type1.bt = type2.bt
  /\ CASE type1.bt = "ptr" -> is_compatible_types(pointed_type(type1), pointed_type(type2))
       [] type1.bt = "func" -> is_compatible_func(type1.ref[1], type2.ref[1])
       [] OTHER -> TRUE
is_compatible_types(type1, type2) ==
  /\ [type1 EXCEPT !.st = {}, !.ref = <<>>] = [type2 EXCEPT !.st = {}, !.ref = <<>>]
  /\ CASE type1.bt = "ptr" -> is_compatible_types(pointed_type(type1), pointed_type(type2))
       [] type1.bt = "struct" -> type1.ref = type2.ref
       [] type1.bt = "func" -> is_compatible_func(type1.ref[1], type2.ref[1])
       [] OTHER -> TRUE

(* ------------------------ structs and bit-fields ----------------------- *)

\* A member: its type, whether it has a name, the width of a bit-field or -1,
\* __attribute__((aligned)), 0 without, and __attribute__((packed)).
NoStruct == [kind |-> "none", c |-> 0, offset |-> 0, bit_pos |-> 0, maxalign |-> 1,
             fields |-> <<>>, members |-> <<>>]
OpenedStruct(kind) == [NoStruct EXCEPT !.kind = kind]
pack == pack_stack[Len(pack_stack)]
Lesser(x, y) == IF x < y THEN x ELSE y
Larger(x, y) == IF x < y THEN y ELSE x
AlignUp(x, a) == ((x + a - 1) \div a) * a

MemberAlign(m) ==
  LET align == type_size(m.type)[2]
  IN  CASE m.aligned # 0 -> Larger(align, m.aligned)
        [] m.packed -> 1
        [] pack # 0 -> Lesser(align, pack)
        [] OTHER -> align

BadWidth(m) ==
  /\ m.bits >= 0
  /\ \/ m.named /\ m.bits = 0
     \/ m.type.bt \notin {"int", "byte", "short", "bool", "enum"}
     \/ m.bits > 8 * type_size(m.type)[1]

\* Where a bit-field goes: lbit_pos, the next bit_pos, and whether it is one.
BitField(m) ==
  LET bsize == 8 * type_size(m.type)[1]
      At(pos, next, is) == [lbit_pos |-> pos, bit_pos |-> next, bitfield |-> is]
      start == IF str.bit_pos + m.bits > bsize THEN 0 ELSE str.bit_pos
  IN  CASE m.bits = -1 \/ m.bits = bsize -> At(0, 0, FALSE)
        [] m.bits = 0 -> At(0, IF str.bit_pos > 0 THEN bsize ELSE 0, FALSE)
        [] OTHER -> At(start, start + m.bits, TRUE)

\* Memory is added for a member unless it goes on with a bit-field's unit.
WithMemory(m, bits) ==
  LET size == type_size(m.type)[1]
      align == MemberAlign(m)
      c == AlignUp(str.c, align)
  IN  IF (~m.named /\ m.type.bt # "struct") \/ bits.lbit_pos # 0 THEN str
      ELSE [str EXCEPT !.offset = IF str.kind = "struct" THEN c ELSE 0,
                       !.c = IF str.kind = "struct" THEN c + Larger(size, 0) ELSE Larger(size, @),
                       !.maxalign = Larger(align, @)]

\* The fields a member adds: those of an unnamed struct are copied.
NewFields(m, bits, offset) ==
  LET id == Len(str.members) + 1
  IN  CASE m.named ->
             <<[name |-> <<id>>, type |-> m.type, c |-> offset,
                bit_pos |-> IF bits.bitfield THEN bits.lbit_pos ELSE -1,
                bit_size |-> IF bits.bitfield THEN m.bits ELSE -1]>>
        [] ~m.named /\ m.type.bt = "struct" ->
             LET inner == m.type.ref[1].fields
             IN  [i \in 1 .. Len(inner) |->
                    [inner[i] EXCEPT !.name = <<id>> \o @, !.c = offset + @]]
        [] OTHER -> <<>>
AddMember(m) ==
  LET bits == BitField(m)
      placed == WithMemory(m, bits)
  IN  [placed EXCEPT
         !.bit_pos = bits.bit_pos,
         !.fields = @ \o NewFields(m, bits, placed.offset),
         !.members = Append(@, [m |-> m, pack |-> pack])]

ClosedStruct(s) == <<[c |-> AlignUp(s.c, s.maxalign), r |-> s.maxalign, kind |-> s.kind,
                      fields |-> s.fields, members |-> s.members]>>

(* ------------------------------- actions ------------------------------- *)

Elements(seq) == {seq[i] : i \in 1 .. Len(seq)}
NoBag == [w \in Specifiers |-> 0]
Init ==
  /\ mode = "specifiers" /\ bag = NoBag /\ b = NoSpecs /\ decls = <<>>
  /\ pack_stack = <<0>> /\ str = NoStruct /\ tags = <<>>

RECURSIVE Total(_, _)
Total(f, S) == IF S = {} THEN 0
               ELSE LET x == CHOOSE x \in S : TRUE IN f[x] + Total(f, S \ {x})
ReadBefore == Total(bag, Specifiers)

\* A turn of parse_btype's loop.
Specifier(tok) ==
  /\ mode = "specifiers" /\ tags = <<>> /\ str = NoStruct /\ pack_stack = <<0>>
  /\ ReadBefore < MaxSpecs /\ Takes(b, tok)
  /\ b' = TakeSpecifier(b, tok)
  /\ bag' = [bag EXCEPT ![tok] = @ + 1]
  /\ mode' = IF b'.error THEN Err ELSE mode
  /\ UNCHANGED <<decls, pack_stack, str, tags>>

\* What a declarator declares: decl looks into btype for typedef, extern and
\* the storage of objects, into the declared type for that of functions.
Class(type, btype, scope) ==
  LET internal == IF scope = "file" \/ "extern" \in btype.st THEN "internal" ELSE "static"
  IN  CASE "typedef" \in btype.st -> "typedef"
        [] type.bt = "func" -> IF "static" \in type.st THEN "internal" ELSE "external"
        [] "extern" \in btype.st -> IF "static" \in type.st THEN "internal" ELSE "external"
        [] "static" \in type.st \cup btype.st -> internal
        [] OTHER -> IF scope = "file" THEN "external" ELSE "automatic"

RECURSIVE Text(_), ListText(_)
\* A declarator as the tokens that are read.
Text(d) ==
  CASE d.k = "id" -> <<"x">>
    [] d.k = "abstract" -> <<>>
    [] d.k = "ptr" -> <<"*">> \o d.q \o Text(d.d)
    [] d.k = "paren" -> <<"(">> \o Text(d.d) \o <<")">>
    [] d.k = "arr" -> Text(d.d) \o <<"[">> \o d.n \o <<"]">>
    [] d.k = "fn" -> Text(d.d) \o <<"(">> \o ListText(d.params) \o <<")">>
ListText(params) ==
  CASE params.list = <<>> -> IF params.kind = "new" THEN <<"void">> ELSE <<>>
    [] Len(params.list) = 1 ->
         params.list[1].specs \o Text(params.list[1].d)
         \o IF params.kind = "ellipsis" THEN <<",", "...">> ELSE <<>>
    [] OTHER -> params.list[1].specs \o Text(params.list[1].d) \o <<",">>
                \o ListText([params EXCEPT !.list = Tail(@)])

\* decl, for the declaration of an identifier, which external_sym (for
\* objects decl_initializer_alloc) compares with what has been declared before.
Declare(d, scope) ==
  LET btype == Specified(b)
      out == type_decl(Append(Text(d), ";"), btype)
      declared == [bag |-> bag, d |-> d, scope |-> scope, type |-> out.type,
                   class |-> Class(out.type, btype, scope)]
  IN  /\ mode = "specifiers" /\ str = NoStruct /\ tags = <<>> /\ b.found
          /\ decls' = Append(decls, declared)
      /\ mode' = IF \/ BadSigns(b) \/ out.toks # <<";">>
                    \/ decls # <<>> /\ ~is_compatible_types(decls[1].type, out.type)
                 THEN Err ELSE "declared"
      /\ UNCHANGED <<bag, b, pack_stack, str, tags>>

\* The next declaration.
Again ==
  /\ mode = "declared" /\ Len(decls) = 1
  /\ <<decls[1].d, decls[1].scope>> \in Following(decls[1].bag, TRUE)
  /\ mode' = "specifiers" /\ bag' = NoBag /\ b' = NoSpecs
  /\ UNCHANGED <<decls, pack_stack, str, tags>>

\* pragma_parse: a value of 0 stands for "#pragma pack()".
PragmaPack(push, val) ==
  /\ tags = <<>>
  /\ (mode = "specifiers" /\ bag = NoBag /\ decls = <<>> /\ pack_stack = <<0>>)
     \/ (mode = "members" /\ Len(str.members) = 1)
  /\ push => val # 0 /\ Len(pack_stack) < 2
  /\ pack_stack' = IF push THEN Append(pack_stack, val)
                   ELSE [pack_stack EXCEPT ![Len(pack_stack)] = val]
  /\ pack_stack' # pack_stack
  /\ UNCHANGED <<mode, bag, b, decls, str, tags>>
PragmaPop ==
  /\ mode = "members" /\ Len(str.members) = 2 /\ Len(pack_stack) > 1
  /\ pack_stack' = SubSeq(pack_stack, 1, Len(pack_stack) - 1)
  /\ UNCHANGED <<mode, bag, b, decls, str, tags>>

RECURSIVE MembersIn(_)
MembersIn(ts) == IF ts = <<>> THEN 0 ELSE Len(Head(ts)[1].members) + MembersIn(Tail(ts))
OpenStruct(kind) ==
  /\ mode = "specifiers" /\ bag = NoBag /\ decls = <<>>
  /\ Len(tags) < MaxStructs /\ MembersIn(tags) < MaxMembers
  /\ mode' = "members" /\ str' = OpenedStruct(kind)
  /\ UNCHANGED <<bag, b, decls, pack_stack, tags>>

StructMembers ==
  IF tags = <<>> THEN {}
  ELSE {[type |-> Type("struct", {}, tags[Len(tags)]), named |-> n, bits |-> -1,
         aligned |-> 0, packed |-> FALSE] : n \in BOOLEAN}
       \cup {[type |-> Array(Type("struct", {}, tags[Len(tags)]), 2), named |-> TRUE,
              bits |-> -1, aligned |-> 0, packed |-> FALSE]}

\* Whether a bit-field shares its unit only with others of its size.
Shares(m) ==
  /\ m.bits >= 0 /\ str.bit_pos > 0 =>
       type_size(m.type)[1] = type_size(str.members[Len(str.members)].m.type)[1]
  /\ m.bits > 0 /\ ~m.named => BitField(m).lbit_pos > 0
FlexibleArray(m) == m.type.array /\ m.type.ref[1].c < 0

Member(m) ==
  /\ mode = "members" /\ MembersIn(tags) + Len(str.members) < MaxMembers
  /\ str.members # <<>> => ~FlexibleArray(str.members[Len(str.members)].m)
  /\ FlexibleArray(m) => str.kind = "struct" /\ str.members # <<>>
  /\ Regular => Shares(m)
  /\ IF BadWidth(m) THEN mode' = Err /\ UNCHANGED str
     ELSE str' = AddMember(m) /\ UNCHANGED mode
  /\ UNCHANGED <<bag, b, decls, pack_stack, tags>>

CloseStruct ==
  /\ mode = "members" /\ str.members # <<>>
  /\ tags' = Append(tags, ClosedStruct(str))
  /\ mode' = "specifiers" /\ str' = NoStruct
  /\ UNCHANGED <<bag, b, decls, pack_stack>>

Next ==
  \/ \E tok \in Specifiers : Specifier(tok)
  \/ \E f \in Following(bag, decls # <<>>) : Declare(f[1], f[2])
  \/ Again
  \/ \E push \in BOOLEAN, val \in Packs : PragmaPack(push, val)
  \/ PragmaPop
  \/ \E kind \in {"struct", "union"} : OpenStruct(kind)
  \/ \E m \in Members \cup StructMembers : Member(m)
  \/ CloseStruct
Spec == Init /\ [][Next]_vars

(* --------------------------- what C99 says ----------------------------- *)

Count(seq, w) == Cardinality({i \in 1 .. Len(seq) : seq[i] = w})
Row(words, bt, unsigned) == [n |-> [w \in TypeWords |-> Count(words, w)], bt |-> bt, unsigned |-> unsigned]
Signed == {<<>>, <<"signed">>}
MaybeInt == {<<>>, <<"int">>}
\* 6.7.2: the lists of type specifiers, in any order, and their types here.
Rows ==
  {Row(<<w>>, w, FALSE) : w \in {"void", "float", "double"}}
  \cup {Row(<<"char">>, "byte", CharIsUnsigned), Row(<<"signed", "char">>, "byte", FALSE),
        Row(<<"unsigned", "char">>, "byte", TRUE), Row(<<"_Bool">>, "bool", FALSE),
        Row(<<"long", "double">>, "ldouble", FALSE), Row(<<"T">>, "byte", TRUE),
        Row(<<"signed">>, "int", FALSE)}
  \cup {Row(<<"unsigned">> \o i, "int", TRUE) : i \in MaybeInt}
  \cup {Row(s \o <<"int">>, "int", FALSE) : s \in Signed}
  \cup UNION {{Row(s \o <<"short">> \o i, "short", FALSE), Row(s \o <<"long">> \o i, "int", FALSE),
               Row(s \o <<"long", "long">> \o i, "llong", FALSE)} : s \in Signed, i \in MaybeInt}
  \cup UNION {{Row(<<"unsigned", "short">> \o i, "short", TRUE), Row(<<"unsigned", "long">> \o i, "int", TRUE),
               Row(<<"unsigned", "long", "long">> \o i, "llong", TRUE)} : i \in MaybeInt}
TypeRows(g) == {r \in Rows : \A w \in TypeWords : r.n[w] = g[w]}
OneStorage(g) == Total(g, StorageWords) <= 1
LegalSpecs(g) == TypeRows(g) # {} /\ OneStorage(g)
\* Whether specifiers could be added to make the list a legal one.
Extensible(g) == \E r \in Rows : \A w \in TypeWords : g[w] <= r.n[w]

CBase(bt, unsigned, q) == [k |-> "base", bt |-> bt, unsigned |-> unsigned, q |-> q]
CPointer(q, of) == [k |-> "ptr", q |-> q, of |-> of]
CArray(n, of) == [k |-> "arr", n |-> n, of |-> of]
CFunction(of, kind, params) == [k |-> "fn", of |-> of, kind |-> kind, params |-> params]
Unqualified(t, q) == IF t.k \in {"base", "ptr"} THEN [t EXCEPT !.q = @ \ q] ELSE t
\* 6.7.5.3: parameters are adjusted.
Adjusted(t) ==
  CASE t.k = "arr" -> CPointer({}, t.of)
    [] t.k = "fn" -> CPointer({}, t)
    [] OTHER -> Unqualified(t, QualifierWords)
BagOf(words) == [w \in Specifiers |-> Count(words, w)]
BaseType(g) ==
  LET r == CHOOSE r \in TypeRows(g) : TRUE
  IN  CBase(r.bt, r.unsigned, {w \in QualifierWords : g[w] > 0})

RECURSIVE Meaning(_, _)
\* 6.7.5: what a declarator makes of the type in front of it, from outside in.
Meaning(d, t) ==
  CASE d.k \in {"id", "abstract"} -> t
    [] d.k = "paren" -> Meaning(d.d, t)
    [] d.k = "ptr" -> Meaning(d.d, CPointer(Elements(d.q), t))
    [] d.k = "arr" -> Meaning(d.d, CArray(IF d.n = <<>> THEN -1 ELSE NumVal[d.n[1]], t))
    [] d.k = "fn" ->
         LET Param(p) == IF p.specs = <<>> THEN CBase("int", FALSE, {})
                         ELSE Adjusted(Meaning(p.d, BaseType(BagOf(p.specs))))
         IN  Meaning(d.d, CFunction(Unqualified(t, {"const"}), d.params.kind,
                                    [i \in 1 .. Len(d.params.list) |-> Param(d.params.list[i])]))

RECURSIVE LegalType(_)
LegalType(t) ==
  CASE t.k = "ptr" -> LegalType(t.of)
    [] t.k = "arr" -> /\ t.of.k # "fn" /\ (t.of.k = "arr" => t.of.n # -1)
                      /\ (t.of.k = "base" => t.of.bt # "void") /\ LegalType(t.of)
    [] t.k = "fn" -> t.of.k \notin {"arr", "fn"} /\ LegalType(t.of)
    [] OTHER -> TRUE
CType(decl) == Meaning(decl.d, BaseType(decl.bag))
Legal(decl) ==
  /\ LegalSpecs(decl.bag) /\ LegalType(CType(decl))
  /\ CType(decl).k = "base" /\ CType(decl).bt = "void" => decl.bag["typedef"] > 0
\* 6.2.2 and 6.2.4: linkage and storage duration.
CClass(decl) ==
  LET function == CType(decl).k = "fn"
  IN  CASE decl.bag["typedef"] > 0 -> "typedef"
        [] decl.bag["extern"] > 0 -> "external"
        [] decl.bag["static"] > 0 -> IF function \/ decl.scope = "file" THEN "internal" ELSE "static"
        [] OTHER -> IF function \/ decl.scope = "file" THEN "external" ELSE "automatic"

RECURSIVE Denoted(_)
\* The C type that a type of the compiler stands for.  A const of what a
\* function returns means nothing; it is dropped unless it stands in front of
\* a parenthesis.
Denoted(type) ==
  CASE type.bt = "ptr" /\ type.array -> CArray(type.ref[1].c, Denoted(pointed_type(type)))
    [] type.bt = "ptr" -> CPointer(type.q, Denoted(pointed_type(type)))
    [] type.bt = "func" ->
         LET s == type.ref[1]
         IN  CFunction(Unqualified(Denoted(s.type), {"const"}), s.c, [i \in 1 .. Len(s.params) |-> Denoted(s.params[i].type)])
    [] OTHER -> CBase(type.bt, type.unsigned, type.q)

RECURSIVE CompatibleInC(_, _)
\* 6.2.7, 6.7.5.1 to 6.7.5.3.
CompatibleInC(t, u) ==
  /\ t.k = u.k
  /\ CASE t.k = "base" -> t = u
       [] t.k = "ptr" -> t.q = u.q /\ CompatibleInC(t.of, u.of)
       [] t.k = "arr" -> CompatibleInC(t.of, u.of) /\ (t.n = u.n \/ -1 \in {t.n, u.n})
       [] t.k = "fn" ->
            LET Promoted(p) == p.k # "base" \/ p.bt \notin {"byte", "short", "bool", "float"}
            IN  /\ CompatibleInC(t.of, u.of)
                /\ CASE t.kind = "old" /\ u.kind = "old" -> TRUE
                     [] t.kind = "old" -> u.kind = "new" /\ \A i \in 1 .. Len(u.params) : Promoted(u.params[i])
                     [] u.kind = "old" -> t.kind = "new" /\ \A i \in 1 .. Len(t.params) : Promoted(t.params[i])
                     [] OTHER -> /\ t.kind = u.kind /\ Len(t.params) = Len(u.params)
                                 /\ \A i \in 1 .. Len(t.params) : CompatibleInC(t.params[i], u.params[i])

(* ----------------------------- properties ------------------------------ *)

\* Whatever the order of the specifiers and however a declarator is nested,
\* the declared name has the type, the linkage and the storage that C gives
\* it (parse_btype, type_decl, decl).
DeclaredAsC ==
  mode = "declared" =>
    LET decl == decls[Len(decls)]
    IN  Legal(decl) => /\ Denoted(decl.type) = CType(decl)
                       /\ decl.class = CClass(decl)

\* No legal declaration is refused, and a second declaration of a name just
\* when its type is not compatible with the first one's (external_sym,
\* is_compatible_types).
RefusedAsC ==
  LET compatible == CompatibleInC(CType(decls[1]), CType(decls[2]))
  IN  CASE str # NoStruct -> TRUE
        [] mode = Err /\ decls = <<>> -> ~Extensible(bag)
        [] mode = Err /\ Len(decls) = 1 -> ~Legal(decls[1]) \/ ~Extensible(bag)
        [] Len(decls) = 2 /\ Legal(decls[1]) /\ Legal(decls[2]) -> mode = Err <=> ~compatible
        [] OTHER -> TRUE

\* The alignment that a member asks for: i386's, as attributes and pragmas
\* change it.
Asked(e) ==
  LET natural == CASE e.m.type.array \/ e.m.type.bt = "struct" -> type_size(e.m.type)[2]
                   [] e.m.type.bt \in {"byte", "bool"} -> 1
                   [] e.m.type.bt = "short" -> 2
                   [] OTHER -> 4
  IN  CASE e.m.aligned > natural -> e.m.aligned
        [] e.m.aligned # 0 -> natural
        [] e.m.packed -> 1
        [] e.pack \in 1 .. natural -> e.pack
        [] OTHER -> natural

\* The bits of a struct that a member's fields take, from the first to behind
\* the last: a member of struct type takes all of that struct.
FieldsOf(tag, i) == {k \in 1 .. Len(tag.fields) : tag.fields[k].name[1] = i}
Inner(tag, k) ==
  LET m == tag.members[tag.fields[k].name[1]].m
  IN  IF m.named THEN [c |-> 0]
      ELSE LET f == m.type.ref[1].fields
           IN  CHOOSE g \in Elements(f) : g.name = Tail(tag.fields[k].name)
Begin(tag, k) == tag.fields[k].c - Inner(tag, k).c
FirstBit(tag, k) ==
  8 * Begin(tag, k) + IF tag.fields[k].bit_pos > 0 /\ Len(tag.fields[k].name) = 1
                      THEN tag.fields[k].bit_pos ELSE 0
EndBit(tag, k) ==
  LET m == tag.members[tag.fields[k].name[1]].m
  IN  FirstBit(tag, k) + IF m.bits >= 0 THEN m.bits ELSE 8 * Larger(type_size(m.type)[1], 0)

\* Members do not share bits, lie in their order inside the struct, which a
\* bit-field's whole unit does too, are as aligned as they ask to be, and
\* arrays of the struct keep them so; fields of an unnamed struct lie in it as
\* they do in that struct; a bit-field of no width ends the unit
\* (struct_decl, type_size).
LayoutIsSound(tag) ==
  LET fields == 1 .. Len(tag.fields)
      At(k) == tag.fields[k].name[1]
      Entry(k) == tag.members[At(k)]
      Unit(k) == 8 * tag.fields[k].c
  IN  /\ \A i \in 1 .. Len(tag.members) :
           LET m == tag.members[i].m
           IN  /\ m.named => Cardinality(FieldsOf(tag, i)) = 1
               /\ ~m.named /\ m.type.bt = "struct" =>
                    Cardinality(FieldsOf(tag, i)) = Len(m.type.ref[1].fields)
      /\ \A j, k \in fields :
           /\ At(j) < At(k) =>
                IF tag.kind = "struct" THEN EndBit(tag, j) <= FirstBit(tag, k)
                ELSE Begin(tag, j) = 0 /\ Begin(tag, k) = 0
           /\ At(j) = At(k) => Begin(tag, j) = Begin(tag, k)
      /\ \A k \in fields :
           /\ EndBit(tag, k) <= 8 * tag.c
           /\ Entry(k).m.bits >= 0 =>
                /\ EndBit(tag, k) <= Unit(k) + 8 * type_size(Entry(k).m.type)[1]
                /\ Unit(k) + 8 * type_size(Entry(k).m.type)[1] <= 8 * tag.c
           /\ tag.fields[k].bit_pos <= 0 =>
                Begin(tag, k) % Asked(Entry(k)) = 0 /\ tag.r % Asked(Entry(k)) = 0
      /\ tag.c % tag.r = 0
      /\ \A j, k \in fields, i \in 1 .. Len(tag.members) :
           At(j) < i /\ i < At(k) /\ tag.members[i].m.bits = 0
           /\ Entry(j).m.bits >= 0 /\ Entry(k).m.bits >= 0 /\ tag.kind = "struct" =>
             tag.fields[j].c # tag.fields[k].c
\* The layout of every struct and union is sound, those made of others and those
\* whose packing changes between members included (struct_decl, type_size).
LayoutAsC == \A i \in 1 .. Len(tags) : LayoutIsSound(tags[i][1])

\* Declarations mean what they mean in C, however they are written, are refused
\* as C refuses them, and their structs are laid out so that no member loses
\* bits or alignment to another (parse_btype, type_decl, struct_decl, decl).
DeclarationsAsC == DeclaredAsC /\ RefusedAsC /\ LayoutAsC
=============================================================================

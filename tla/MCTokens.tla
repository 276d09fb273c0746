------------------------------- MODULE MCTokens -------------------------------
(***************************************************************************)
(* What the parser gets: tokens that macros give, and literals.  Literals  *)
(* are numbers, characters and strings of a few pieces, and initializers   *)
(* of a few tokens on a few lines; an int has 12 bits.  A behaviour is one *)
(* of the two; the state of the other is idle.                             *)
(***************************************************************************)
EXTENDS MCMacroExpansion, Literals

Item(kind, s, long, ln) == [kind |-> kind, s |-> s, long |-> long, tf |-> 1, line |-> ln]

\* Values at the boundaries of the types.
MCDigitStrings ==
  {<<"0">>, <<"1">>, <<"9">>, <<"2","0","4","7">>, <<"2","0","4","8">>, <<"4","0","9","5">>, <<"4","0","9","6">>,
   <<"8","3","8","8","6","0","7">>, <<"8","3","8","8","6","0","8">>, <<"1","6","7","7","7","2","1","5">>,
   <<"7","f","f">>, <<"8","0","0">>, <<"f","f","f">>, <<"1","0","0","0">>,
   <<"7","f","f","f","f","f">>, <<"8","0","0","0","0","0">>, <<"1","0","1">>, <<"3","7","7","7">>}
MCPrefixes == {<<>>, <<"0">>, <<"0", "x">>, <<"0", "b">>, <<".">>}
MCEnds ==
  {<<>>, <<"u">>, <<"l">>, <<"u","l">>, <<"l","u">>, <<"l","l">>, <<"u","l","l">>, <<"l","l","u">>, <<"l","l","l">>, <<"u","u">>,
   <<"f">>, <<".">>, <<".","5">>, <<".","5","f">>, <<"e","1">>, <<"e","+">>, <<".","e","-","1","l">>, <<"p","1">>,
   <<".","8","p","-","1","f">>, <<".","8">>}
NumberTexts == {p \o d \o e : p \in MCPrefixes, d \in MCDigitStrings, e \in MCEnds}

MCEscapes ==
  {<<"a">>, <<"8">>, <<"'">>, <<"\\", "\"">>, <<"\\", "'">>, <<"\\", "\\">>, <<"\\", "n">>, <<"\\", "0">>, <<"\\", "1", "2">>,
   <<"\\", "3", "7", "7">>, <<"\\", "x", "6">>, <<"\\", "x", "f", "0">>, <<"\\", "?">>, <<"\\", "e">>, <<"\\", "q">>}
StringTexts ==
  {<<>>} \cup MCEscapes \cup {a \o b : a, b \in MCEscapes}
  \cup {<<"a">> \o a \o b \o c : a, b, c \in {<<"8">>, <<"\\", "0">>, <<"\\", "x", "6">>}}

KeptTokens ==
  {<<"num", <<"1">>>>, <<"num", <<"4", "0", "9", "6">>>>, <<"num", <<"1", ".", "5">>>>, <<"num", <<"1", ".", "l">>>>,
   <<"\"", <<"a", "b", "c">>>>, <<"\"", <<"\\", "0">>>>, <<"ppnum", <<"1", "x">>>>, <<",", <<>>>>}
MCSources ==
  {<<Item("num", s, FALSE, 1)>> : s \in NumberTexts}
  \cup {<<Item(q, s, long, 1)>> : q \in {"\"", "'"}, s \in StringTexts, long \in BOOLEAN}
  \cup {[i \in 1 .. 3 |-> Item(k[i][1], k[i][2], i = 2, IF i < 3 \/ ~apart THEN 1 ELSE i)] :
          k \in [1 .. 3 -> KeptTokens], apart \in BOOLEAN}

(* ------------------------ numbers, as C has them ----------------------- *)

AllDigits(q, b) == q # <<>> /\ \A k \in DOMAIN q : q[k] \in Below(b)
\* TooLarge from LongSize on.
TooLarge == 8 * LongSize
Worth(q, b) == FoldLeft(LAMBDA n, c : IF n >= LongSize THEN TooLarge ELSE n * b + DigitValue(c), 0, q)

\* The types a suffix leaves to choose from, in their order; a long is an int.
AllTypes == <<"cint", "cuint", "cllong", "cullong">>
TypesOf ==
  <<>> :> AllTypes @@ <<"l">> :> AllTypes
  @@ <<"u">> :> <<"cuint", "cullong">> @@ <<"u", "l">> :> <<"cuint", "cullong">> @@ <<"l", "u">> :> <<"cuint", "cullong">>
  @@ <<"l", "l">> :> <<"cllong", "cullong">> @@ <<"u", "l", "l">> :> <<"cullong">> @@ <<"l", "l", "u">> :> <<"cullong">>
LimitOf == [cint |-> IntSize \div 2, cuint |-> IntSize, cllong |-> LongSize \div 2, cullong |-> LongSize]

\* p is prefix, digits and suffix: the base and the place of the last digit.
IntegerReadings(p) ==
  {<<b, i>> \in {2, 8, 10, 16} \X DOMAIN p :
     LET from == IF b \in {2, 16} THEN 3 ELSE 1
     IN  /\ IF b \in {2, 16} THEN i > 2 /\ SubSeq(p, 1, 2) = (IF b = 2 THEN <<"0", "b">> ELSE <<"0", "x">>)
            ELSE (b = 8) <=> (p[1] = "0")
         /\ AllDigits(SubSeq(p, from, i), b) /\ SubSeq(p, i + 1, Len(p)) \in DOMAIN TypesOf}
\* An LL constant from 2 ^ 31 on is unsigned: "not exactly ANSI compliant".
KnownNotAnsi(suffix, n) == Len(suffix) >= 2 /\ n \in IntSize \div 2 .. IntSize - 1
IntegerAsC(p, v) ==
  \A r \in IntegerReadings(p) :
    LET q == SubSeq(p, IF r[1] \in {2, 16} THEN 3 ELSE 1, r[2])
        n == Worth(q, r[1])
        suffix == SubSeq(p, r[2] + 1, Len(p))
        fit == SelectSeq(TypesOf[suffix], LAMBDA t : n < LimitOf[t])
    IN  Len(q) <= StringMax /\ fit # <<>> /\ ~KnownNotAnsi(suffix, n)
          => v = CValue(Head(fit), IF Head(fit) \in {"cint", "cuint"} THEN <<n>> ELSE <<n % IntSize, n \div IntSize>>)

\* p is digits, a point and digits, an exponent that begins at e, and a suffix
\* at f: all the ways to say so.
FloatReadings(p, marks, digits) ==
  LET whole(e) == \A k \in 1 .. e - 1 : p[k] \in digits \cup {"."}
      points(e) == {k \in 1 .. e - 1 : p[k] = "."}
      signed(e) == IF Ch(p, e + 1) \in {"+", "-"} THEN e + 2 ELSE e + 1
  IN  {<<e, f>> \in (1 .. Len(p) + 1) \X (1 .. Len(p) + 1) :
         /\ e <= f /\ f >= Len(p) /\ (f = Len(p) => p[f] \in {"f", "l"})
         /\ whole(e) /\ Cardinality(points(e)) <= 1 /\ \E k \in 1 .. e - 1 : p[k] # "."
         /\ IF e = f THEN points(e) # {} ELSE p[e] \in marks /\ AllDigits(SubSeq(p, signed(e), f - 1), 10)}
FloatOf(ch) == CASE ch = "f" -> "cfloat" [] ch = "l" -> "cldouble" [] OTHER -> "cdouble"
IsHexadecimal(p) == Len(p) > 1 /\ p[1] = "0" /\ p[2] = "x"
\* What strtod gets is the spelling.
DecFloatAsC(p, v) ==
  \A r \in FloatReadings(p, {"e"}, DecDigits) :
    r[2] - 1 <= StringMax => v.tok = FloatOf(Ch(p, r[2])) /\ v.tab[1] = SubSeq(p, 1, r[2] - 1)
\* The digits are worth m 2 ^ e; a binary float is not C.
HexFloatAsC(p, v) ==
  LET h == SubSeq(p, 3, Len(p))
      Exponent(q) == CASE q[1] = "-" -> -Worth(Tail(q), 10) [] q[1] = "+" -> Worth(Tail(q), 10) [] OTHER -> Worth(q, 10)
  IN  IsHexadecimal(p) =>
        \A r \in FloatReadings(h, {"p"}, HexDigits) :
          LET m == SubSeq(h, 1, r[1] - 1)
              all == SelectSeq(m, LAMBDA c : c # ".")
              behind == IF \E k \in DOMAIN m : m[k] = "." THEN Len(m) - CHOOSE k \in DOMAIN m : m[k] = "." ELSE 0
          IN  r[1] < r[2] /\ Len(all) <= 6
                => /\ v.tok = FloatOf(Ch(h, r[2]))
                   /\ v.tab[1] = <<Worth(all, 16), Exponent(SubSeq(h, r[1] + 1, r[2] - 1)) - 4 * behind>>

(* ---------------------- characters, as C has them ---------------------- *)

SimpleEscapes ==
  "a" :> 7 @@ "b" :> 8 @@ "f" :> 12 @@ "n" :> 10 @@ "r" :> 13 @@ "t" :> 9 @@ "v" :> 11 @@ "e" :> 27
  @@ "'" :> 39 @@ "\"" :> 34 @@ "\\" :> 92 @@ "?" :> 63
OctalEscape(q) == Len(q) \in 2 .. 4 /\ q[1] = "\\" /\ AllDigits(Tail(q), 8)
HexEscape(q) == Len(q) > 2 /\ q[1] = "\\" /\ q[2] = "x" /\ AllDigits(SubSeq(q, 3, Len(q)), 16)
OneChar(q) ==
  \/ Len(q) = 1 /\ q[1] # "\\"
  \/ Len(q) = 2 /\ q[1] = "\\" /\ q[2] \in DOMAIN SimpleEscapes
  \/ OctalEscape(q) \/ HexEscape(q)
CharWorth(q) ==
  CASE Len(q) = 1 -> CodeOf[q[1]]
    [] OctalEscape(q) -> Worth(Tail(q), 8)
    [] HexEscape(q) -> Worth(SubSeq(q, 3, Len(q)), 16)
    [] OTHER -> SimpleEscapes[q[2]]
\* The characters of p by where they end, each as long as it can be; none if
\* p has an escape that C does not.
CharsOf(p) ==
  LET Longest(i) == {j \in i .. Len(p) : OneChar(SubSeq(p, i, j)) /\ \A k \in j + 1 .. Len(p) : ~OneChar(SubSeq(p, i, k))}
      ends == {E \in SUBSET (1 .. Len(p)) :
                 /\ Len(p) \in E \/ p = <<>>
                 /\ \A j \in E : \E i \in {0} \cup E : i < j /\ j \in Longest(i + 1)
                 /\ \A i \in ({0} \cup E) \ {Len(p)} : \E j \in E : j \in Longest(i + 1)}
  IN  {[k \in 1 .. Cardinality(E) |->
          LET j == CHOOSE j \in E : Cardinality({i \in E : i <= j}) = k
              i == CHOOSE i \in {0} \cup E : i < j /\ \A x \in E : x < j => x <= i
          IN  CharWorth(SubSeq(p, i + 1, j))] : E \in ends}
\* A char is signed; what more than one char is worth is up to the compiler.
CharAsC(item, v) ==
  \A chars \in CharsOf(item.s) :
    CASE chars = <<>> -> v.tok = "error"
      [] Len(chars) = 1 /\ item.long -> v = CValue("lchar", chars)
      [] Len(chars) = 1 /\ ~item.long /\ chars[1] < 256 ->
           v = CValue("cchar", <<IF chars[1] < 128 THEN chars[1] ELSE chars[1] + IntSize - 256>>)
      [] OTHER -> TRUE
StringAsC(item, v) ==
  \A chars \in CharsOf(item.s) :
    IF item.long THEN v = [tok |-> "lstr", cstr |-> FlattenSeq([k \in 1 .. Len(chars) + 1 |-> Bytes(Append(chars, 0)[k])])]
    ELSE (\A k \in DOMAIN chars : chars[k] < 256) => v = [tok |-> "str", cstr |-> Append(chars, 0)]

(* ------------------------------ properties ----------------------------- *)

ItemAsC(item, v) ==
  CASE item.kind = "num" -> IntegerAsC(item.s, v) /\ DecFloatAsC(item.s, v) /\ HexFloatAsC(item.s, v)
    [] item.kind = "'" -> CharAsC(item, v)
    [] item.kind = "\"" -> StringAsC(item, v)
    [] OTHER -> TRUE

\* The text of an integer, a character or a string is read as the same value
\* again, if the text is no longer than the buffer.
ReadsBack(v) ==
  LET text == get_tok_str(v)
      inner == SubSeq(text, 2, Len(text) - 1)
  IN  Len(text) <= StringMax
        => CASE v.tok \in {"cint", "cuint"} -> parse_number(text).tab[1] = v.tab[1]
             [] v.tok \in {"cllong", "cullong"} -> v.tab[2] > 0 => parse_number(text).tab = v.tab
             [] v.tok \in {"cchar", "lchar"} ->
                  v.tab[1] < 512 \/ v.tok = "cchar" => StringConst(inner, "'", v.tok = "lchar").tab = v.tab
             [] v.tok = "str" -> StringConst(inner, "\"", FALSE) = v
             [] OTHER -> TRUE

\* A literal has C's value and type however often it comes back from where it
\* was kept, and only what C does not allow is refused; what was kept comes
\* back with its flags on the line it was read on, once for the size and once
\* for the data, within the room that was made for it; and its text says what
\* it is.
LiteralsAsC ==
  /\ kept.err = ""
  /\ stage \notin {"save", "size", "data", "restore", "done", "idle"} => ItemAsC(source[at], TokenOf(source[at]))
  /\ stage = "done" =>
       /\ Len(played) = 2 * Len(source) /\ line_num = source[Len(source)].line
       /\ \A k \in DOMAIN played :
            LET item == source[IF k > Len(source) THEN k - Len(source) ELSE k]
            IN  /\ played[k].v = TokenOf(item) /\ played[k].tf = item.tf /\ played[k].line = item.line
                /\ k <= Len(source) => ItemAsC(item, played[k].v) /\ ReadsBack(played[k].v)

(* ------------------------------ the two together ----------------------- *)

ExpansionIdle ==
  /\ program = [macros |-> <<>>, text |-> <<>>] /\ status = "idle" /\ file = <<>>
  /\ macro_ptr = NULL /\ frames = <<>> /\ levels = <<>>
  /\ unget = [used |-> 0, on |-> FALSE, saved |-> NULL, at |-> 0] /\ out = <<>>
LiteralsIdle ==
  /\ source = <<>> /\ kept = tok_str_new /\ played = <<>> /\ line_num = 1 /\ saved = 0
  /\ at = 1 /\ stage = "idle"

TokensInit == (Init /\ LiteralsIdle) \/ (ExpansionIdle /\ LiteralsInit)

OnlyExpansion == UNCHANGED litVars
OnlyLiterals == UNCHANGED vars
TokensNext ==
  \/ NextFromFile /\ OnlyExpansion
  \/ NextMacro /\ OnlyExpansion
  \/ NextFromString /\ OnlyExpansion
  \/ EndOfString /\ OnlyExpansion
  \/ unget_tok /\ OnlyExpansion
  \/ EndOfFile /\ OnlyExpansion
  \/ SubstToken /\ OnlyExpansion
  \/ SubstMacro /\ OnlyExpansion
  \/ SubstReturn /\ OnlyExpansion
  \/ ArgStringize /\ OnlyExpansion
  \/ ArgToken /\ OnlyExpansion
  \/ ArgPlain /\ OnlyExpansion
  \/ ArgExpanded /\ OnlyExpansion
  \/ ArgsReturn /\ OnlyExpansion
  \/ SaveToken /\ OnlyLiterals
  \/ save_parse_state /\ OnlyLiterals
  \/ PlayToken /\ OnlyLiterals
  \/ restore_parse_state /\ OnlyLiterals
TokensSpec == TokensInit /\ [][TokensNext]_<<vars, litVars>> /\ WF_vars(Next /\ OnlyExpansion)
=============================================================================

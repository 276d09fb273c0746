------------------------------ MODULE Literals ------------------------------
(***************************************************************************)
(* What literals are worth, tcc.c: the value and the type of a number      *)
(* (parse_number), the escapes of characters and strings                   *)
(* (parse_escape_string), the array of ints in which tokens are kept until *)
(* they are parsed again (tok_str_add_tok, TOK_GET), and the text of a     *)
(* token (get_tok_str).                                                    *)
(*                                                                         *)
(* A text is a sequence of characters by name; capitals in numbers are as  *)
(* small letters.  Strings are bytes.  What strtod and ldexp make of their *)
(* arguments is not modelled: a float is those arguments.                  *)
(***************************************************************************)
EXTENDS Integers, Sequences, FiniteSets, SequencesExt

CONSTANTS
  IntBits,     \* of an int; a long long has twice as many
  StringMax,   \* STRING_MAX_SIZE
  Sources      \* what is saved: sequences of items [kind, s, long, tf, line]

ASSUME LiteralsAssumption == IntBits \in Nat \ {0} /\ StringMax \in Nat \ {0}

VARIABLES
  source,      \* the items to be read
  kept,        \* TokenString: str, allocated_len, last_line_num; and err
  played,      \* the tokens that have come back, with their lines
  line_num,        \* file->line_num
  saved,       \* ParseState: the line of the place where tokens come back
  at,          \* the item that is read next, or macro_ptr
  stage        \* "save", "play", "done" or why reading has ended
litVars == <<source, kept, played, line_num, saved, at, stage>>

\* The characters from 32 to 126; 96 is the grave accent.
Printable ==
  <<" ", "!", "\"", "#", "$", "%", "&", "'", "(", ")", "*", "+", ",", "-", ".", "/",
    "0", "1", "2", "3", "4", "5", "6", "7", "8", "9", ":", ";", "<", "=", ">", "?",
    "@", "A", "B", "C", "D", "E", "F", "G", "H", "I", "J", "K", "L", "M", "N", "O",
    "P", "Q", "R", "S", "T", "U", "V", "W", "X", "Y", "Z", "[", "\\", "]", "^", "_",
    "grave", "a", "b", "c", "d", "e", "f", "g", "h", "i", "j", "k", "l", "m", "n", "o",
    "p", "q", "r", "s", "t", "u", "v", "w", "x", "y", "z", "{", "|", "}", "~">>
CodeOf == [c \in {Printable[n] : n \in DOMAIN Printable} |-> 31 + CHOOSE n \in DOMAIN Printable : Printable[n] = c]
CharOf(n) == Printable[n - 31]

IntSize == 2 ^ IntBits
LongSize == 2 ^ (2 * IntBits)
\* The bytes of an int, the least first.
Bytes(n) == <<n % 256, (n \div 256) % 256, 0, 0>>

Ch(p, i) == IF i \in DOMAIN p THEN p[i] ELSE "end"
DecDigits == {"0", "1", "2", "3", "4", "5", "6", "7", "8", "9"}
HexDigits == DecDigits \cup {"a", "b", "c", "d", "e", "f"}
DigitValue(c) == IF c \in DecDigits THEN CodeOf[c] - 48 ELSE CodeOf[c] - 97 + 10
\* The first place from i on whose character is not in S.
PastAll(p, i, S) ==
  CHOOSE j \in i .. Len(p) + 1 : Ch(p, j) \notin S /\ \A k \in i .. j - 1 : p[k] \in S
Below(b) == {c \in HexDigits : DigitValue(c) < b}

(* ------------------------------- numbers ------------------------------- *)

CValue(tok, tab) == [tok |-> tok, tab |-> tab]
Invalid(why) == [tok |-> "error", why |-> why]

\* bn_lshift, over two words.
bn_lshift(bn, shift, or_val) ==
  LET low == bn[1] * 2 ^ shift
  IN  <<(low % IntSize) + or_val, ((bn[2] * 2 ^ shift) % IntSize) + low \div IntSize>>

Decimal(q) == FoldLeft(LAMBDA v, c : 10 * v + DigitValue(c), 0, q)

\* An f makes it a float, an l a long double, whatever is behind it.
FloatValue(ch, val) ==
  CASE ch = "f" -> CValue("cfloat", <<val>>)
    [] ch = "l" -> CValue("cldouble", <<val, "", "">>)
    [] OTHER -> CValue("cdouble", <<val, "">>)
SignEnd(p, i) == IF Ch(p, i) \in {"+", "-"} THEN i + 1 ELSE i

\* A hexadecimal or binary float whose digits in front of i are buf.
HexFloat(p, b, buf, i) ==
  LET shift == IF b = 16 THEN 4 ELSE 2
      fracEnd == IF Ch(p, i) = "." THEN PastAll(p, i + 1, HexDigits) ELSE i
      frac == SubSeq(p, i + 1, fracEnd - 1)
      bn == FoldLeft(LAMBDA n, c : bn_lshift(n, shift, DigitValue(c)), <<0, 0>>, buf \o frac)
      digits == SignEnd(p, fracEnd + 1)
      end == PastAll(p, digits, DecDigits)
      exp_val == Decimal(SubSeq(p, digits, end - 1)) * (IF Ch(p, fracEnd + 1) = "-" THEN -1 ELSE 1)
  IN  CASE \E k \in DOMAIN frac : frac[k] \notin Below(b) -> Invalid("invalid digit")
        [] Ch(p, fracEnd) # "p" -> Invalid("exponent expected")
        [] Ch(p, digits) \notin DecDigits -> Invalid("exponent digits expected")
        [] OTHER -> FloatValue(Ch(p, end), <<bn[2] * IntSize + bn[1], exp_val - shift * Len(frac)>>)

\* i is where the point or the exponent is.
DecFloat(p, i) ==
  LET fracEnd == IF Ch(p, i) = "." THEN PastAll(p, i + 1, DecDigits) ELSE i
      digits == SignEnd(p, fracEnd + 1)
      end == IF Ch(p, fracEnd) = "e" THEN PastAll(p, digits, DecDigits) ELSE fracEnd
  IN  CASE end - 1 > StringMax -> Invalid("number too long")
        [] Ch(p, fracEnd) = "e" /\ end = digits -> Invalid("exponent digits expected")
        [] OTHER -> FloatValue(Ch(p, end), SubSeq(p, 1, end - 1))

\* "XXX: this test is not reliable".
Overflows(n1, n) == n < n1
\* One more digit; n1 < 0 is an error: -1 for the digit, -2 for overflow.
MoreDigits(b, n1, t) ==
  LET n == (n1 * b + t) % LongSize
  IN  CASE n1 < 0 -> n1
        [] n1 >= 0 /\ t >= b -> -1
        [] n1 >= 0 /\ t < b /\ Overflows(n1, n) -> -2
        [] OTHER -> n

\* "not exactly ANSI compliant".
SizeType(n) ==
  CASE n >= LongSize \div 2 -> "cullong"
    [] n >= IntSize /\ n < LongSize \div 2 -> "cllong"
    [] n >= IntSize \div 2 /\ n < IntSize -> "cuint"
    [] OTHER -> "cint"
Long(tok) == CASE tok = "cint" -> "cllong" [] tok = "cuint" -> "cullong" [] OTHER -> tok
Unsigned(tok) == CASE tok = "cint" -> "cuint" [] tok = "cllong" -> "cullong" [] OTHER -> tok
\* lcount l's and ucount u's, in any order.
Suffixed(tok, lcount, ucount) ==
  LET u == IF ucount > 0 THEN Unsigned(tok) ELSE tok IN IF lcount >= 2 THEN Long(u) ELSE u

\* What is behind the suffixes is not looked at.
Integer(p, b, buf, i) ==
  LET octal == b = 10 /\ buf[1] = "0"
      base == IF octal THEN 8 ELSE b
      n == FoldLeft(LAMBDA n1, c : MoreDigits(base, n1, DigitValue(c)), 0, IF octal THEN Tail(buf) ELSE buf)
      end == PastAll(p, i, {"u", "l"})
      Count(c) == Cardinality({k \in i .. end - 1 : p[k] = c})
      tok == Suffixed(SizeType(n), Count("l"), Count("u"))
  IN  CASE n = -1 -> Invalid("invalid digit")
        [] n = -2 -> Invalid("integer constant overflow")
        [] n >= 0 /\ (Count("l") > 2 \/ Count("u") > 1) -> Invalid("three 'l's or two 'u's")
        [] OTHER -> CValue(tok, IF tok \in {"cint", "cuint"} THEN <<n>> ELSE <<n % IntSize, n \div IntSize>>)

\* The first digit of a decimal number is taken as it is.
parse_number(p) ==
  LET b == CASE p[1] = "0" /\ Ch(p, 2) = "x" -> 16 [] p[1] = "0" /\ Ch(p, 2) = "b" -> 2 [] OTHER -> 10
      i == PastAll(p, IF b = 10 THEN 2 ELSE 3, Below(b))
      buf == SubSeq(p, IF b = 10 THEN 1 ELSE 3, i - 1)
  IN  CASE p[1] = "." -> DecFloat(p, 1)
        [] p[1] # "." /\ Len(buf) > StringMax -> Invalid("number too long")
        [] p[1] # "." /\ Len(buf) <= StringMax /\ b # 10 /\ Ch(p, i) \in {".", "p"} -> HexFloat(p, b, buf, i)
        [] p[1] # "." /\ Len(buf) <= StringMax /\ b = 10 /\ Ch(p, i) \in {".", "e"} -> DecFloat(p, i)
        [] OTHER -> Integer(p, b, buf, i)

(* ------------------------ characters and strings ----------------------- *)

OctDigits == {"0", "1", "2", "3", "4", "5", "6", "7"}
Simple == [a |-> 7, b |-> 8, f |-> 12, n |-> 10, r |-> 13, t |-> 9, v |-> 11, e |-> 27]
InBase(b, q) == FoldLeft(LAMBDA v, c : (v * b + DigitValue(c)) % IntSize, 0, q)

\* The character at i of a text, and where the next one is.
CharAt(p, i) ==
  LET c == Ch(p, i + 1)
      all == PastAll(p, i + 1, OctDigits)
      octEnd == IF all > i + 4 THEN i + 4 ELSE all
      hexEnd == PastAll(p, i + 2, HexDigits)
  IN  CASE p[i] # "\\" -> [c |-> CodeOf[p[i]], next |-> i + 1]
        [] p[i] = "\\" /\ c \in OctDigits -> [c |-> InBase(8, SubSeq(p, i + 1, octEnd - 1)), next |-> octEnd]
        [] p[i] = "\\" /\ c \in {"x", "u", "U"} ->
             [c |-> InBase(16, SubSeq(p, i + 2, hexEnd - 1)), next |-> hexEnd]
        [] p[i] = "\\" /\ c \in DOMAIN Simple -> [c |-> Simple[c], next |-> i + 2]
        \* Itself, with a warning if it need not be escaped.
        [] OTHER -> [c |-> CodeOf[c], next |-> i + 2]

RECURSIVE CharsFrom(_, _)
CharsFrom(p, i) ==
  IF i > Len(p) THEN <<>> ELSE LET e == CharAt(p, i) IN <<e.c>> \o CharsFrom(p, e.next)

\* The bytes of the string, with the zero behind it.
parse_escape_string(p, long) ==
  LET chars == Append(CharsFrom(p, 1), 0)
  IN  FlattenSeq([k \in DOMAIN chars |-> IF long THEN Bytes(chars[k]) ELSE <<chars[k] % 256>>])

WideAt(data, k) == data[4 * k - 3] + 256 * data[4 * k - 2]
\* An int8_t as an int.
Extended(byte) == IF byte < 128 THEN byte ELSE IntSize - 256 + byte

\* What next_nomacro1 makes of a text between quotes.
StringConst(p, sep, long) ==
  LET data == parse_escape_string(p, long)
  IN  CASE sep = "\"" -> [tok |-> IF long THEN "lstr" ELSE "str", cstr |-> data]
        [] sep # "\"" /\ Len(data) <= (IF long THEN 4 ELSE 1) -> Invalid("empty character constant")
        [] OTHER -> IF long THEN CValue("lchar", <<WideAt(data, 1)>>) ELSE CValue("cchar", <<Extended(data[1])>>)

(* ----------------------------- token strings --------------------------- *)

OneInt == {"cint", "cuint", "cchar", "lchar", "cfloat", "linenum"}
TwoInts == {"cdouble", "cllong", "cullong"}
InCString == {"ppnum", "str", "lstr"}
TokMaxSize == 5
\* sizeof(CString) in ints.
CStringInts == 4

tok_str_new == [str |-> <<>>, allocated_len |-> 0, last_line_num |-> -1, err |-> ""]
tok_str_realloc(s) == [s EXCEPT !.allocated_len = IF @ = 0 THEN 8 ELSE 2 * @]
\* What is written behind the end of the array is an error of the model's.
Put(s, ints) ==
  IF Len(s.str) + Len(ints) > s.allocated_len THEN [s EXCEPT !.err = "overrun"] ELSE [s EXCEPT !.str = @ \o ints]

tok_str_add(s, t, tf) ==
  Put(IF Len(s.str) + 1 >= s.allocated_len THEN tok_str_realloc(s) ELSE s, <<t, tf>>)

RECURSIVE Room(_, _)
Room(s, n) == IF Len(s.str) + n > s.allocated_len THEN Room(tok_str_realloc(s), n) ELSE s

\* Four bytes to an int.
Packed(data) ==
  [k \in 1 .. (Len(data) + 3) \div 4 |-> SubSeq(data, 4 * k - 3, IF 4 * k > Len(data) THEN Len(data) ELSE 4 * k)]
\* data and data_allocated are not used in the array.
CStringAt(data) == <<Len(data), "null", Len(data), "null">> \o Packed(data)

\* Mutant: the last bytes of a string are not counted.
RoomForWholeInts(s, data) == Room(s, CStringInts + Len(data) \div 4)
RoomForString(s, data) == Room(s, CStringInts + (Len(data) + 3) \div 4)

\* v is the token and its CValue.
tok_str_add2(s, v, tf) ==
  LET worst == IF Len(s.str) + TokMaxSize > s.allocated_len THEN tok_str_realloc(s) ELSE s
      begun == Put(worst, <<v.tok, tf>>)
  IN  CASE v.tok \in OneInt -> Put(begun, <<v.tab[1]>>)
        [] v.tok \in TwoInts -> Put(begun, <<v.tab[1], v.tab[2]>>)
        [] v.tok = "cldouble" -> Put(begun, <<v.tab[1], v.tab[2], v.tab[3]>>)
        [] v.tok \in InCString -> Put(RoomForString(begun, v.cstr), CStringAt(v.cstr))
        [] OTHER -> begun

\* "save line number info".
tok_str_add_tok(s, v, tf, ln) ==
  LET numbered == IF ln = s.last_line_num THEN s
                  ELSE tok_str_add2([s EXCEPT !.last_line_num = ln], CValue("linenum", <<ln>>), 0)
  IN  tok_str_add2(numbered, v, tf)

\* The token at p of the array, and where the next one is.
TOK_GET(str, p) ==
  LET t == str[p]
      size == str[p + 2]
      Ints(n) == [v |-> CValue(t, SubSeq(str, p + 2, p + 1 + n)), tf |-> str[p + 1], p |-> p + 2 + n]
  IN  CASE t \in OneInt -> Ints(1)
        [] t \in InCString ->
             [v |-> [tok |-> t, cstr |-> FlattenSeq(SubSeq(str, p + 2 + CStringInts, p + 1 + CStringInts + (size + 3) \div 4))],
              tf |-> str[p + 1], p |-> p + 2 + CStringInts + (size + 3) \div 4]
        [] t \in TwoInts -> Ints(2)
        [] t = "cldouble" -> Ints(3)
        [] OTHER -> Ints(0)

(* ---------------------------- text of a token -------------------------- *)

\* get_tok_str's buffer is not from malloc: realloc does not keep what is in it.
cstr_realloc(s, size) ==
  LET Doubled[n \in Nat] == IF n < size THEN Doubled[2 * n] ELSE n
  IN  [data |-> IF s.malloced THEN s.data ELSE [k \in DOMAIN s.data |-> "junk"],
       size_allocated |-> Doubled[IF s.size_allocated = 0 THEN 8 ELSE s.size_allocated], malloced |-> TRUE]
cstr_ccat(s, c) ==
  LET size == Len(s.data) + 1
      r == IF size > s.size_allocated THEN cstr_realloc(s, size) ELSE s
  IN  [r EXCEPT !.data = Append(@, c)]

\* The characters that stand for c.
Escaped(c) ==
  LET Oct(k) == CharOf(48 + ((c \div k) % 8))
  IN  CASE c \in {CodeOf["'"], CodeOf["\""], CodeOf["\\"]} -> <<"\\", CharOf(c)>>
        [] c = 10 -> <<"\\", "n">>
        [] c \in 32 .. 126 /\ c \notin {CodeOf["'"], CodeOf["\""], CodeOf["\\"]} -> <<CharOf(c)>>
        [] OTHER -> <<"\\", Oct(64), Oct(8), Oct(1)>>
add_char(s, c) == FoldLeft(cstr_ccat, s, Escaped(c))

Digits10[n \in Nat] == IF n < 10 THEN <<CharOf(48 + n)>> ELSE Append(Digits10[n \div 10], CharOf(48 + (n % 10)))

\* Numbers, characters and strings; an L in front is not given back.
get_tok_str(v) ==
  LET buf == [data |-> <<>>, size_allocated |-> StringMax + 1, malloced |-> FALSE]
      \* Without the zero behind it.
      Ended(s) == Front(cstr_ccat(s, "zero").data)
      Between(q, chars) == Ended(cstr_ccat(FoldLeft(add_char, cstr_ccat(buf, q), chars), q))
  IN  CASE v.tok \in {"cint", "cuint"} -> Digits10[v.tab[1]]
        [] v.tok \in {"cllong", "cullong"} -> Digits10[v.tab[1] + IntSize * v.tab[2]]
        [] v.tok \in {"cchar", "lchar"} -> Between("'", <<v.tab[1]>>)
        [] v.tok = "ppnum" -> Ended(FoldLeft(add_char, buf, Front(v.cstr)))
        [] v.tok = "str" -> Between("\"", Front(v.cstr))
        [] v.tok = "lstr" -> Between("\"", [k \in 1 .. Len(v.cstr) \div 4 - 1 |-> WideAt(v.cstr, k)])
        [] OTHER -> <<v.tok>>

(* ------------------------------- actions ------------------------------- *)

\* next: the token an item is read as.
TokenOf(item) ==
  CASE item.kind = "num" -> parse_number(item.s)
    [] item.kind = "ppnum" -> [tok |-> "ppnum", cstr |-> Append([k \in DOMAIN item.s |-> CodeOf[item.s[k]]], 0)]
    [] item.kind \in {"\"", "'"} -> StringConst(item.s, item.kind, item.long)
    [] OTHER -> [tok |-> item.kind, tab |-> <<>>]

LiteralsInit ==
  /\ source \in Sources
  /\ kept = tok_str_new /\ played = <<>> /\ line_num = source[1].line /\ saved = 0
  /\ at = 1 /\ stage = "save"

\* The tokens of an initializer whose size is not known are kept.
SaveToken ==
  /\ stage = "save" /\ at <= Len(source)
  /\ \E v \in {TokenOf(source[at])} :
       IF v.tok = "error" THEN stage' = v.why /\ UNCHANGED <<kept, at, line_num>>
       ELSE /\ kept' = tok_str_add_tok(kept, v, source[at].tf, line_num)
            /\ at' = at + 1
            /\ line_num' = IF at < Len(source) THEN source[at + 1].line ELSE line_num
            /\ UNCHANGED stage
  /\ UNCHANGED <<source, played, saved>>

\* TOK_EOF and 0 end them; they are read for the size first.
save_parse_state ==
  /\ stage = "save" /\ at > Len(source)
  /\ kept' = tok_str_add(tok_str_add(kept, "eof", 0), "nul", 0)
  /\ saved' = line_num /\ at' = 1 /\ stage' = "size"
  /\ UNCHANGED <<source, played, line_num>>

\* next_nomacro with a macro_ptr.
PlayToken ==
  /\ stage \in {"size", "data"}
  /\ \E g \in {TOK_GET(kept.str, at)} :
       CASE g.v.tok = "linenum" -> line_num' = g.v.tab[1] /\ at' = g.p /\ UNCHANGED <<played, stage, saved>>
         [] g.v.tok = "eof" /\ stage = "size" -> stage' = "data" /\ at' = 1 /\ UNCHANGED <<line_num, played, saved>>
         [] g.v.tok = "eof" /\ stage = "data" -> stage' = "restore" /\ UNCHANGED <<line_num, played, at, saved>>
         [] OTHER -> /\ played' = Append(played, [v |-> g.v, tf |-> g.tf, line |-> line_num])
                     /\ at' = g.p /\ UNCHANGED <<line_num, stage, saved>>
  /\ UNCHANGED <<source, kept>>

restore_parse_state ==
  /\ stage = "restore"
  /\ line_num' = saved /\ stage' = "done"
  /\ UNCHANGED <<source, kept, played, saved, at>>

LiteralsNext == SaveToken \/ save_parse_state \/ PlayToken \/ restore_parse_state
LiteralsSpec == LiteralsInit /\ [][LiteralsNext]_litVars
=============================================================================

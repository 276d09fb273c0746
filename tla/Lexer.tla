------------------------------- MODULE Lexer -------------------------------
(***************************************************************************)
(* Reading characters and tokens, tcc.c: the buffer of a BufferedFile with *)
(* its refills, line splices, comments, strings, numbers and identifiers   *)
(* (next_nomacro1), the identifier table (tok_alloc), and the skipping of  *)
(* lines that a condition leaves out (preprocess_skip).                    *)
(*                                                                         *)
(* A byte is a character's name.  The buffer is not copied: p indexes the  *)
(* text and lim is the last index that has been read into the buffer; the  *)
(* byte behind it is CH_EOB, which is the backslash.                       *)
(***************************************************************************)
EXTENDS Integers, Sequences, FiniteSets

CONSTANTS
  Texts,      \* records of a text, and whether it begins in lines that are
              \* left out
  CutsOf(_),  \* the sets of indices of a text where a read() may end
  Letters, Digits, Exponents, \* bytes of identifiers and numbers
  Buckets,    \* of hash_ident
  Hash(_)     \* TOK_HASH_FUNC over a spelling, masked

VARIABLES
  input,        \* the text and its reads
  file,         \* [p, lim, line]: buf_ptr, buf_end, line_num
  flags,        \* next_tok_flags
  names,        \* table_ident, the spellings in the order of their numbers, and
                \* hash_ident, the numbers in each bucket
  toks,         \* the tokens so far
  mode          \* "skip", "read", "eof", or why reading has ended
vars == <<input, file, flags, names, toks, mode>>

Spaces == {"sp", "cr"}
Quotes == {"dq", "sq"}
Signs == {"+", "-"}
IdNum == Letters \cup Digits
Pairs == {<<"+", "+">>, <<"+", "=">>, <<"<", "=">>, <<"=", "=">>, <<"*", "=">>,
          <<"/", "=">>, <<"-", "-">>, <<"-", "=">>, <<"-", ">">>, <<"#", "#">>}
Shifts == {<<"<", "<">>}

(* -------------------------------- bytes -------------------------------- *)

\* r is the reader: file, the byte c read last, the string that is collected,
\* names, and err: an error, "undefined" or "stuck".
Reader(f) == [p |-> f.p, lim |-> f.lim, line |-> f.line, c |-> "", str |-> <<>>, tb |-> names, err |-> ""]
Byte(r) == IF r.p > r.lim THEN "bs" ELSE input.text[r.p]
Failed(r, why) == [r EXCEPT !.err = why]
Collect(r, c) == [r EXCEPT !.str = Append(@, c)]
Forward(r) == [r EXCEPT !.p = @ + 1]
NewLine(r) == [r EXCEPT !.line = @ + 1]

\* read() returns what there is up to the next cut.
NextCut(p) == CHOOSE e \in input.cuts \cup {Len(input.text)} :
                e >= p /\ \A d \in input.cuts : d >= p => e <= d
handle_eob(r) ==
  CASE r.p <= r.lim -> [r EXCEPT !.c = input.text[r.p]]
    [] r.p > Len(input.text) -> [r EXCEPT !.c = "eof"]
    [] OTHER -> [r EXCEPT !.lim = NextCut(r.p), !.c = input.text[r.p]]

\* inp() and PEEKC_EOB.
inp(r) == LET q == Forward(r) IN IF Byte(q) = "bs" THEN handle_eob(q) ELSE [q EXCEPT !.c = Byte(q)]

RECURSIVE skip_spaces(_), handle_stray(_)
skip_spaces(r) == IF r.c \in Spaces THEN skip_spaces(inp(r)) ELSE r
\* Splices are left out, however many; another backslash is an error.
handle_stray(r) ==
  IF r.c # "bs" THEN r
  ELSE LET s == skip_spaces(inp(r))
       IN  IF s.c = "nl" THEN handle_stray(inp(NewLine(s))) ELSE Failed(s, "stray")

\* Mutant: a backslash that a refill brings up is not looked at.
StrayMissed(r) ==
  IF r.p > r.lim THEN handle_eob(r)
  ELSE LET s == handle_stray([r EXCEPT !.c = "bs"]) IN [s EXCEPT !.c = Byte(s)]
\* What PEEKC calls on a backslash: a refill, a splice, or both.
handle_stray1(r) ==
  LET e == IF r.p > r.lim THEN handle_eob(r) ELSE [r EXCEPT !.c = "bs"]
      s == handle_stray(e)
  IN  IF e.c = "bs" THEN [s EXCEPT !.c = Byte(s)] ELSE e
PEEKC(r) ==
  LET q == Forward(r)
  IN  IF Byte(q) = "bs" THEN handle_stray1(q) ELSE [q EXCEPT !.c = Byte(q)]
minp(r) == handle_stray(inp(r))

(* ------------------------- comments and strings ------------------------ *)

RECURSIVE LineLoop(_), CommentLoop(_), StarLoop(_), StringLoop(_, _)
\* Mutant: a splice behind a carriage return is not counted as a line.
Uncounted(s) ==
  LET n == inp(s)
  IN  CASE s.c = "nl" -> inp(NewLine(s))
        [] s.c = "cr" /\ n.c = "nl" -> inp(n)
        [] s.c = "cr" -> n
        [] OTHER -> s
\* Behind a backslash and a newline, with or without a carriage return.
AfterSplice(s) ==
  LET n == inp(s)
  IN  CASE s.c = "nl" -> inp(NewLine(s))
        [] s.c = "cr" /\ n.c = "nl" -> inp(NewLine(n))
        [] s.c = "cr" -> n
        [] OTHER -> s
LineLoop(r) ==
  CASE Byte(r) = "nl" -> r
    [] Byte(r) = "bs" ->
         LET e == handle_eob(r)
         IN  CASE e.c = "bs" -> LineLoop(AfterSplice(inp(e)))
               [] e.c \in {"nl", "eof"} -> e
               [] OTHER -> LineLoop(Forward(e))
    [] OTHER -> LineLoop(Forward(r))
parse_line_comment(r) == LineLoop(Forward(r))

\* Behind a star: at the end of the file the same byte is looked at forever.
StarLoop(r) ==
  CASE Byte(r) = "*" -> StarLoop(Forward(r))
    [] Byte(r) = "/" -> Forward(r)
    [] Byte(r) = "bs" ->
         LET e == handle_eob(r)
             s == inp(e)
             a == AfterSplice(s)
         IN  CASE e.c = "eof" -> Failed(e, "stuck")
               [] e.c # "bs" -> StarLoop(e)
               [] s.c \notin {"nl", "cr"} -> CommentLoop(s)
               [] OTHER -> StarLoop(a)
    [] OTHER -> CommentLoop(r)
CommentLoop(r) ==
  CASE Byte(r) = "nl" -> CommentLoop(Forward(NewLine(r)))
    [] Byte(r) = "*" -> StarLoop(Forward(r))
    [] Byte(r) = "bs" ->
         LET e == handle_eob(r)
         IN  CASE e.c = "eof" -> Failed(e, "unexpected end of file in comment")
               [] e.c = "bs" -> CommentLoop(Forward(e))
               [] OTHER -> CommentLoop(e)
    [] OTHER -> CommentLoop(Forward(r))
parse_comment(r) == CommentLoop(Forward(r))

\* A string or a character, its escapes as they are.
StringLoop(r, sep) ==
  LET Unterminated == Failed(r, "missing terminating character")
  IN  CASE Byte(r) = sep -> Forward(r)
        [] Byte(r) = "bs" ->
             LET e == handle_eob(r)
                 s == inp(e)
             IN  CASE e.c = "eof" -> Unterminated
                   [] e.c # "bs" -> StringLoop(e, sep)
                   [] s.c = "nl" -> StringLoop(Forward(NewLine(s)), sep)
                   [] s.c = "cr" -> IF inp(s).c = "nl" THEN StringLoop(Forward(NewLine(inp(s))), sep)
                                    ELSE Failed(s, "expected")
                   [] s.c = "eof" -> Unterminated
                   [] OTHER -> StringLoop(Forward(Collect(Collect(s, "bs"), s.c)), sep)
        [] Byte(r) = "nl" -> StringLoop(Forward(Collect(NewLine(r), "nl")), sep)
        [] Byte(r) = "cr" -> LET n == inp(r)
                             IN  IF n.c = "nl" THEN StringLoop(Forward(Collect(NewLine(n), "nl")), sep)
                                 ELSE StringLoop(Collect(n, "cr"), sep)
        [] OTHER -> StringLoop(Forward(Collect(r, Byte(r))), sep)
parse_pp_string(r, sep) == StringLoop(Forward(r), sep)

(* ------------------------------- names --------------------------------- *)

\* Mutant: only the first name of a bucket is compared.
FirstOnly(tb, s) ==
  LET b == tb.hash_ident[Hash(s)]
  IN  IF b # <<>> /\ tb.table_ident[b[1]] = s THEN tb
      ELSE [tb EXCEPT !.table_ident = Append(@, s), !.hash_ident[Hash(s)] = Append(@, Len(tb.table_ident) + 1)]
\* The names with s among them.
tok_alloc(tb, s) ==
  LET b == tb.hash_ident[Hash(s)]
  IN  IF \E i \in 1 .. Len(b) : tb.table_ident[b[i]] = s THEN tb
      ELSE [tb EXCEPT !.table_ident = Append(@, s), !.hash_ident[Hash(s)] = Append(@, Len(tb.table_ident) + 1)]
\* The number that tok_alloc returns.
NumberOf(tb, s) ==
  LET b == tb.hash_ident[Hash(s)] IN b[CHOOSE i \in 1 .. Len(b) : tb.table_ident[b[i]] = s]

(* -------------------------------- tokens ------------------------------- *)

Tok(kind, s) == [kind |-> kind, s |-> s]
\* A token, and the reader behind it.
Read(r, kind, s) == [r |-> r, tok |-> Tok(kind, s)]
Name(r) == [r |-> [r EXCEPT !.tb = tok_alloc(@, r.str)], tok |-> Tok("id", r.str)]

RECURSIVE NumberLoop(_), SlowLoop(_), FastEnd(_)
\* isidnum_table is indexed with CH_EOF at the end of a file.
NumberLoop(r) ==
  LET Behind(q) ==
        CASE r.err # "" -> r
          [] q.c = "eof" -> Failed(q, "undefined")
          [] q.c \in IdNum \cup {"."} \/ (q.c \in Signs /\ r.c \in Exponents) -> NumberLoop(q)
          [] OTHER -> q
  IN  Behind(PEEKC([Collect(r, r.c) EXCEPT !.c = ""]))
Number(r) == LET Taken(n) == Read(n, "num", n.str) IN Taken(NumberLoop(r))

SlowLoop(r) ==
  CASE r.err # "" -> r
    [] r.c = "eof" -> Failed(r, "undefined")
    [] r.c \in IdNum -> SlowLoop(PEEKC(Collect(r, r.c)))
    [] OTHER -> r
FastEnd(p) == IF p <= Len(input.text) /\ input.text[p] \in IdNum THEN FastEnd(p + 1) ELSE p
\* The fast path takes an identifier that ends in the buffer, the slow one
\* what is there, and goes on byte by byte.
FastSpelling(r) ==
  LET e == FastEnd(r.p)
      end == IF e > r.lim + 1 THEN r.lim + 1 ELSE e
  IN  [r EXCEPT !.p = end, !.str = r.str \o SubSeq(input.text, r.p, end - 1)]
Identifier(r) ==
  LET From(fast) == IF Byte(fast) # "bs" THEN Name(fast) ELSE Name(SlowLoop(PEEKC([fast EXCEPT !.p = @ - 1])))
  IN  From(FastSpelling(r))
StringToken(r, long) ==
  LET Taken(s) == Read(s, IF r.c = "dq" THEN "str" ELSE "chr", (IF long THEN <<"L">> ELSE <<>>) \o s.str)
  IN  Taken(parse_pp_string(r, r.c))
\* An L may begin a string.
Wide(r) ==
  LET next == IF r.p + 1 > r.lim THEN "bs" ELSE input.text[r.p + 1]
      Behind(a) ==
        CASE a.err # "" -> Read(a, "id", <<>>)
          [] a.c \in Quotes -> StringToken(a, TRUE)
          [] OTHER -> Name(SlowLoop(Collect(a, "L")))
  IN  IF next \notin Quotes \cup {"bs"} THEN Identifier(r) ELSE Behind(PEEKC(r))

Dot(r) ==
  LET Third(b) == IF b.c = "." THEN Read(PEEKC(b), "op", <<".", ".", ".">>)
                  ELSE Read(Failed(b, "expected '.'"), "op", <<>>)
      Second(a) ==
        CASE a.c \in Digits -> Number(Collect(a, "."))
          [] a.c = "." -> Third(PEEKC(a))
          [] OTHER -> Read(a, "op", <<".">>)
  IN  Second(PEEKC(r))
\* Operators of up to three characters.
Operator(r) ==
  LET Third(a, b) == IF b.c = "=" THEN Read(Forward(b), "op", <<r.c, a.c, "=">>) ELSE Read(b, "op", <<r.c, a.c>>)
      Second(a) ==
        CASE <<r.c, a.c>> \in Shifts -> Third(a, PEEKC(a))
          [] <<r.c, a.c>> \in Pairs -> Read(Forward(a), "op", <<r.c, a.c>>)
          [] OTHER -> Read(a, "op", <<r.c>>)
  IN  Second(PEEKC(r))

RECURSIVE TokenFrom(_, _, _)
\* next_nomacro1, with the flags of the space in front of the token.  linefeed
\* is PARSE_FLAG_LINEFEED; directives are Preprocessor's part.
TokenFrom(r0, fl, linefeed) ==
  LET Flagged(x) == [r |-> x.r, tok |-> x.tok, flags |-> fl]
      End == IF linefeed THEN "nl" ELSE "eof"
      Refilled(e) == IF e.c = "eof" THEN Flagged(Read(e, End, <<>>)) ELSE TokenFrom(e, fl, linefeed)
      \* Behind a slash: a comment, or an operator.
      Slash(r, a) ==
        IF a.c \notin {"*", "/"} THEN Flagged(Operator(r))
        ELSE TokenFrom(IF a.c = "*" THEN parse_comment(a) ELSE parse_line_comment(a), fl \cup {"BOW"}, linefeed)
      From(r) ==
        CASE r.err # "" -> Flagged(Read(r, "eof", <<>>))
          [] r.c \in Spaces -> TokenFrom(Forward(r), fl \cup {"BOW"}, linefeed)
          [] r.c = "bs" -> IF r.p > r.lim THEN Refilled(handle_eob(r)) ELSE TokenFrom(handle_stray(r), fl, linefeed)
          [] r.c = "nl" -> IF linefeed THEN Flagged(Read(r, "nl", <<>>))
                           ELSE TokenFrom(Forward(NewLine(r)), fl \cup {"BOW", "BOL"}, linefeed)
          [] r.c = "/" -> Slash(r, PEEKC(r))
          [] r.c = "L" -> Flagged(Wide(r))
          [] r.c \in Letters -> Flagged(Identifier(r))
          [] r.c \in Digits -> Flagged(Number(r))
          [] r.c = "." -> Flagged(Dot(r))
          [] r.c \in Quotes -> Flagged(StringToken(r, FALSE))
          [] OTHER -> Flagged(Operator(r))
  IN  From([r0 EXCEPT !.c = Byte(r0)])

(* ---------------------------- skipped lines ---------------------------- *)

\* "i", "e" and "f" are the names if, else and endif.
Opens == Tok("id", <<"i">>)
Closes == Tok("id", <<"f">>)
Otherwise == Tok("id", <<"e">>)
RECURSIVE SkipLoop(_, _, _)
\* depth is a: the conditions that have been opened; start is start_of_line.
SkipLoop(r0, start, depth) ==
  LET Refilled(e) ==
        CASE e.c = "eof" -> Failed(e, "expected #endif")
          [] e.c = "bs" -> SkipLoop([handle_stray(e) EXCEPT !.err = ""], start, depth)
          [] OTHER -> SkipLoop(e, start, depth)
      Slash(m) ==
        SkipLoop(CASE m.err # "" -> m
                   [] m.c = "*" -> parse_comment(m)
                   [] m.c = "/" -> parse_line_comment(m)
                   [] OTHER -> m, FALSE, depth)
      Directive(d) ==
        IF depth = 0 /\ d.tok \in {Otherwise, Closes} /\ d.r.err = "" THEN d.r
        ELSE SkipLoop(d.r, FALSE, CASE d.tok = Opens -> depth + 1
                                    [] d.tok = Closes -> depth - 1
                                    [] OTHER -> depth)
      From(r) ==
        CASE r.err # "" -> r
          [] r.c \in Spaces -> SkipLoop(Forward(r), start, depth)
          [] r.c = "nl" -> SkipLoop(Forward(NewLine(r)), TRUE, depth)
          [] r.c = "bs" -> Refilled(handle_eob(r))
          [] r.c \in Quotes -> SkipLoop(parse_pp_string(r, r.c), FALSE, depth)
          [] r.c = "/" -> Slash(minp(r))
          [] r.c = "#" /\ start -> Directive(TokenFrom(Forward(r), {}, TRUE))
          [] OTHER -> SkipLoop(Forward(r), FALSE, depth)
  IN  From([r0 EXCEPT !.c = Byte(r0), !.str = <<>>])
preprocess_skip(r) == SkipLoop(r, TRUE, 0)

(* ------------------------------- actions ------------------------------- *)

Init ==
  /\ \E t \in Texts : \E c \in CutsOf(t.text) : input = [text |-> t.text, cuts |-> c, skip |-> t.skip]
  /\ file = [p |-> 1, lim |-> 0, line |-> 1]
  /\ flags = {"BOW", "BOL"}
  /\ names = [table_ident |-> <<>>, hash_ident |-> [h \in Buckets |-> <<>>]]
  /\ toks = <<>>
  /\ mode = IF input.skip THEN "skip" ELSE "read"

At(r) == [p |-> r.p, lim |-> r.lim, line |-> r.line]
SkipGroup ==
  /\ mode = "skip"
  /\ \E r \in {preprocess_skip(Reader(file))} :
       /\ file' = At(r) /\ names' = r.tb
       /\ mode' = IF r.err # "" THEN r.err ELSE "read"
  /\ flags' = {}
  /\ UNCHANGED <<input, toks>>

NextToken ==
  /\ mode = "read"
  /\ \E t \in {TokenFrom(Reader(file), flags, FALSE)} :
       /\ file' = At(t.r) /\ names' = t.r.tb
       /\ IF t.r.err # "" \/ t.tok.kind = "eof"
          THEN /\ mode' = IF t.r.err # "" THEN t.r.err ELSE "eof"
               /\ UNCHANGED toks
          ELSE /\ toks' = Append(toks, [kind |-> t.tok.kind, s |-> t.tok.s, flags |-> t.flags,
                                        n |-> IF t.tok.kind = "id" THEN NumberOf(names', t.tok.s) ELSE 0])
               /\ UNCHANGED mode
  /\ flags' = {}
  /\ UNCHANGED input

Next == SkipGroup \/ NextToken
Spec == Init /\ [][Next]_vars
=============================================================================

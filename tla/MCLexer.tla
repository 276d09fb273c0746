------------------------------ MODULE MCLexer ------------------------------
(***************************************************************************)
(* Lexer over all texts of up to three pieces, each read at once, byte by   *)
(* byte and with every single cut, compared with the translation phases of *)
(* the C standard.                                                         *)
(***************************************************************************)
EXTENDS Lexer

\* The pieces of lines that are read and of lines that are left out.
CONSTANTS ReadPieces, SkipPieces

MCReadPieces ==
  {<<>>, <<"a">>, <<"e">>, <<"a", "sp">>, <<"e", "sp">>, <<"L">>, <<"1">>, <<".">>, <<"+">>, <<"<">>, <<"=">>, <<"/">>, <<"*">>,
   <<"dq">>, <<"bs">>, <<"sp">>, <<"nl">>, <<"bs", "nl">>, <<"bs", "cr", "nl">>,
   <<"/", "*">>, <<"*", "/">>, <<"bs", "nl", "/">>}
MCSkipPieces ==
  {<<>>, <<"#", "f">>, <<"#">>, <<"f">>, <<"#", "i">>, <<"#", "e">>, <<"a">>, <<"dq">>, <<"bs">>, <<"sp">>, <<"nl">>,
   <<"bs", "nl">>, <<"/", "*">>, <<"*", "/">>, <<"/", "/">>}
MCLetters == {"a", "e", "i", "f", "L"}
MCDigits == {"1"}
MCExponents == {"e"}
\* Names of two lengths share each bucket.
MCBuckets == 0 .. 1
MCHash(s) == Len(s) % 2

\* A group that is left out is followed by an end and another line.
MCTexts ==
  {[text |-> s[1] \o s[2] \o s[3] \o <<"nl">>, skip |-> FALSE] : s \in [1 .. 3 -> ReadPieces]}
  \cup {[text |-> s[1] \o s[2] \o s[3] \o <<"nl", "#", "f", "nl", "a", "nl">>, skip |-> TRUE]
          : s \in [1 .. 3 -> SkipPieces]}
MCCuts(t) == {{}, 1 .. Len(t)} \cup {{c} : c \in 1 .. Len(t) - 1}

(* ----------------------- the translation phases ------------------------ *)

\* Phase 2: the index of the first byte at or behind i that no splice takes.
RECURSIVE Past(_, _)
Past(t, i) ==
  CASE i < Len(t) /\ t[i] = "bs" /\ t[i + 1] = "nl" -> Past(t, i + 2)
    [] i + 1 < Len(t) /\ t[i] = "bs" /\ t[i + 1] = "cr" /\ t[i + 2] = "nl" -> Past(t, i + 3)
    [] OTHER -> i
\* The characters of the text, splices left out.
RECURSIVE CharsFrom(_, _)
CharsFrom(t, i) ==
  LET j == Past(t, i) IN IF j > Len(t) THEN <<>> ELSE <<t[j]>> \o CharsFrom(t, j + 1)
Logical(t) == CharsFrom(t, 1)
\* A splice in an escape, which tcc takes for two backslashes, and a splice
\* with a space in it, which tcc accepts in places.
OddSplice(t) ==
  \E i \in 1 .. Len(t) - 2 : t[i] = "bs" /\ <<t[i + 1], t[i + 2]>> \in {<<"bs", "nl">>, <<"bs", "cr">>, <<"sp", "nl">>}

\* Phase 3 on logical characters.
Chr(l, i) == IF i \in 1 .. Len(l) THEN l[i] ELSE "none"
RECURSIVE WhileIn(_, _, _)
WhileIn(l, i, S) == IF Chr(l, i) \in S THEN WhileIn(l, i + 1, S) ELSE i
RECURSIVE NumberEnd(_, _)
NumberEnd(l, i) ==
  IF Chr(l, i) \in IdNum \cup {"."} \/ (Chr(l, i) \in Signs /\ Chr(l, i - 1) \in Exponents)
  THEN NumberEnd(l, i + 1) ELSE i
\* The index behind a comment or a string, 0 when it does not end.
CommentEnd(l, i) ==
  LET S == {j \in i .. Len(l) - 1 : l[j] = "*" /\ l[j + 1] = "/"}
  IN  IF S = {} THEN 0 ELSE (CHOOSE j \in S : \A k \in S : j <= k) + 2
RECURSIVE StringEnd(_, _)
StringEnd(l, i) ==
  CASE Chr(l, i) = "dq" -> i + 1
    [] Chr(l, i) \in {"none", "nl"} -> 0
    [] Chr(l, i) = "bs" -> IF Chr(l, i + 1) \in {"none", "nl"} THEN 0 ELSE StringEnd(l, i + 2)
    [] OTHER -> StringEnd(l, i + 1)
LineEnd(l, i) ==
  CHOOSE j \in i .. Len(l) + 1 : Chr(l, j) \in {"nl", "none"} /\ \A k \in i .. j - 1 : l[k] # "nl"

Triples == {<<"<", "<", "=">>, <<".", ".", ".">>}
Lexeme(kind, l, i, j) == [kind |-> kind, s |-> SubSeq(l, i, j - 1), next |-> j]
\* The longest item at i; "bad" where the standard gives the text no meaning.
ItemAt(l, i) ==
  LET c == Chr(l, i)
      d == Chr(l, i + 1)
      Bad == [kind |-> "bad", s |-> <<>>, next |-> i]
      end == CommentEnd(l, i + 2)
      Quoted(from) ==
        LET e == StringEnd(l, from)
        IN  IF e = 0 THEN Bad
            ELSE [kind |-> "str", next |-> e, s |-> SubSeq(l, i, from - 2) \o SubSeq(l, from, e - 2)]
  IN  CASE c = "/" /\ d = "*" -> IF end = 0 THEN Bad ELSE Lexeme("space", l, i, end)
        [] c = "/" /\ d = "/" -> Lexeme("space", l, i, LineEnd(l, i))
        [] c \in Spaces -> Lexeme("space", l, i, i + 1)
        [] c = "nl" -> Lexeme("nl", l, i, i + 1)
        [] c = "dq" -> Quoted(i + 1)
        [] c = "L" /\ d = "dq" -> Quoted(i + 2)
        [] c \in Letters -> Lexeme("id", l, i, WhileIn(l, i, IdNum))
        [] c \in Digits \/ (c = "." /\ d \in Digits) -> Lexeme("num", l, i, NumberEnd(l, i + 1))
        [] c = "bs" -> Lexeme("other", l, i, i + 1)
        [] <<c, d, Chr(l, i + 2)>> \in Triples -> Lexeme("op", l, i, i + 3)
        [] <<c, d>> \in Shifts -> Lexeme("op", l, i, i + 2)
        [] <<c, d>> \in Pairs -> Lexeme("op", l, i, i + 2)
        [] OTHER -> Lexeme("op", l, i, i + 1)
RECURSIVE ItemsFrom(_, _)
ItemsFrom(l, i) ==
  IF i > Len(l) THEN <<>>
  ELSE LET it == ItemAt(l, i) IN IF it.kind = "bad" THEN <<it>> ELSE <<it>> \o ItemsFrom(l, it.next)

\* A directive's # is the first item of its line other than space; its name
\* is the next one.
LineStart(items, k) ==
  CHOOSE j \in 1 .. k :
    /\ j = 1 \/ items[j - 1].kind = "nl"
    /\ \A m \in j .. k - 1 : items[m].kind # "nl"
IsDirective(items, k) ==
  items[k].s = <<"#">> /\ \A j \in LineStart(items, k) .. k - 1 : items[j].kind = "space"
NameIndex(items, k) ==
  CHOOSE j \in k + 1 .. Len(items) : items[j].kind # "space" /\ \A m \in k + 1 .. j - 1 : items[m].kind = "space"
IsNamed(items, k, name) == IsDirective(items, k) /\ items[NameIndex(items, k)].s = <<name>>
Directives(items, k, name) == Cardinality({j \in 1 .. k : IsNamed(items, j, name)})
Depth(items, k) == Directives(items, k, "i") - Directives(items, k, "f")
\* The directives that may end the group.
Ends(items) ==
  {k \in 1 .. Len(items) : \/ IsNamed(items, k, "f") /\ Depth(items, k) = -1
                           \/ IsNamed(items, k, "e") /\ Depth(items, k) = 0}
\* The indices at which reading may begin: one, or none if the group does
\* not end.
Begins(items) ==
  IF ~input.skip THEN {1} ELSE LET E == Ends(items) IN {NameIndex(items, k) + 1 : k \in {e \in E : \A m \in E : e <= m}}

(* ------------------------------ properties ----------------------------- *)

\* Where tcc reads another language: OddSplice, a
\* comment in front of the # of a line that is left out, a backslash that is
\* no splice, two dots, and # at the beginning of a line that is read, which
\* is Preprocessor's.
OtherReading(items, from) ==
  \/ OddSplice(input.text)
  \/ \E k \in 1 .. from - 1 :
       IsDirective(items, k) /\ \E j \in LineStart(items, k) .. k - 1 : Len(items[j].s) > 1
  \/ \E k \in 1 .. Len(items) : items[k].kind = "other"
  \/ \E k \in from .. Len(items) - 1 : items[k].s = <<".">> /\ items[k + 1].s # <<>> /\ items[k + 1].s[1] = "."
  \/ \E k \in from .. Len(items) : items[k].kind = "op" /\ items[k].s[1] = "#"
RECURSIVE TokensFrom(_, _, _)
TokensFrom(items, k, fl) ==
  CASE k > Len(items) -> <<>>
    [] items[k].kind = "nl" -> TokensFrom(items, k + 1, fl \cup {"BOW", "BOL"})
    [] items[k].kind = "space" -> TokensFrom(items, k + 1, fl \cup {"BOW"})
    [] OTHER -> <<[kind |-> items[k].kind, s |-> items[k].s, flags |-> fl]>> \o TokensFrom(items, k + 1, {})
Reference(items, from) == TokensFrom(items, from, IF input.skip THEN {} ELSE {"BOW", "BOL"})

\* Wherever the reads of the file end, and wherever its lines are spliced, tcc
\* reads the tokens of the standard, with the space in front of them, and no
\* text of the standard's is refused; next_nomacro1, preprocess_skip and what
\* they call.
TokensAsC ==
  mode \in {"skip", "read"} \/
  \E items \in {ItemsFrom(Logical(input.text), 1)} :
    items # <<>> /\ items[Len(items)].kind = "nl" =>
      \A from \in Begins(items) :
        \/ OtherReading(items, from)
        \/ /\ mode = "eof"
           /\ [i \in 1 .. Len(toks) |-> [kind |-> toks[i].kind, s |-> toks[i].s, flags |-> toks[i].flags]]
                = Reference(items, from)

\* A name has one number, on whichever of the two paths through
\* next_nomacro1 it is read and however the hash falls: no spelling is twice
\* in the table, and a token's number denotes its spelling.
NamesKeepTheirNumbers ==
  /\ \A m, n \in 1 .. Len(names.table_ident) : names.table_ident[m] = names.table_ident[n] => m = n
  /\ \A i \in 1 .. Len(toks) : toks[i].kind = "id" => names.table_ident[toks[i].n] = toks[i].s

\* line_num is the line of the byte that is read next, whatever splices,
\* comments, strings and skipped lines are behind it.
LinesAreCounted ==
  mode \in {"skip", "read", "eof"} =>
    file.line = 1 + Cardinality({i \in 1 .. file.p - 1 : input.text[i] = "nl"})

\* What next_nomacro1 and preprocess_skip hand on is what the standard reads:
\* the tokens, the numbers of the names and the lines, wherever the buffer ends
\* and the lines are spliced.
ReadAsC == TokensAsC /\ NamesKeepTheirNumbers /\ LinesAreCounted
=============================================================================

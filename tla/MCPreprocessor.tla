---------------------------- MODULE MCPreprocessor ----------------------------
(***************************************************************************)
(* Instances of Preprocessor, and what the C standard says a program       *)
(* preprocesses to: a recursive definition that opens every include and    *)
(* keeps the conditionals of each file apart.                              *)
(***************************************************************************)
EXTENDS Preprocessor, TLC

CONSTANTS fuel  \* bound: depth to which the reference follows includes

\* What a file does where the macros defs are defined: the text it gives and
\* the macros defined after it; ok is FALSE where the standard asks for an error.
Failed == [ok |-> FALSE, out |-> <<>>, defs |-> {}]

Found(fs, f, line) ==
  LET kind == line.kind
      dirs == (IF kind = "quote" THEN <<f[1]>> ELSE <<>>) \o IncludePath
      there(d) == <<d, line.arg>> \in DOMAIN fs
      hits == SelectSeq(dirs, there)
      nth  == IF line.d = "include_next" THEN 2 ELSE 1
  IN  IF Len(hits) < nth THEN {} ELSE {<<hits[nth], line.arg>>}

\* conds has, for each conditional of this file, whether its current branch is
\* read, whether a later one may be, and whether #else was met.
RECURSIVE Translate(_, _, _, _, _, _, _)
Translate(fs, f, i, conds, defs, text, depth) ==
  LET line   == fs[f][i]
      live   == \A c \in DOMAIN conds : conds[c].read
      outer  == \A c \in 1 .. Len(conds) - 1 : conds[c].read
      top    == conds[Len(conds)]
      next(cs, ds, txt) == Translate(fs, f, i + 1, cs, ds, txt, depth)
      setTop(c) == [conds EXCEPT ![Len(conds)] = c]
      opens(b) == Append(conds, [read |-> b, later |-> live /\ ~b, else |-> FALSE])
  IN
  IF i > Len(fs[f])
  THEN [ok |-> conds = <<>>, out |-> text, defs |-> defs]
  ELSE CASE line.d = "if" \/ line.d = "ifdef" ->
              next(opens(live /\ line.arg \in defs), defs, text)
         [] line.d = "ifndef" -> next(opens(live /\ line.arg \notin defs), defs, text)
         [] line.d \in {"else", "elif", "endif"} /\ conds = <<>> -> Failed
         [] line.d = "endif" -> next(SubSeq(conds, 1, Len(conds) - 1), defs, text)
         [] line.d \in {"else", "elif"} /\ top.else -> Failed
         [] line.d = "else" ->
              next(setTop([read |-> top.later, later |-> FALSE, else |-> TRUE]), defs, text)
         [] line.d = "elif" ->
              LET b == top.later /\ line.arg \in defs
              IN  next(setTop([read |-> b, later |-> top.later /\ ~b, else |-> FALSE]), defs, text)
         [] ~live -> next(conds, defs, text)
         [] line.d = "error" -> Failed
         [] line.d = "text" -> next(conds, defs, Append(text, line.arg))
         [] line.d = "define" -> next(conds, defs \cup {line.arg}, text)
         [] line.d = "undef" -> next(conds, defs \ {line.arg}, text)
         [] OTHER ->
              IF Found(fs, f, line) = {} \/ depth = 0 THEN Failed
              ELSE LET g == CHOOSE g \in Found(fs, f, line) : TRUE
                       r == Translate(fs, g, 1, <<>>, defs, <<>>, depth - 1)
                   IN  IF r.ok THEN next(conds, r.defs, text \o r.out) ELSE Failed

Reference(fs, defs) == Translate(fs, Main, 1, <<>>, defs, <<>>, fuel)

\* A program the standard accepts is never refused (except for lack of room),
\* and gives the text the standard says, in every unit compiled.
UnitIsTranslated ==
  LET r == Reference(files, Predefined)
  IN  /\ status = "error" => ~r.ok
      /\ status = "eof" /\ r.ok => out = r.out

\* "no need to parse the include because the 'ifndef macro' is defined"
\* (tcc.c:1970): a file that is not read again would have given no text and
\* changed no definition.
SkippedIncludesAreEmpty ==
  status = "run" /\ skip = Reading /\ ~AtEnd
    /\ Line.d \in {"include", "include_next"}
    /\ Remembered(Line.kind, Line.arg)
    /\ Found(files, file.name, Line) # {}
  => LET g == CHOOSE g \in Found(files, file.name, Line) : TRUE
         r == Translate(files, g, 1, <<>>, defined, <<>>, fuel)
     IN  r.ok => r.out = <<>> /\ r.defs = defined

(***************************************************************************)
(* File systems: main.c includes headers beside it and on the search path  *)
(***************************************************************************)
L(d, a) == [d |-> d, arg |-> a, kind |-> ""]
T(t) == L("text", t)
else == L("else", "")
end == L("endif", "")
inc(n) == [d |-> "include", arg |-> n, kind |-> "quote"]
sys(n) == [d |-> "include", arg |-> n, kind |-> "angle"]

SeqsUpTo(S, n) == UNION {[1 .. k -> S] : k \in 0 .. n}

Guarded(m, t) == <<L("ifndef", m), L("define", m), T(t), end>>

MainFiles ==
  {<<inc("a.h"), inc("a.h"), T("m")>>,
   <<L("ifdef", "D"), inc("b.h"), end, inc("a.h"), L("undef", "A"), inc("a.h")>>}

\* a.h is every short file over these lines, or a chain of #elif.
HeaderLines == {T("a"), L("ifndef", "A"), L("define", "A"), else, end, inc("b.h")}
ElifLines   == {T("a"), L("if", "D"), L("elif", "A"), L("elif", "D"), else, end}
Headers == SeqsUpTo(HeaderLines, 5)
           \cup {<<L("define", "A"), L("ifdef", "B")>> \o s : s \in SeqsUpTo(ElifLines, 3)}
           \cup {Guarded("A", "a") \o <<sys("loop.h"), T("a")>>,
                 <<L("ifndef", "A"), L("define", "A")>> \o Guarded("B", "a") \o <<end>>,
                 <<L("ifdef", "A"), L("error", ""), else, sys("s.h"), L("define", "A"), end>>,
             <<inc("n.h"), T("a"), sys("none.h"), T("a")>>,
             <<sys("self.h"), T("a")>>, <<L("define", "A"), sys("deep.h"), T("a")>>}

\* Three headers include themselves: loop.h for ever, self.h once, and deep.h,
\* under conditionals that stay open, until one of the stacks is full.
OnPath == (<<"sys", "loop.h">> :> <<T("s"), sys("loop.h"), T("s")>>)
          @@ (<<"sys", "self.h">> :>
                <<L("ifdef", "A"), L("define", "B"), else, L("define", "A"), sys("self.h"), end, T("s")>>)
          @@ (<<"sys", "deep.h">> :> <<L("ifdef", "A"), T("s"), sys("deep.h"), L("define", "B"), end, T("s")>>)
          @@ (<<"sys", "s.h">> :> Guarded("B", "s"))
          @@ (<<"sys", "n.h">> :> <<T("s")>>)
          @@ (<<"src", "n.h">> :>
                <<T("a"), [d |-> "include_next", arg |-> "n.h", kind |-> "quote"], T("a")>>)

System(main, a, b) ==
  (<<"src", "main.c">> :> main) @@ (<<"src", "a.h">> :> a)
  @@ (<<"src", "b.h">> :> b) @@ OnPath

\* What the include cache can tell from the flags it keeps: an #ifndef at the
\* start of a file has no #else or #elif, a file is not empty, and the last
\* line of a file is not an #include.
Level(s, i) == Cardinality({j \in 1 .. i : s[j].d \in {"if", "ifdef", "ifndef"}})
               - Cardinality({j \in 1 .. i : s[j].d = "endif"})
Plain(s) ==
  /\ s # <<>>
  /\ s[Len(s)].d # "include"
  /\ \A i \in DOMAIN s :
       s[i].d \in {"else", "elif"} /\ s[1].d = "ifndef" => Level(s, i) >= 2

PlainSystems ==
  {System(m, a, b) : m \in MainFiles, a \in {h \in Headers : Plain(h)},
                     b \in {Guarded("B", "b"), <<T("b")>>}}
  \cup {System(<<L("ifdef", "D"), inc("a.h"), end, T("m")>>, a, b) :
           a \in {<<end, T("a")>>, <<inc("b.h"), else, T("a")>>, <<T("a"), L("ifdef", "D")>>},
           b \in {<<T("b"), end>>, <<T("b")>>}}

\* Two directories with a header of the same name, each with its own guard.
SameNameSystems ==
  {(<<"src", "main.c">> :> <<inc("b.h"), sys("a.h")>>)
   @@ (<<"src", "b.h">> :> Guarded("B", "b"))
   @@ (<<"sys", "a.h">> :> <<inc("b.h"), T("a")>>)
   @@ (<<"sys", "b.h">> :> Guarded("A", "s"))}

Path == <<"sys">>
MainName == <<"src", "main.c">>
=============================================================================

--------------------------- MODULE MCMacroExpansion ---------------------------
(***************************************************************************)
(* Instances of MacroExpansion, and the expansion C describes: Prosser's   *)
(* algorithm, in which each token carries the macros it came from (its     *)
(* hide set) instead of the expander knowing which ones it is inside.      *)
(***************************************************************************)
EXTENDS MacroExpansion, SequencesExt

Words == {"a", "b", "f", "g", "v", "x", "y", "z", "1", "2", "11", "12", "a1", "x1"}
Spelled == {"'1'", "'a'", "''", "'?'"}
Tokens == Words \cup Spelled \cup {"(", ")", ",", "#", "##"}

MCPasted(t, u) ==
  IF t \in Words /\ u \in Words /\ t \o u \in Words THEN t \o u ELSE NoToken

MCQuoted(s) ==
  CASE s = <<>> -> "''" [] s = <<"1">> -> "'1'" [] s = <<"a">> -> "'a'" [] OTHER -> "'?'"

(***************************************************************************)
(* The reference.  Where a macro's name and its arguments come from        *)
(* different replacement lists, C does not say whether the result is       *)
(* inside both: one choice for all (both) is made.  doubt tells that the   *)
(* program does what TinyCC is known to get wrong:                         *)
(*  - a macro that must not be expanded again is left in an argument,      *)
(*  - a macro's arguments, or the lack of any, are found in a replacement  *)
(*    list around it, where other macros follow, or begin in one           *)
(*    replacement list and end outside it,                                 *)
(*  - an empty argument is beside ##.                                      *)
(***************************************************************************)
Result(ok, doubt, ts) == [ok |-> ok, doubt |-> doubt, out |-> ts]
Failure == Result(FALSE, FALSE, <<>>)

\* r, with ts before what it gives, and another doubt.
Before(ts, doubt, r) == [r EXCEPT !.out = ts \o @, !.doubt = @ \/ doubt]

Toks(ts) == [i \in DOMAIN ts |-> ts[i].tok]
Bare(s)  == [i \in DOMAIN s |-> [tok |-> s[i], hs |-> {}]]
Hide(hs, ts) == [i \in DOMAIN ts |-> [ts[i] EXCEPT !.hs = @ \cup hs]]

\* The last token of s and the first of ts become one.  Either may be missing.
GlueTo(s, ts) ==
  IF s = <<>> \/ ts = <<>> THEN s \o ts
  ELSE LET t == Pasted(Last(s).tok, Head(ts).tok)
       IN  IF t = NoToken THEN s \o ts
           ELSE Front(s) \o <<[tok |-> t, hs |-> Last(s).hs \cap Head(ts).hs]>> \o Tail(ts)

\* A name with hide set hs looks for its arguments outside its replacement list,
\* in another one that has more macros to expand.
Strays(m, hs, rest) ==
  /\ rest # <<>>
  /\ ~(hs \subseteq Head(rest).hs)
  /\ \E i \in DOMAIN rest : /\ rest[i].tok \in DOMAIN m
                            /\ rest[i].hs # {}
                            /\ ~(hs \subseteq rest[i].hs)

\* m is the table of macros.
RECURSIVE Expand(_, _, _), Replace(_, _, _, _, _, _)
Expand(m, ts, both) ==
  LET t    == Head(ts).tok
      hs   == Head(ts).hs
      rest == Tail(ts)
      func == t \in DOMAIN m /\ m[t].func
  IN
  CASE ts = <<>> -> Result(TRUE, FALSE, <<>>)
    [] t \notin DOMAIN m \/ t \in hs -> Before(<<Head(ts)>>, FALSE, Expand(m, rest, both))
    [] ~func ->
         LET r == Replace(m, m[t], <<>>, m[t].body, <<>>, both)
         IN  Before(<<>>, r.doubt, Expand(m, Hide(hs \cup {t}, r.out) \o rest, both))
    [] func /\ (rest = <<>> \/ Head(rest).tok # "(") ->
         Before(<<Head(ts)>>, Strays(m, hs, rest), Expand(m, rest, both))
    [] OTHER ->
         LET s     == Toks(rest)
             close == CHOOSE n \in Closing(s) : TRUE
             b     == Bounds(s, close, m[t])
             ps    == m[t].params
             uses  == IF both THEN Hide(hs, rest) ELSE rest
             args  == [x \in {ps[i] : i \in DOMAIN ps} |->
                         LET k == CHOOSE i \in DOMAIN ps : ps[i] = x
                         IN  IF k \in DOMAIN b THEN SubSeq(uses, b[k][1], b[k][2]) ELSE <<>>]
             r     == Replace(m, m[t], args, m[t].body, <<>>, both)
             hs1   == IF both THEN hs \cup rest[close].hs ELSE hs \cap rest[close].hs
             doubt == \/ Strays(m, hs, rest)
                      \/ ~(Head(rest).hs \subseteq rest[close].hs)
                      \/ r.doubt
         IN  IF Closing(s) = {} \/ ~ArityFits(s, close, m[t]) THEN Failure
             ELSE IF ~r.ok THEN Failure
             ELSE Before(<<>>, doubt,
                         Expand(m, Hide(hs1 \cup {t}, r.out) \o SubSeq(rest, close + 1, Len(rest)),
                                both))

\* done is what the replacement list of mac has given; body is the rest of it.
Replace(m, mac, args, body, done, both) ==
  LET t == Head(body)
      next == IF Len(body) > 1 THEN body[2] ELSE NoToken
      from(i, d) == Replace(m, mac, args, SubSeq(body, i, Len(body)), d, both)
      param == t \in DOMAIN args
      r == Expand(m, args[t], both)
  IN
  CASE body = <<>> -> Result(TRUE, FALSE, done)
    [] t = "#" /\ next \in DOMAIN args ->
         from(3, Append(done, [tok |-> Quoted(Toks(args[next])), hs |-> {}]))
    [] t = "##" /\ next \in DOMAIN args ->
         IF mac.variadic /\ next = Last(mac.params) /\ done # <<>> /\ Last(done).tok = ","
         THEN from(3, IF args[next] = <<>> THEN Front(done) ELSE done \o args[next])
         ELSE Before(<<>>, args[next] = <<>>, from(3, GlueTo(done, args[next])))
    [] t = "##" /\ next \notin DOMAIN args -> from(3, GlueTo(done, Bare(<<next>>)))
    [] param /\ next = "##" -> Before(<<>>, args[t] = <<>>, from(2, done \o args[t]))
    [] param /\ next # "##" ->
         IF ~r.ok THEN Failure
         ELSE Before(<<>>, r.doubt \/ \E i \in DOMAIN r.out : /\ r.out[i].tok \in DOMAIN m
                                                           /\ r.out[i].tok \in r.out[i].hs,
                     from(2, done \o r.out))
    [] OTHER -> from(2, done \o Bare(<<t>>))

Permitted == {Expand(macros, Bare(program.text), both) : both \in BOOLEAN}

(***************************************************************************)
(* Programs                                                                *)
(***************************************************************************)
Obj(body) == [func |-> FALSE, params |-> <<>>, variadic |-> FALSE, body |-> body]
Fun(params, body) == [func |-> TRUE, params |-> params, variadic |-> FALSE, body |-> body]

ABodies == {<<>>, <<"1">>, <<"f">>, <<"b", "1">>, <<"a", "1">>, <<"f", "(", "b", ")">>, <<"b", "b">>}
BBodies == {<<"f">>, <<"a">>, <<"2">>, <<"f", "(", "a", ")", "a">>}
FBodies == {<<"x">>, <<"x", "x">>, <<"f", "(", "x", ")">>, <<"x", "##", "1">>, <<"#", "x">>, <<"a">>, <<"b", "(", "x", ")">>}
Texts == {<<"a">>, <<"f", "(", "a", ")">>, <<"a", "(", "b", ")">>, <<"f", "(", "f", ")", "(", "1", ")">>, <<"b", "a", "(", "1", ")">>}

\* The same two object-like macros may use each other and a function-like one.
ObjectPrograms ==
  {[macros |-> ("a" :> Obj(a)) @@ ("b" :> Obj(b)) @@ ("f" :> Fun(<<"x">>, f)), text |-> t] :
     a \in ABodies, b \in BBodies, f \in FBodies, t \in Texts}

GBodies == {<<"x", "##", "y">>, <<"#", "x", "y">>, <<"x", ",", "##", "y">>, <<"f", "(", "x", ",", "y", ")">>,
            <<"x", "#", "y">>}
HBodies == {<<"x", "y">>, <<"y", "##", "x", "##", "1">>, <<"g", "(", "y", ",", "x", ")">>}
CBodies == {<<"1">>, <<"a", "2">>, <<"g", "(", "1">>, <<"g">>}
ArgTexts == {<<"g", "(", "1", ",", "2", ")">>, <<"g", "(", "a", ",", "1", ")">>, <<"g", "(", "1", ")">>,
             <<"g", "(", "1", ",", "2", ",", "a", ")">>, <<"g", "(", ",", ")">>, <<"z", "(", ")", "a">>,
             <<"f", "(", "g", "(", "1", ",", "2", ")", ",", "a", ")">>, <<"g", "(", "1", ",", "(", "2">>,
             <<"a", ",", "2", ")">>, <<"g", "(", "(", "1", ",", "2", ")", ",", "a", ")">>, <<"z", "(", "1", ")">>}

\* Several arguments, # and ##, "..." (as in "#define dprintf1(level, fmt, args...)").
ArgumentPrograms ==
  {[macros |-> ("a" :> Obj(a)) @@ ("f" :> Fun(<<"x", "y">>, f)) @@ ("z" :> Fun(<<>>, <<"a", "1">>))
                 @@ ("g" :> [Fun(<<"x", "y">>, g) EXCEPT !.variadic = va]),
    text |-> t] :
     a \in CBodies, f \in HBodies, g \in GBodies, va \in BOOLEAN, t \in ArgTexts}

AllPrograms == ObjectPrograms \cup ArgumentPrograms

Conforms(rs) ==
  /\ status = "error" => \E r \in rs : ~r.ok
  /\ status = "done" => \E r \in rs : r.ok /\ out = Toks(r.out)

\* Whatever the macros, the parser gets the tokens C asks for, and a program is
\* refused only if C does: nested defines, strings that are pushed back and
\* arguments found outside a macro's replacement list notwithstanding.
ExpansionIsC ==
  status \in {"error", "done"} =>
    LET rs == Permitted IN (\E r \in rs : r.doubt) \/ Conforms(rs)

\* Expansion gives what C gives, and while it runs nothing can be read, or
\* written to, that belongs to an activation that has returned (macro_subst).
ExpandsAsC == ExpansionIsC /\ LevelsAreLive
===============================================================================

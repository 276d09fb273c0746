---------------------------- MODULE MacroExpansion ----------------------------
(***************************************************************************)
(* Macro expansion (tcc.c: next, macro_subst, macro_subst_tok,             *)
(* macro_arg_subst, macro_twosharps).  A step is one turn of one of their  *)
(* loops; frames are the activations of macro_subst and macro_arg_subst    *)
(* that are running.  A function-like macro whose name ends a string looks *)
(* for its "(" in the strings that the activations around it are reading,  *)
(* and then in the file: levels lists those strings, innermost first.      *)
(***************************************************************************)
EXTENDS Integers, Sequences, FiniteSets, FiniteSetsExt

CONSTANTS
  Token, Ident,    \* tokens, and those that are identifiers or numbers
  NoToken,         \* 0, the end of a string
  NULL,            \* macro_ptr when tokens come from the file
  Programs,        \* what to expand: macros and the text that uses them
  MaxUnget,        \* bound: identifiers the parser takes for labels
  Pasted(_, _),    \* the token two tokens make, or NoToken
  Quoted(_)        \* the string literal that spells some tokens

\* Fields of a macro: params is empty for both kinds of macro without any.
Macro == [func : BOOLEAN, params : Seq(Ident), variadic : BOOLEAN, body : Seq(Token)]

ASSUME ExpansionAssumption ==
  /\ Ident \subseteq Token
  /\ NoToken \notin Token
  /\ NULL \notin Seq(Token)
  /\ MaxUnget \in Nat
  /\ \A t, u \in Token : Pasted(t, u) \in Token \cup {NoToken}
  /\ \A p \in Programs : /\ DOMAIN p.macros \subseteq Ident
                         /\ \A m \in DOMAIN p.macros : p.macros[m] \in Macro
                         /\ p.text \in Seq(Token)

VARIABLES
  program,    \* the program (constant)
  status,     \* "run", "done" or "error"
  file,       \* what is left to read of the text
  macro_ptr,  \* the string tokens are read from, or NULL
  frames,     \* activations of macro_subst and macro_arg_subst, innermost last
  levels,     \* can_read_stream: activations whose saved string may be read
  unget,      \* unget_tok's buffer: how often used, whether enabled, what it saved
  out         \* tokens that next() has given the parser

vars == <<program, status, file, macro_ptr, frames, levels, unget, out>>

macros == program.macros
define_find(t) == t \in DOMAIN macros

(***************************************************************************)
(* Operators on strings                                                    *)
(***************************************************************************)

\* Mutant: whatever is pasted is taken for one token.
PasteBlindly(s, t) ==
  CASE s.sharps -> [s EXCEPT !.sharps = FALSE, !.tok = Pasted(s.tok, t)]
    [] ~s.sharps /\ t = "##" -> [s EXCEPT !.sharps = TRUE]
    [] OTHER -> [sharps |-> FALSE, tok |-> t, str |-> Append(s.str, s.tok)]

\* macro_twosharps: each ## pastes the token before it to the one after it,
\* which a string that begins with ## does not have.  s.tok is the token that
\* is not written yet.
Paste(s, t) ==
  CASE s.sharps /\ Pasted(s.tok, t) # NoToken ->
         [s EXCEPT !.sharps = FALSE, !.tok = Pasted(s.tok, t)]
    [] ~s.sharps /\ t = "##" -> [s EXCEPT !.sharps = TRUE]
    [] OTHER -> [sharps |-> FALSE, tok |-> t, str |-> Append(s.str, s.tok)]

macro_twosharps(str) ==
  LET after[n \in 1 .. Len(str)] ==
        IF n = 1 THEN [sharps |-> FALSE, tok |-> str[1], str |-> <<>>]
                 ELSE Paste(after[n - 1], str[n])
  IN  IF \A i \in 2 .. Len(str) : str[i] # "##" THEN str
      ELSE Append(after[Len(str)].str, after[Len(str)].tok)

\* Parentheses open after the first n tokens.
Nesting(s, n) == Cardinality({i \in 1 .. n : s[i] = "("})
                   - Cardinality({i \in 1 .. n : s[i] = ")"})

\* Places of the parentheses that end the arguments that begin s: one or none.
Closing(s) ==
  {n \in DOMAIN s : Nesting(s, n) = 0 /\ \A i \in 1 .. n - 1 : Nesting(s, i) > 0}

\* The commas before close that separate arguments: "..." takes the others.
Separators(s, close, m) ==
  LET commas == {i \in 1 .. close : s[i] = "," /\ Nesting(s, i) = 1}
  IN  {i \in commas : m.variadic => Cardinality({j \in commas : j <= i}) < Len(m.params)}

\* Where argument k begins and ends; a "..." that is left out is empty.
Bounds(s, close, m) ==
  LET seps == Separators(s, close, m)
      nth(k) == CHOOSE i \in seps : Cardinality({j \in seps : j <= i}) = k
  IN  [k \in 1 .. Cardinality(seps) + 1 |->
         <<IF k = 1 THEN 2 ELSE nth(k - 1) + 1,
           IF k > Cardinality(seps) THEN close - 1 ELSE nth(k) - 1>>]

Arity(s, close, m) ==
  IF close = 2 /\ m.params = <<>> THEN 0 ELSE Cardinality(Separators(s, close, m)) + 1

ArityFits(s, close, m) ==
  \/ Arity(s, close, m) = Len(m.params)
  \/ m.variadic /\ Arity(s, close, m) = Len(m.params) - 1

ArgsOf(s, close, m) ==
  LET b == Bounds(s, close, m)
  IN  [x \in {m.params[i] : i \in DOMAIN m.params} |->
         LET k == CHOOSE i \in DOMAIN m.params : m.params[i] = x
         IN  IF k \in DOMAIN b THEN SubSeq(s, b[k][1], b[k][2]) ELSE <<>>]

(***************************************************************************)
(* macro_subst_tok(t): the result is what it leaves of the state, with the *)
(* activation it started on top of frames, if it did not return -1         *)
(***************************************************************************)
Subst(str, nested, read) ==
  [fn |-> "macro_subst", ptr |-> macro_twosharps(str), nested |-> nested,
   read |-> read, p |-> NULL, str |-> <<>>]

SubstArgs(t, args, nested, read) ==
  [fn |-> "macro_arg_subst", ptr |-> macros[t].body, nested |-> nested, read |-> read,
   name |-> t, args |-> args, last |-> NoToken, str |-> <<>>]

\* The end of a string is passed: tokens are read from the innermost level that
\* has some left.  The levels passed will find that theirs are gone.
PassEnds(s, read) ==
  LET lv   == s.levels
      more == {i \in DOMAIN lv : s.frames[lv[i]].p # <<>>}
      n    == IF more = {} THEN Len(lv) ELSE Min(more)
      gone == {lv[i] : i \in 1 .. n}
  IN  IF s.macro_ptr # <<>> \/ ~read THEN s
      ELSE [s EXCEPT
              !.frames = [d \in DOMAIN @ |-> IF d \in gone THEN [@[d] EXCEPT !.p = NULL]
                                                           ELSE @[d]],
              !.levels = SubSeq(@, n + 1, Len(@)),
              !.macro_ptr = IF more = {} THEN NULL ELSE s.frames[lv[n]].p]

Stream(s) == IF s.macro_ptr = NULL THEN s.file ELSE s.macro_ptr

\* The tokens of a macro's use are read up to and including the n-th.
Consumed(s, n) ==
  IF s.macro_ptr = NULL THEN [s EXCEPT !.file = SubSeq(@, n + 1, Len(@))]
                        ELSE [s EXCEPT !.macro_ptr = SubSeq(@, n + 1, Len(@))]

\* The call of a function-like macro.  Where the ")" is not in the string that
\* has the "(", its end is read for ever, until there is no memory.
Call(t, nested, read, s) ==
  LET toks  == Stream(s)
      close == CHOOSE n \in Closing(toks) : TRUE
  IN  IF Closing(toks) = {} \/ ~ArityFits(toks, close, macros[t])
      THEN [s EXCEPT !.ret = "error"]
      ELSE [Consumed(s, close) EXCEPT
              !.ret = "subst",
              !.frames = Append(@, SubstArgs(t, ArgsOf(toks, close, macros[t]), nested, read))]

macro_subst_tok(t, nested, read, s) ==
  LET peeked == PassEnds(s, read)
  IN  IF ~macros[t].func
      THEN [s EXCEPT !.ret = "subst",
                     !.frames = Append(@, Subst(macros[t].body, nested \cup {t}, read))]
      ELSE IF Stream(peeked) = <<>> \/ Head(Stream(peeked)) # "("
           THEN [peeked EXCEPT !.ret = "none"]
           ELSE Call(t, nested, read, peeked)

\* The part of the state that macro_subst_tok works on.
Here == [ret |-> "none", frames |-> frames, levels |-> levels,
         macro_ptr |-> macro_ptr, file |-> file]

Becomes(s) ==
  /\ status' = IF s.ret = "error" THEN "error" ELSE status
  /\ frames' = s.frames
  /\ levels' = s.levels
  /\ macro_ptr' = s.macro_ptr
  /\ file' = s.file

(***************************************************************************)
(* next()                                                                  *)
(***************************************************************************)
Init ==
  /\ program \in Programs
  /\ status = "run"
  /\ file = program.text
  /\ macro_ptr = NULL
  /\ frames = <<>>
  /\ levels = <<>>
  /\ unget = [used |-> 0, on |-> FALSE, saved |-> NULL, at |-> 0]
  /\ out = <<>>

InNext == status = "run" /\ frames = <<>>

\* A token of the file that is no macro is given to the parser.
NextFromFile ==
  /\ InNext
  /\ macro_ptr = NULL
  /\ file # <<>>
  /\ ~define_find(Head(file))
  /\ out' = Append(out, Head(file))
  /\ file' = Tail(file)
  /\ UNCHANGED <<program, status, macro_ptr, frames, levels, unget>>

\* A macro in the file is substituted, or given to the parser if it takes
\* arguments and has none.
NextMacro ==
  /\ InNext
  /\ macro_ptr = NULL
  /\ file # <<>>
  /\ define_find(Head(file))
  /\ \E s \in {macro_subst_tok(Head(file), {}, TRUE, [Here EXCEPT !.file = Tail(@)])} :
       /\ Becomes(s)
       /\ out' = IF s.ret = "none" THEN Append(out, Head(file)) ELSE out
  /\ UNCHANGED <<program, unget>>

\* Tokens of the result are not looked up again.
NextFromString ==
  /\ InNext
  /\ macro_ptr \notin {NULL, <<>>}
  /\ out' = Append(out, Head(macro_ptr))
  /\ macro_ptr' = Tail(macro_ptr)
  /\ UNCHANGED <<program, status, file, frames, levels, unget>>

\* Mutant: the buffer of unget_tok stays enabled.
EndOfStringKeepsUnget ==
  /\ InNext
  /\ macro_ptr = <<>>
  /\ macro_ptr' = IF unget.on THEN unget.saved ELSE NULL
  /\ UNCHANGED <<program, status, file, frames, levels, unget, out>>

EndOfString ==
  /\ InNext
  /\ macro_ptr = <<>>
  /\ macro_ptr' = IF unget.on THEN unget.saved ELSE NULL
  /\ unget' = [unget EXCEPT !.on = FALSE]
  /\ UNCHANGED <<program, status, file, frames, levels, out>>

\* is_label: an identifier might have been a label, but the token after it is
\* no ":", so this one is put back.
unget_tok ==
  /\ InNext
  /\ unget.used < MaxUnget
  /\ ~unget.on
  /\ Len(out) >= unget.at + 2
  /\ out[Len(out) - 1] \in Ident
  /\ unget' = [used |-> unget.used + 1, on |-> TRUE, saved |-> macro_ptr, at |-> Len(out)]
  /\ macro_ptr' = <<out[Len(out)]>>
  /\ out' = SubSeq(out, 1, Len(out) - 1)
  /\ UNCHANGED <<program, status, file, frames, levels>>

EndOfFile ==
  /\ InNext
  /\ macro_ptr = NULL
  /\ file = <<>>
  /\ status' = "done"
  /\ UNCHANGED <<program, file, macro_ptr, frames, levels, unget, out>>

(***************************************************************************)
(* macro_subst                                                             *)
(***************************************************************************)
Depth == Len(frames)
Top == frames[Depth]

In(fn) == status = "run" /\ frames # <<>> /\ Top.fn = fn

SetTop(f) == [frames EXCEPT ![Depth] = f]

\* ptr has the next token of an activation of macro_subst; it is NULL when the
\* arguments of the last macro took the string to its end.
AtToken == In("macro_subst") /\ Top.ptr \notin {NULL, <<>>}

Expands(t) == define_find(t) /\ t \notin Top.nested

SubstToken ==
  /\ AtToken
  /\ ~Expands(Head(Top.ptr))
  /\ frames' = SetTop([Top EXCEPT !.ptr = Tail(@), !.str = Append(@, Head(Top.ptr))])
  /\ UNCHANGED <<program, status, file, macro_ptr, levels, unget, out>>

\* Mutant: the level stays in the list when its activation goes on.
ResumedKeepsLevel(s, d) ==
  [s EXCEPT !.frames[d].ptr = s.macro_ptr, !.macro_ptr = s.frames[d].p]

\* When macro_subst_tok returns to the activation d: it goes on where tokens
\* were read last, and takes its level from the list if it is still there.
Resumed(s, d) ==
  LET f == s.frames[d]
  IN  [s EXCEPT
         !.frames[d] = [f EXCEPT !.ptr = s.macro_ptr],
         !.macro_ptr = f.p,
         !.levels = IF f.read /\ @ # <<>> /\ @[1] = d THEN Tail(@) ELSE @]

SubstMacro ==
  /\ AtToken
  /\ Expands(Head(Top.ptr))
  /\ LET t == Head(Top.ptr)
         before == [Here EXCEPT !.frames = SetTop([Top EXCEPT !.p = macro_ptr]),
                                !.levels = IF Top.read THEN <<Depth>> \o @ ELSE @,
                                !.macro_ptr = Tail(Top.ptr)]
         unchanged(s) == [Resumed(s, Depth) EXCEPT !.frames[Depth].str = Append(@, t)]
     IN  \E s \in {macro_subst_tok(t, Top.nested, Top.read, before)} :
           \E r \in {IF s.ret = "none" THEN unchanged(s) ELSE s} : Becomes(r)
  /\ UNCHANGED <<program, unget, out>>

\* The end of macro_subst.  What it made goes to the activation that called it
\* or, from the outermost one, to next().
SubstReturn ==
  /\ In("macro_subst")
  /\ Top.ptr \in {NULL, <<>>}
  /\ LET rest == [Here EXCEPT !.frames = SubSeq(@, 1, Depth - 1)]
         back == [rest EXCEPT !.frames[Depth - 1].str = @ \o Top.str]
     IN  \E s \in {IF Depth = 1 THEN [rest EXCEPT !.macro_ptr = Top.str]
                  ELSE IF frames[Depth - 1].fn = "macro_subst" THEN Resumed(back, Depth - 1)
                  ELSE back} : Becomes(s)
  /\ UNCHANGED <<program, unget, out>>

(***************************************************************************)
(* macro_arg_subst                                                         *)
(***************************************************************************)
AtBody == In("macro_arg_subst") /\ Top.ptr # <<>>

IsParam(t) == t \in DOMAIN Top.args

\* The token is done with: str replaces the result.
Wrote(str, last, n) ==
  [Top EXCEPT !.ptr = SubSeq(@, n + 1, Len(@)), !.str = str, !.last = last]

\* The last token of s, or t if there is none.
LastOf(s, t) == IF s = <<>> THEN t ELSE s[Len(s)]

ArgStringize ==
  /\ AtBody
  /\ Head(Top.ptr) = "#"
  /\ LET t == Top.ptr[2]
     IN  frames' =
           IF Len(Top.ptr) = 1 THEN SetTop(Wrote(Top.str, "#", 1))
           ELSE IF IsParam(t)
           THEN SetTop(Wrote(Append(Top.str, Quoted(Top.args[t])), LastOf(Top.args[t], t), 2))
           ELSE SetTop(Wrote(Append(Top.str, t), t, 2))
  /\ UNCHANGED <<program, status, file, macro_ptr, levels, unget, out>>

ArgToken ==
  /\ AtBody
  /\ Head(Top.ptr) # "#"
  /\ ~IsParam(Head(Top.ptr))
  /\ frames' = SetTop(Wrote(Append(Top.str, Head(Top.ptr)), Head(Top.ptr), 1))
  /\ UNCHANGED <<program, status, file, macro_ptr, levels, unget, out>>

BesideSharps == Top.last = "##" \/ (Len(Top.ptr) > 1 /\ Top.ptr[2] = "##")

\* ", ## args": the comma goes if args is empty, the ## if it is not.
EatsComma(t) ==
  /\ macros[Top.name].variadic
  /\ t = macros[Top.name].params[Len(macros[Top.name].params)]
  /\ Top.last = "##"
  /\ Len(Top.str) >= 2
  /\ Top.str[Len(Top.str) - 1] = ","

\* Beside ## an argument is taken as it is.
ArgPlain ==
  /\ AtBody
  /\ IsParam(Head(Top.ptr))
  /\ BesideSharps
  /\ LET t   == Head(Top.ptr)
         str == Top.str
         cut == IF ~EatsComma(t) THEN 0 ELSE IF Top.args[t] = <<>> THEN 2 ELSE 1
     IN  frames' = SetTop(Wrote(SubSeq(str, 1, Len(str) - cut) \o Top.args[t], t, 1))
  /\ UNCHANGED <<program, status, file, macro_ptr, levels, unget, out>>

\* Mutant: an argument reads on where it ends.
ArgReadsStream ==
  /\ AtBody
  /\ IsParam(Head(Top.ptr))
  /\ ~BesideSharps
  /\ LET t == Head(Top.ptr)
     IN  frames' = Append(SetTop(Wrote(Top.str, t, 1)), Subst(Top.args[t], Top.nested, TRUE))
  /\ UNCHANGED <<program, status, file, macro_ptr, levels, unget, out>>

\* Elsewhere it is expanded first, and finds no arguments outside itself.
ArgExpanded ==
  /\ AtBody
  /\ IsParam(Head(Top.ptr))
  /\ ~BesideSharps
  /\ LET t == Head(Top.ptr)
     IN  frames' = Append(SetTop(Wrote(Top.str, t, 1)), Subst(Top.args[t], Top.nested, FALSE))
  /\ UNCHANGED <<program, status, file, macro_ptr, levels, unget, out>>

\* The result is substituted in its turn.
ArgsReturn ==
  /\ In("macro_arg_subst")
  /\ Top.ptr = <<>>
  /\ frames' = SetTop(Subst(Top.str, Top.nested \cup {Top.name}, Top.read))
  /\ UNCHANGED <<program, status, file, macro_ptr, levels, unget, out>>

Next ==
  \/ NextFromFile \/ NextMacro \/ NextFromString \/ EndOfString
  \/ unget_tok \/ EndOfFile
  \/ SubstToken \/ SubstMacro \/ SubstReturn
  \/ ArgStringize \/ ArgToken \/ ArgPlain \/ ArgExpanded \/ ArgsReturn

Spec == Init /\ [][Next]_vars

\* The expander is called in a loop by one thread: it goes on while it can.
FairSpec == Spec /\ WF_vars(Next)

(***************************************************************************)
(* Properties                                                              *)
(***************************************************************************)
\* Every expansion comes to an end, however macros use each other.
ExpansionEnds == <>(status # "run")

\* The strings that may be read when one ends are those of activations that
\* are still running (can_read_stream points into their stack frames), each
\* of which was called by the next one of the list, or from it.
LevelsAreLive ==
  status = "run" =>
    \A i \in DOMAIN levels : /\ frames[levels[i]].fn = "macro_subst"
                             /\ frames[levels[i]].read
                             /\ levels[i] < Depth
                             /\ i > 1 => levels[i] < levels[i - 1]
===============================================================================

---------------------------- MODULE Initializers ----------------------------
(***************************************************************************)
(* Initializers (tcc.c: decl_initializer_alloc, decl_initializer,          *)
(* decl_designator, init_putv, init_putz): an array of unknown size is     *)
(* measured in a first pass over its saved tokens, then storage is         *)
(* allocated and a second pass fills it, while compound literals and       *)
(* strings in it allocate storage of their own.                            *)
(*                                                                         *)
(* Memory is counted in cells; a char, an int, a pointer is one cell, and  *)
(* a cell has two halves, which two bitfields can share.  What is stored   *)
(* is the set of token numbers whose values have been ored together.       *)
(***************************************************************************)
EXTENDS Integers, Sequences, FiniteSets, SequencesExt

CONSTANTS
  Inputs,     \* what is declared: [type, toks]
  Storages,   \* "local" or "global"
  BoundsModes,\* values of do_bounds_check
  Room,       \* cells that are watched
  DataStart   \* data_section->data_offset and -loc before

ASSUME InitializersAssumption ==
  /\ Room \in Nat \ {0}
  /\ DataStart \in Nat

VARIABLES
  input,      \* the declaration
  storage, do_bounds_check,
  phase,      \* of decl_initializer_alloc
  length,     \* type->ref->c of the array, -1 when unknown
  st          \* the parser and what it fills, see Start

initVars == <<input, storage, do_bounds_check, phase, length, st>>

(***************************************************************************)
(* Types                                                                   *)
(***************************************************************************)
Int_ == [k |-> "int"]
Char == [k |-> "char"]
Bits(half) == [k |-> "bits", half |-> half]
ArrayOf(of, n) == [k |-> "array", of |-> of, n |-> n]
\* fields: a sequence of [name, type, c]; a union's have c = 0.
Struct(fields, size, union) == [k |-> "struct", fields |-> fields, size |-> size, union |-> union]

RECURSIVE size_of(_)
size_of(t) ==
  CASE t.k = "array" -> t.n * size_of(t.of)
    [] t.k = "struct" -> t.size
    [] OTHER -> 1

\* The declared type, with what is known of its length.
ObjectType == IF input.type.k = "array" THEN [input.type EXCEPT !.n = length] ELSE input.type
Unknown == input.type.k = "array" /\ input.type.n < 0

Rounded(n, a) == ((n + a - 1) \div a) * a
AlignDown(n, a) == (n \div a) * a

(***************************************************************************)
(* The parser                                                              *)
(***************************************************************************)
\* p: the token that comes next; len: the length of the array that is measured;
\* mem: the object's cells and those behind it;
\* loc, data_offset: the storage; objects: what has been allocated in it.
Start ==
  [p |-> 1, err |-> FALSE, len |-> 0, mem |-> [x \in 0 .. Room - 1 |-> <<{}, {}>>],
   loc |-> -DataStart, data_offset |-> DataStart, objects |-> {}]

toks == input.toks
Global == storage = "global"
Token(s) == toks[s.p]
Tok(s) == Token(s).t
Error(s) == [s EXCEPT !.err = TRUE]
Advance(s) == [s EXCEPT !.p = @ + 1]
skip(s, t) == IF s.err \/ Tok(s) # t THEN Error(s) ELSE Advance(s)

\* Storage for an object; a sentinel cell behind what is checked for bounds.
Allocated(s, local, array, size, align) ==
  LET pad == IF do_bounds_check /\ (array \/ ~local) THEN 1 ELSE 0
      at == IF local THEN AlignDown(s.loc - pad - size, align) ELSE Rounded(s.data_offset, align)
      made == [s EXCEPT !.objects = @ \cup {[local |-> local, addr |-> at, size |-> size,
                                             align |-> align, pad |-> pad]}]
  IN IF local THEN [made EXCEPT !.loc = at - pad] ELSE [made EXCEPT !.data_offset = at + size + pad]

\* An expression: a value, a string that stays a pointer, a compound literal
\* "(", "type", ")", "{", "v", ",", "v", "}".
Expression(s) ==
  CASE Tok(s) = "v" -> Advance(s)
    [] Tok(s) = "str" -> Advance(Allocated(s, FALSE, TRUE, Token(s).len + 1, 1))
    [] Tok(s) = "(" -> [Allocated(s, ~Global, TRUE, 2, 2) EXCEPT !.p = @ + 8]
    [] OTHER -> Error(s)

\* Data in a section is ored in.
StoreGlobal(old, v) == old \cup {v}

init_putv(s, t, c, v) ==
  LET Put(half) ==
        IF t.k = "bits" /\ t.half # half THEN s.mem[c][half]
        ELSE IF Global THEN StoreGlobal(s.mem[c][half], v) ELSE {v}
  IN IF c >= Room THEN Error(s) ELSE [s EXCEPT !.mem[c] = <<Put(1), Put(2)>>]

\* A section is zero already.
init_putz(s, c, size) ==
  IF Global \/ s.err \/ size <= 0 THEN s
  ELSE [s EXCEPT !.mem = [x \in DOMAIN @ |-> IF x \in c .. c + size - 1 THEN <<{}, {}>> ELSE @[x]]]

\* "just skip expression": only parentheses are counted.
RECURSIVE Skipped(_, _)
Skipped(s, parlevel) ==
  IF Tok(s) = ";" \/ (parlevel <= 0 /\ Tok(s) \in {"}", ","}) THEN s
  ELSE Skipped(Advance(s), parlevel + (CASE Tok(s) = "(" -> 1 [] Tok(s) = ")" -> -1 [] OTHER -> 0))

(***************************************************************************)
(* Designators and initializers                                            *)
(***************************************************************************)
Field(t, name) == CHOOSE i \in DOMAIN t.fields : t.fields[i].name = name
HasField(t, name) == t.k = "struct" /\ \E i \in DOMAIN t.fields : t.fields[i].name = name
ValidIndex(t, k) ==
  t.k = "array" /\ k.from >= 0 /\ k.to >= k.from /\ (t.n >= 0 => k.to < t.n)

\* d: the state s, type and address c of what is designated so far, cur (the
\* index or the number of the field), notfirst, nb_elems.
RECURSIVE designators(_)
designators(d) ==
  LET k == Token(d.s) IN
  CASE k.t = "index" /\ d.nb = 1 ->
         IF ~ValidIndex(d.type, k) THEN [d EXCEPT !.s = Error(@)]
         ELSE designators([s |-> Advance(d.s), type |-> d.type.of, notfirst |-> TRUE,
                           c |-> d.c + k.from * size_of(d.type.of),
                           cur |-> IF d.notfirst THEN d.cur ELSE k.to,
                           nb |-> k.to - k.from + 1])
    [] k.t = "field" /\ d.nb = 1 ->
         IF ~HasField(d.type, k.name) THEN [d EXCEPT !.s = Error(@)]
         ELSE LET f == Field(d.type, k.name)
              IN designators([d EXCEPT !.s = Advance(@), !.type = @.fields[f].type, !.notfirst = TRUE,
                                       !.c = @ + d.type.fields[f].c,
                                       !.cur = IF d.notfirst THEN @ ELSE f])
    [] OTHER -> d

\* The element or field whose turn it is.
CurrentElement(d) ==
  IF d.type.k = "array"
  THEN [d EXCEPT !.type = @.of, !.c = @ + d.cur * size_of(d.type.of)]
  ELSE IF d.cur > Len(d.type.fields) THEN [d EXCEPT !.s = Error(@)]
  ELSE [d EXCEPT !.type = @.fields[d.cur].type, !.c = @ + d.type.fields[d.cur].c]

\* The first element of a range is copied over the others.
RangeCopied(s, d, size_only) ==
  LET size == size_of(d.type) IN
  IF size_only \/ d.nb = 1 \/ s.err THEN s
  ELSE IF ~Global THEN Error(s)
  ELSE [s EXCEPT !.mem = [x \in DOMAIN @ |->
          IF x \in d.c .. d.c + d.nb * size - 1 THEN @[d.c + ((x - d.c) % size)] ELSE @[x]]]

RECURSIVE decl_initializer(_, _, _, _, _)

\* Returns the state and the index or field.
decl_designator(s, type, c, cur, size_only) ==
  LET d0 == designators([s |-> s, type |-> type, c |-> c, cur |-> cur, notfirst |-> FALSE, nb |-> 1])
      d == IF d0.s.err \/ d0.notfirst THEN d0 ELSE CurrentElement(d0)
      filled == IF d.s.err THEN d.s ELSE decl_initializer(d.s, d.type, d.c, FALSE, size_only)
  IN [s |-> RangeCopied(filled, d, size_only), cur |-> d.cur]

\* String literals, one after the other, into an array of chars.
RECURSIVE StringChars(_, _, _, _, _)
StringChars(s, type, c, filled, size_only) ==
  LET len == IF Tok(s) = "str" THEN Token(s).len ELSE 0
      nb == IF type.n >= 0 /\ len > type.n - filled THEN type.n - filled ELSE len
      CharAt(x) == 100 * s.p + x - c - filled
      chars == [s EXCEPT !.mem = [x \in DOMAIN @ |->
                  IF x \in c + filled .. c + filled + nb - 1 THEN <<{CharAt(x)}, {CharAt(x)}>> ELSE @[x]]]
      end == IF type.n < 0 \/ filled < type.n THEN 1 ELSE 0
  IN IF Tok(s) = "str" THEN StringChars(Advance(IF size_only THEN s ELSE chars), type, c, filled + nb, size_only)
     ELSE [s |-> IF size_only THEN s ELSE init_putz(s, c + filled, end), length |-> filled + end]

Furthest(end, filled) == IF end > filled THEN end ELSE filled

\* Elements until "}", or until an array without braces is full.
RECURSIVE ElementList(_, _, _, _, _, _, _)
ElementList(s, type, c, index, filled, no_oblock, size_only) ==
  IF s.err \/ Tok(s) = "}" THEN [s |-> s, length |-> filled]
  ELSE LET size == size_of(type.of)
           Before(d) == IF type.n >= 0 /\ d.cur >= type.n THEN Error(d.s)
                        ELSE IF size_only THEN d.s
                        ELSE init_putz(d.s, c + filled * size, (d.cur - filled) * size)
           After(cur, s1, now) ==
             IF s1.err \/ (cur + 1 >= type.n /\ no_oblock) \/ Tok(s1) = "}"
             THEN [s |-> s1, length |-> now]
             ELSE ElementList(skip(s1, ","), type, c, cur + 1, now, no_oblock, size_only)
           Element(d) == After(d.cur, Before(d), Furthest(d.cur + 1, filled))
       IN  Element(decl_designator(s, type, c, index, size_only))

\* Mutant: nothing is done about the fields that have no initializer.
NoRest(s, c, filled, n) == s
Rest(s, c, filled, n) == init_putz(s, c + filled, n - filled)

\* Mutant: a struct without braces ends with a brace, too.
NeverFull(no_oblock, f, type) == FALSE
Full(no_oblock, f, type) == no_oblock /\ f = Len(type.fields)

\* Fields until "}", or until a struct without braces is full.
RECURSIVE Fields(_, _, _, _, _, _, _)
Fields(s, type, c, f, filled, no_oblock, size_only) ==
  IF s.err \/ Tok(s) = "}" THEN [s |-> s, length |-> filled]
  ELSE LET After(cur, s1, now) ==
             IF Full(no_oblock, cur, type) \/ Tok(s1) = "}" THEN [s |-> s1, length |-> now]
             ELSE Fields(skip(s1, ","), type, c, cur + 1, now, no_oblock, size_only)
           Zeroed(d, field) ==
             After(d.cur, IF size_only THEN d.s ELSE init_putz(d.s, c + filled, field.c - filled),
                   Furthest(field.c + size_of(field.type), filled))
           Member(d) == IF d.s.err THEN [s |-> d.s, length |-> filled]
                        ELSE Zeroed(d, type.fields[d.cur])
       IN  Member(decl_designator(s, type, c, f, size_only))

IsString(s, type) == Tok(s) = "str" /\ type.of.k = "char"

\* Returns the state; for an array, its length is kept in it.
decl_initializer(s, type, c, first, size_only) ==
  CASE s.err -> s
    [] ~s.err /\ type.k = "array" ->
         LET block == Tok(s) = "{" \/ (first /\ Tok(s) # "str")
             s0 == IF block THEN skip(s, "{") ELSE s
             size == size_of(type.of)
             Closed(r) == IF block THEN [r EXCEPT !.s = skip(@, "}")] ELSE r
             Ended(r) == [(IF size_only \/ type.n < 0 THEN r.s
                           ELSE Rest(r.s, c, r.length * size, type.n * size))
                          EXCEPT !.len = IF first THEN r.length ELSE @]
         IN  Ended(Closed(IF s0.err THEN [s |-> s0, length |-> 0]
                          ELSE IF IsString(s0, type) THEN StringChars(s0, type, c, 0, size_only)
                          ELSE ElementList(s0, type, c, 0, 0, ~block, size_only)))
    [] ~s.err /\ type.k = "struct" /\ (Global \/ ~first \/ Tok(s) = "{") ->
         LET s0 == IF Tok(s) = "(" THEN [s EXCEPT !.p = @ + 3] ELSE s
             block == first \/ Tok(s0) = "{"
             s1 == IF block THEN skip(s0, "{") ELSE s0
             Ended(r) == IF size_only THEN r.s ELSE Rest(r.s, c, r.length, type.size)
             Closed(s2) == IF block THEN skip(s2, "}") ELSE s2
         IN  Closed(Ended(Fields(s1, type, c, 1, 0, ~block, size_only)))
    [] ~s.err /\ type.k \notin {"array", "struct"} /\ Tok(s) = "{" ->
         skip(decl_initializer(Advance(s), type, c, first, size_only), "}")
    [] OTHER ->
         IF size_only THEN Skipped(s, 0)
         ELSE LET e == Expression(s) IN IF e.err THEN e ELSE init_putv(e, type, c, s.p)

(***************************************************************************)
(* decl_initializer_alloc                                                  *)
(***************************************************************************)
Patched(len) == len

SizePass ==
  /\ phase = "size"
  /\ \E s \in {decl_initializer(st, ObjectType, 0, TRUE, TRUE)} :
       /\ length' = IF s.err THEN length ELSE Patched(s.len)
       /\ st' = IF s.err THEN s ELSE [s EXCEPT !.p = 1]
       /\ phase' = IF s.err THEN "refused" ELSE "allocate"
  /\ UNCHANGED <<input, storage, do_bounds_check>>

Placed(s, size) == Allocated(s, ~Global, ObjectType.k = "array", size, 1)

\* Local storage holds anything; what is behind the object is watched too.
Allocate ==
  LET size == size_of(ObjectType)
      Fresh(x) == IF x >= size THEN <<{-1}, {-1}>> ELSE IF Global THEN <<{}, {}>> ELSE <<{0}, {0}>>
  IN /\ phase = "allocate"
     /\ st' = [Placed(st, size) EXCEPT !.mem = [x \in DOMAIN @ |-> Fresh(x)]]
     /\ phase' = "fill"
     /\ UNCHANGED <<input, storage, do_bounds_check, length>>

\* When the tokens had been saved, parsing goes on behind them wherever the
\* second pass has come to; otherwise ";" must be next.
DataPass ==
  /\ phase = "fill"
  /\ \E s \in {decl_initializer(st, ObjectType, 0, TRUE, FALSE)} :
       /\ st' = s
       /\ phase' = IF s.err \/ (~Unknown /\ Tok(s) # ";") THEN "refused" ELSE "done"
  /\ UNCHANGED <<input, storage, do_bounds_check, length>>

InitializersInit ==
  /\ input \in Inputs
  /\ storage \in Storages
  /\ do_bounds_check \in BoundsModes
  /\ length = IF input.type.k = "array" THEN input.type.n ELSE 0
  /\ phase = IF Unknown THEN "size" ELSE "allocate"
  /\ st = Start

InitializersNext == SizePass \/ Allocate \/ DataPass

InitializersSpec == InitializersInit /\ [][InitializersNext]_initVars

(***************************************************************************)
(* What C says (C99 6.7.8): an initializer in braces goes through the      *)
(* subobjects of what it initializes, a designator says where to go on,    *)
(* and what is named last counts.                                          *)
(***************************************************************************)
\* A subobject is a path of indices and field numbers.
RECURSIVE Sub(_, _)
Sub(t, path) ==
  IF path = <<>> THEN [type |-> t, c |-> 0]
  ELSE LET h == Head(path)
           child == IF t.k = "array" THEN [type |-> t.of, c |-> h * size_of(t.of)]
                    ELSE [type |-> t.fields[h].type, c |-> t.fields[h].c]
           rest == Sub(child.type, Tail(path))
       IN [type |-> rest.type, c |-> child.c + rest.c]

\* The subobject after one; <<>> when there is none.
RECURSIVE CNext(_, _)
CNext(t, path) ==
  IF path = <<>> THEN <<>>
  ELSE LET up == Sub(t, Front(path)).type
           i == Last(path) + 1
       IN IF \/ up.k = "array" /\ (up.n < 0 \/ i < up.n)
             \/ up.k = "struct" /\ ~up.union /\ i <= Len(up.fields)
          THEN Append(Front(path), i) ELSE CNext(t, Front(path))

FirstOf(t) == IF t.k = "array" THEN 0 ELSE 1

\* Where a value without braces goes.
RECURSIVE Descend(_, _, _)
Descend(t, path, str) ==
  LET u == Sub(t, path).type IN
  IF u.k \notin {"array", "struct"} \/ (str /\ u.k = "array" /\ u.of.k = "char") THEN path
  ELSE Descend(t, Append(path, FirstOf(u)), str)

\* r: the next token p, mem, whether it is in error or stores something twice.
COver(r, c, size, half, Value(_)) ==
  LET hit(x, h) == x \in c .. c + size - 1 /\ half \in {0, h}
  IN [r EXCEPT !.mem = [x \in DOMAIN @ |-> [h \in 1 .. 2 |-> IF hit(x, h) THEN Value(x - c) ELSE @[x][h]]],
               !.twice = @ \/ \E x \in DOMAIN r.mem, h \in 1 .. 2 : hit(x, h) /\ r.mem[x][h] # {}]

CZeroed(r, c, t) == COver(r, c, size_of(t), IF t.k = "bits" THEN t.half ELSE 0, LAMBDA x : {})

\* Chars of the literals from token p on.
RECURSIVE CChars(_)
CChars(p) ==
  IF toks[p].t # "str" THEN <<>>
  ELSE [x \in 1 .. toks[p].len |-> 100 * p + x - 1] \o CChars(p + 1)
RECURSIVE CStringsEnd(_)
CStringsEnd(p) == IF toks[p].t # "str" THEN p ELSE CStringsEnd(p + 1)

CString(r, t, c) ==
  LET chars == CChars(r.p)
      n == IF t.n < 0 THEN Len(chars) + 1 ELSE t.n
      filled == COver(r, c, n, 0, LAMBDA x : IF x + 1 \in DOMAIN chars THEN {chars[x + 1]} ELSE {})
  IN [filled EXCEPT !.p = CStringsEnd(@), !.len = n]

CScalar(r, t, c) ==
  CASE toks[r.p].t \in {"v", "str"} ->
         [COver(r, c, 1, IF t.k = "bits" THEN t.half ELSE 0, LAMBDA x : {r.p}) EXCEPT !.p = @ + 1]
    [] toks[r.p].t = "(" ->
         [COver(r, c, 1, IF t.k = "bits" THEN t.half ELSE 0, LAMBDA x : {r.p}) EXCEPT !.p = @ + 8]
    [] OTHER -> [r EXCEPT !.err = TRUE]

RECURSIVE CDesignator(_, _, _)
CDesignator(r, t, path) ==
  LET k == toks[r.p]
      u == Sub(t, path).type
  IN CASE k.t = "index" /\ ValidIndex(u, k) ->
            IF k.to > k.from THEN [r |-> [r EXCEPT !.p = @ + 1], path |-> Append(path, k.from), copies |-> k.to - k.from]
            ELSE CDesignator([r EXCEPT !.p = @ + 1], t, Append(path, k.to))
       [] k.t = "field" /\ HasField(u, k.name) ->
            CDesignator([r EXCEPT !.p = @ + 1], t, Append(path, Field(u, k.name)))
       [] k.t \in {"index", "field"} /\ ~ValidIndex(u, k) /\ ~HasField(u, k.name) ->
            [r |-> [r EXCEPT !.err = TRUE], path |-> path, copies |-> 0]
       [] OTHER -> [r |-> r, path |-> path, copies |-> 0]

CCopied(r, c, size, copies) ==
  [r EXCEPT !.mem = [x \in DOMAIN @ |->
     IF x \in c .. c + (copies + 1) * size - 1 THEN @[c + ((x - c) % size)] ELSE @[x]]]

RangeEnd(path, copies) == IF copies = 0 THEN path ELSE Append(Front(path), Last(path) + copies)

RECURSIVE CBraced(_, _, _)
RECURSIVE CList(_, _, _, _)
\* One item of the list for the object of type t at c; then the others.
CList(r, t, c, cur) ==
  IF r.err THEN r
  ELSE IF toks[r.p].t = "}" THEN [r EXCEPT !.p = @ + 1]
  ELSE LET Others(r3, last) ==
             CASE r3.err -> r3
               [] ~r3.err /\ toks[r3.p].t = "," -> CList([r3 EXCEPT !.p = @ + 1], t, c, CNext(t, last))
               [] ~r3.err /\ toks[r3.p].t = "}" -> [r3 EXCEPT !.p = @ + 1]
               [] OTHER -> [r3 EXCEPT !.err = TRUE]
           Counted(r2, path, last) ==
             [r2 EXCEPT !.len = IF path # <<>> /\ Head(last) + 1 > @ /\ t = input.type THEN Head(last) + 1 ELSE @]
           Filled(d, path, sub, str) ==
             CASE d.r.err \/ path = <<>> -> [d.r EXCEPT !.err = TRUE]
               [] toks[d.r.p].t = "{" /\ path # <<>> -> CBraced(CZeroed(d.r, c + sub.c, sub.type), sub.type, c + sub.c)
               [] str /\ sub.type.k = "array" -> [CString(d.r, sub.type, c + sub.c) EXCEPT !.len = r.len]
               [] OTHER -> CScalar(d.r, sub.type, c + sub.c)
           Stored(d, path, at, last) ==
             Others(Counted(CCopied(Filled(d, path, Sub(t, path), toks[d.r.p].t = "str"), c + at.c, size_of(at.type), d.copies),
                            path, last), last)
           At(d, path) == Stored(d, path, Sub(t, IF d.copies = 0 THEN path ELSE d.path), RangeEnd(path, d.copies))
           Item(d) ==
             At(d, IF d.path = <<>> \/ toks[d.r.p].t = "{" THEN d.path
                   ELSE Descend(t, d.path, toks[d.r.p].t = "str"))
       IN  Item(IF toks[r.p].t \in {"index", "field"} THEN CDesignator(r, t, <<>>)
                ELSE [r |-> r, path |-> cur, copies |-> 0])

\* "{" at token r.p.
CBraced(r, t, c) ==
  LET in == [r EXCEPT !.p = @ + 1]
      inner == toks[in.p].t
      Closed(x) == IF toks[x.p].t = "}" THEN [x EXCEPT !.p = @ + 1] ELSE [x EXCEPT !.err = TRUE]
  IN CASE t.k \notin {"array", "struct"} -> Closed(IF inner = "{" THEN CBraced(in, t, c) ELSE CScalar(in, t, c))
       [] t.k = "array" /\ t.of.k = "char" /\ inner = "str" ->
            [Closed(CString(in, t, c)) EXCEPT !.len = IF t = input.type THEN @ ELSE r.len]
       [] OTHER -> [CList(in, t, c, <<FirstOf(t)>>) EXCEPT !.len = IF t = input.type THEN @ ELSE r.len]

\* The whole initializer.
CInitialized ==
  LET r == [p |-> 1, err |-> FALSE, twice |-> FALSE, len |-> 0, mem |-> [x \in 0 .. Room - 1 |-> <<{}, {}>>]]
      t == input.type
      done == CASE toks[1].t = "{" -> CBraced(r, t, 0)
                [] toks[1].t = "str" /\ t.k = "array" /\ t.of.k = "char" -> CString(r, t, 0)
                [] OTHER -> CScalar(r, t, 0)
  IN [done EXCEPT !.err = @ \/ toks[done.p].t # ";"]

(***************************************************************************)
(* Properties                                                              *)
(***************************************************************************)
\* What the object holds is what C says, its last cell included and nothing
\* behind it touched, whatever the memory held before: the two passes, the
\* holes and the rest that is zeroed, strings, ranges, nested braces and their
\* absence (decl_initializer, decl_designator).  An array of unknown size gets
\* the length that the second pass fills, and all tokens are used up: parsing
\* goes on behind the saved tokens anyway.  A global that names an element twice
\* is left out: there both values are ored into the section.
InitializedAsC ==
  phase = "done" =>
    \E c \in {CInitialized} :
      /\ ~c.err
      /\ Unknown => length = c.len /\ Tok(st) = ";"
      /\ ~(Global /\ c.twice) =>
         \A x \in 0 .. Room - 1 :
           st.mem[x] = IF x < size_of(ObjectType) THEN c.mem[x] ELSE <<{-1}, {-1}>>

\* "range init not supported yet for dynamic storage".
Unsupported == ~Global /\ \E p \in DOMAIN toks : toks[p].t = "index" /\ toks[p].to > toks[p].from

\* What C accepts is accepted, and the rest refused, but for what the code says
\* it does not support (expect and error in the two passes).
InitializersRefusedAsC ==
  phase = "refused" => CInitialized.err \/ Unsupported

\* Objects that come into being while another is initialized, strings and
\* compound literals, have storage of their own, aligned, below data_offset or
\* above loc, and a cell between any two when bounds are checked ("very
\* important to increment global pointer at this time", tcc.c:8000).
ObjectsApart ==
  \A a \in st.objects :
    /\ a.addr % a.align = 0
    /\ IF a.local THEN a.addr - a.pad >= st.loc ELSE a.addr + a.size + a.pad <= st.data_offset
    /\ \A b \in st.objects \ {a} : a.local = b.local =>
         \/ a.addr + a.size + a.pad <= b.addr
         \/ b.addr + b.size + b.pad <= a.addr

\* Initializers are taken, and refused, as C says, and the objects they make stay
\* apart (decl_initializer_alloc).
InitializersAsC == InitializedAsC /\ InitializersRefusedAsC /\ ObjectsApart
=============================================================================

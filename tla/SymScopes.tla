------------------------------ MODULE SymScopes ------------------------------
(***************************************************************************)
(* The symbol tables of the compiler (tcc.c).  Every declaration is a Sym  *)
(* taken from a LIFO free list and pushed on global_stack or local_stack;  *)
(* each name points at the newest Sym that bears it and each Sym at the    *)
(* next older one (prev_tok).  A block records the top of local_stack when *)
(* it opens and pops back to it when it closes.  Values on the expression  *)
(* stack hold pointers to Syms, and a statement expression leaves such a   *)
(* value behind after its block has been popped.                           *)
(***************************************************************************)
EXTENDS Naturals, Sequences, FiniteSets

CONSTANTS
  Ident,          \* ordinary identifiers
  Tag,            \* struct, union and enum tags (table_ident[].sym_struct)
  Anon,           \* token of a Sym no name leads to (SYM_FIELD, >= SYM_FIRST_ANOM)
  NULL,           \* the null pointer, and what an undeclared name denotes
  SymPoolNb,      \* SYM_POOL_NB: Syms obtained from one xmalloc
  MaxSyms,        \* bound: Syms ever obtained from xmalloc
  MaxDecls,       \* bound: declarations in a run
  MaxBlocks,      \* bound: nesting of block()
  MaxValues,      \* bound: values on the expression stack
  SymbolResults,  \* may a statement expression leave a symbol of its own block?
  RestartFrom     \* phases from which the caller may compile again

Name == Ident \cup Tag
Sym  == 1 .. MaxSyms
Phase == {"idle", "file", "proto", "params", "body", "failed"}

ASSUME ScopesAssumption ==
  /\ NULL \notin Sym
  /\ Anon \notin Name
  /\ Ident \cap Tag = {}
  /\ SymPoolNb \in Nat \ {0}
  /\ MaxSyms \in Nat
  /\ MaxDecls \in Nat
  /\ SymbolResults \in BOOLEAN
  /\ RestartFrom \subseteq {"idle", "failed"}

VARIABLES
  free,            \* sym_free_first: the free list, next to be used first
  pooled,          \* how many Syms xmalloc has handed out
  cell,            \* contents of each Sym
  global_stack,    \* Syms of file scope, oldest first
  local_stack,     \* Syms of the function being compiled, oldest first
  sym_identifier,  \* newest Sym of each name (sym_struct for a tag)
  marks,           \* one record per active block(): what it saved on entry
  vstack,          \* values that refer to a symbol (VT_SYM), oldest first
  decls,           \* declarations made so far (numbers them; ghost)
  phase            \* where tcc_compile / decl / gen_function stand

heap == <<free, pooled, cell, global_stack, local_stack, sym_identifier>>
vars == <<free, pooled, cell, global_stack, local_stack, sym_identifier,
          marks, vstack, decls, phase>>

Contents == [token : Name \cup {Anon}, prev_tok : Sym \cup {NULL},
             symbolic : BOOLEAN, decl : 0 .. MaxDecls]
Mark     == [pos : Nat, is_expr : BOOLEAN, base : Nat]
Value    == [sym : Sym, decl : 0 .. MaxDecls]

TypeOK ==
  /\ free \in Seq(Sym)
  /\ pooled \in 0 .. MaxSyms
  /\ cell \in [Sym -> Contents]
  /\ global_stack \in Seq(Sym)
  /\ local_stack \in Seq(Sym)
  /\ sym_identifier \in [Name -> Sym \cup {NULL}]
  /\ marks \in Seq(Mark)
  /\ vstack \in Seq(Value)
  /\ decls \in 0 .. MaxDecls
  /\ phase \in Phase

(***************************************************************************)
(* The free list.  __sym_malloc threads a fresh batch so that its last     *)
(* element is the first to be used; sym_free pushes on the front.          *)
(***************************************************************************)
CanMalloc == free # <<>> \/ pooled + SymPoolNb <= MaxSyms

\* Mutant: the first Sym of a batch is forgotten and one past it handed out.
BatchOffByOne == IF free # <<>> THEN free
                 ELSE [i \in 1 .. SymPoolNb |-> pooled + SymPoolNb + 2 - i]

FreeList == IF free # <<>> THEN free
            ELSE [i \in 1 .. SymPoolNb |-> pooled + SymPoolNb + 1 - i]

sym_malloc == Head(FreeList)

TakeSym ==
  /\ CanMalloc
  /\ free' = Tail(FreeList)
  /\ pooled' = IF free # <<>> THEN pooled ELSE pooled + SymPoolNb

(***************************************************************************)
(* Pushing and popping                                                     *)
(***************************************************************************)

\* Declarations are numbered; a Sym no name leads to is not one (number 0).
NewDecl(n) == IF n = Anon THEN 0 ELSE decls + 1

CountDecl(n) == /\ n # Anon => decls < MaxDecls
                /\ decls' = IF n = Anon THEN decls ELSE decls + 1

\* What the freshly taken Sym holds; an Anon one keeps a stale prev_tok.
Filled(n, symbolic, prev) ==
  [cell EXCEPT ![sym_malloc] =
     [token |-> n, symbolic |-> symbolic, decl |-> NewDecl(n),
      prev_tok |-> IF n = Anon THEN @.prev_tok ELSE prev]]

Bind(n) == sym_identifier' = IF n = Anon THEN sym_identifier
                             ELSE [sym_identifier EXCEPT ![n] = sym_malloc]

\* Mutant: a new Sym forgets the one it hides.
PushForgetsHidden(n, symbolic) ==
  /\ TakeSym
  /\ CountDecl(n)
  /\ cell' = Filled(n, symbolic, NULL)
  /\ Bind(n)
  /\ IF local_stack # <<>>
     THEN local_stack' = Append(local_stack, sym_malloc) /\ UNCHANGED global_stack
     ELSE global_stack' = Append(global_stack, sym_malloc) /\ UNCHANGED local_stack

\* sym_push: the new Sym hides the older ones of its name.  The stack is
\* local_stack as soon as that is not empty.
sym_push(n, symbolic) ==
  /\ TakeSym
  /\ CountDecl(n)
  /\ cell' = Filled(n, symbolic, IF n = Anon THEN NULL ELSE sym_identifier[n])
  /\ Bind(n)
  /\ IF local_stack # <<>>
     THEN local_stack' = Append(local_stack, sym_malloc) /\ UNCHANGED global_stack
     ELSE global_stack' = Append(global_stack, sym_malloc) /\ UNCHANGED local_stack

\* global_identifier_push: the Sym goes to file scope even inside a function.
\* Its callers reach it only for a name that leads nowhere, so that the end
\* of the chain, where it is linked, is the table entry itself.
global_identifier_push(n, symbolic) ==
  /\ n # Anon => sym_identifier[n] = NULL
  /\ TakeSym
  /\ CountDecl(n)
  /\ cell' = Filled(n, symbolic, NULL)
  /\ Bind(n)
  /\ global_stack' = Append(global_stack, sym_malloc)
  /\ UNCHANGED local_stack

\* The oldest of the Syms of s above position k that bears the name n, or 0.
OldestAbove(s, k, n) ==
  LET I == {i \in (k + 1) .. Len(s) : cell[s[i]].token = n}
  IN  IF I = {} THEN 0 ELSE CHOOSE i \in I : \A j \in I : i <= j

\* Mutant: Syms are unlinked oldest first, so that the newest has the last word.
UnlinkedOldestFirst(s, k) ==
  [n \in Name |->
     LET I == {i \in (k + 1) .. Len(s) : cell[s[i]].token = n}
     IN  IF I = {} THEN sym_identifier[n]
         ELSE cell[s[CHOOSE i \in I : \A j \in I : i >= j]].prev_tok]

\* sym_pop(s, s[k]): every Sym above position k, newest first, is unlinked
\* from its name and freed; the last one unlinked for a name is the oldest.
Unlinked(s, k) ==
  [n \in Name |-> LET i == OldestAbove(s, k, n)
                  IN  IF i = 0 THEN sym_identifier[n] ELSE cell[s[i]].prev_tok]

\* Mutant: the Sym at which the pop should stop is freed too.
PopFreesMark(s, k) ==
  /\ sym_identifier' = Unlinked(s, k)
  /\ free' = SubSeq(s, IF k = 0 THEN 1 ELSE k, Len(s)) \o free
  /\ UNCHANGED <<pooled, cell>>

sym_pop(s, k) ==
  /\ sym_identifier' = Unlinked(s, k)
  /\ free' = SubSeq(s, k + 1, Len(s)) \o free
  /\ UNCHANGED <<pooled, cell>>

(***************************************************************************)
(* The translation unit                                                    *)
(***************************************************************************)
Init ==
  /\ free = <<>>
  /\ pooled = 0
  /\ cell = [s \in Sym |-> [token |-> Anon, prev_tok |-> NULL,
                            symbolic |-> FALSE, decl |-> 0]]
  /\ global_stack = <<>>
  /\ local_stack = <<>>
  /\ sym_identifier = [n \in Name |-> NULL]
  /\ marks = <<>>
  /\ vstack = <<>>
  /\ decls = 0
  /\ phase = "idle"

\* tcc_compile starts: the expression stack is reset and the Sym of
\* func_old_type is pushed.
StartCompile ==
  /\ phase \in RestartFrom
  /\ phase' = "file"
  /\ vstack' = <<>>
  /\ sym_push(Anon, FALSE)
  /\ UNCHANGED marks

\* decl(VT_CONST) met the end of file: all of file scope is popped.
EndCompile ==
  /\ phase = "file"
  /\ phase' = "idle"
  /\ sym_pop(global_stack, 0)
  /\ global_stack' = <<>>
  /\ UNCHANGED <<local_stack, marks, vstack, decls>>

\* error(): longjmp out of every block() to tcc_compile, which pops file
\* scope and returns; local_stack stays as it was.
Fail ==
  /\ phase \notin {"idle", "failed"}
  /\ phase' = "failed"
  /\ sym_pop(global_stack, 0)
  /\ global_stack' = <<>>
  /\ marks' = <<>>
  /\ UNCHANGED <<local_stack, vstack, decls>>

(***************************************************************************)
(* Functions: the declarator, the dummy Sym that turns on local storage,   *)
(* the parameters, the body.                                               *)
(***************************************************************************)
DeclareFunction(n) ==
  /\ phase = "file"
  /\ phase' = "proto"
  /\ IF sym_identifier[n] # NULL
     THEN UNCHANGED <<heap, decls>>
     ELSE global_identifier_push(n, TRUE)
  /\ UNCHANGED <<marks, vstack>>

OpenFunction ==
  /\ phase = "proto"
  /\ phase' = "params"
  /\ TakeSym
  /\ cell' = Filled(Anon, FALSE, NULL)
  /\ local_stack' = Append(local_stack, sym_malloc)
  /\ UNCHANGED <<global_stack, sym_identifier, marks, vstack, decls>>

\* gfunc_prolog pushes each parameter, a variable in the frame.
PushParam(n) ==
  /\ phase = "params"
  /\ sym_push(n, FALSE)
  /\ UNCHANGED <<marks, vstack, phase>>

\* block(NULL, ...) opens the body.
OpenBody ==
  /\ phase = "params"
  /\ phase' = "body"
  /\ marks' = <<[pos |-> Len(local_stack), is_expr |-> FALSE, base |-> 0]>>
  /\ UNCHANGED <<heap, vstack, decls>>

\* Mutant: the dummy Sym that turned on local storage stays.
EndFunctionKeepsDummy ==
  /\ phase = "body"
  /\ marks = <<>>
  /\ phase' = "file"
  /\ sym_pop(local_stack, 1)
  /\ local_stack' = SubSeq(local_stack, 1, 1)
  /\ UNCHANGED <<global_stack, marks, vstack, decls>>

EndFunction ==
  /\ phase = "body"
  /\ marks = <<>>
  /\ phase' = "file"
  /\ sym_pop(local_stack, 0)
  /\ local_stack' = <<>>
  /\ UNCHANGED <<global_stack, marks, vstack, decls>>

(***************************************************************************)
(* Blocks                                                                  *)
(***************************************************************************)
InBlock == phase = "body" /\ marks # <<>>
Here    == marks[Len(marks)]
OwnValues == Len(vstack) - Here.base

\* Between statements the block owns no value, except that the value of the
\* last statement of a statement expression waits on the stack.
BetweenStatements ==
  InBlock /\ OwnValues <= (IF Here.is_expr THEN 1 ELSE 0)

\* '{' as a statement.  The value that waited is popped; a compound statement
\* that ends a statement expression gives its value.
EnterBlock ==
  /\ BetweenStatements
  /\ Len(marks) < MaxBlocks
  /\ \E e \in {FALSE, Here.is_expr} :
       marks' = Append(marks, [pos |-> Len(local_stack), is_expr |-> e,
                               base |-> Here.base])
  /\ vstack' = SubSeq(vstack, 1, Here.base)
  /\ UNCHANGED <<heap, decls, phase>>

\* Mutant: the statement expression takes over its enclosing block's mark.
StatementExprSharesMark ==
  /\ InBlock
  /\ Len(marks) < MaxBlocks
  /\ marks' = Append(marks, [pos |-> Here.pos, is_expr |-> TRUE,
                             base |-> Len(vstack)])
  /\ UNCHANGED <<heap, vstack, decls, phase>>

\* '(' '{' in an expression: values of the enclosing expression stay below.
EnterStatementExpr ==
  /\ InBlock
  /\ Len(marks) < MaxBlocks
  /\ marks' = Append(marks, [pos |-> Len(local_stack), is_expr |-> TRUE,
                             base |-> Len(vstack)])
  /\ UNCHANGED <<heap, vstack, decls, phase>>

\* Does the block leave a value that points at one of its own Syms?
LeavesOwnSymbol ==
  \E i \in (Here.base + 1) .. Len(vstack), j \in (Here.pos + 1) .. Len(local_stack) :
     vstack[i].sym = local_stack[j]

\* '}': the Syms the block declared are popped; the value stays.
LeaveBlock ==
  /\ BetweenStatements
  /\ LeavesOwnSymbol => SymbolResults
  /\ sym_pop(local_stack, Here.pos)
  /\ local_stack' = SubSeq(local_stack, 1, Here.pos)
  /\ marks' = SubSeq(marks, 1, Len(marks) - 1)
  /\ UNCHANGED <<global_stack, vstack, decls, phase>>

(***************************************************************************)
(* Declarations                                                            *)
(***************************************************************************)

\* A local variable, a typedef or an enum constant: sym_push without a
\* look-up.  At file scope no such Sym stands for an object.
PushName(n, symbolic) ==
  /\ \/ phase = "file" /\ ~symbolic
     \/ BetweenStatements
  /\ sym_push(n, symbolic)
  /\ UNCHANGED <<marks, vstack, phase>>

\* A file-scope variable, an extern declaration, a tag: the Sym the name
\* leads to is used if there is one.
DeclareUnlessBound(n) ==
  /\ phase = "file" \/ BetweenStatements
  /\ sym_identifier[n] = NULL
  /\ sym_push(n, n \in Ident)
  /\ UNCHANGED <<marks, vstack, phase>>

\* A field, a parameter list, an array or a function type.
PushType ==
  /\ phase = "file" \/ InBlock
  /\ sym_push(Anon, FALSE)
  /\ UNCHANGED <<marks, vstack, phase>>

(***************************************************************************)
(* Expressions                                                             *)
(***************************************************************************)
PushValue(s, d) == /\ Len(vstack) < MaxValues
                   /\ vstack' = Append(vstack, [sym |-> s, decl |-> d])

\* unary() on an identifier: a symbolic one pushes a value that points at it.
UseName(n) ==
  /\ InBlock
  /\ sym_identifier[n] # NULL
  /\ cell[sym_identifier[n]].symbolic
  /\ PushValue(sym_identifier[n], cell[sym_identifier[n]].decl)
  /\ UNCHANGED <<heap, marks, decls, phase>>

\* unary() on an undeclared identifier followed by '('.
CallUndeclared(n) ==
  /\ InBlock
  /\ sym_identifier[n] = NULL
  /\ global_identifier_push(n, TRUE)
  /\ PushValue(sym_malloc, NewDecl(n))
  /\ UNCHANGED <<marks, phase>>

\* get_sym_ref: a string literal, a floating constant.
UseLiteral ==
  /\ InBlock
  /\ global_identifier_push(Anon, TRUE)
  /\ PushValue(sym_malloc, 0)
  /\ UNCHANGED <<marks, phase>>

\* vpop, or an operation consuming the value.
DropValue ==
  /\ InBlock
  /\ OwnValues > 0
  /\ vstack' = SubSeq(vstack, 1, Len(vstack) - 1)
  /\ UNCHANGED <<heap, marks, decls, phase>>

Next ==
  \/ StartCompile
  \/ EndCompile
  \/ Fail
  \/ \E n \in Ident : DeclareFunction(n)
  \/ OpenFunction
  \/ \E n \in Ident : PushParam(n)
  \/ OpenBody
  \/ EndFunction
  \/ EnterBlock
  \/ EnterStatementExpr
  \/ LeaveBlock
  \/ \E n \in Ident, symbolic \in BOOLEAN : PushName(n, symbolic)
  \/ \E n \in Name : DeclareUnlessBound(n)
  \/ PushType
  \/ \E n \in Ident : UseName(n)
  \/ \E n \in Ident : CallUndeclared(n)
  \/ UseLiteral
  \/ DropValue

Spec == Init /\ [][Next]_vars

(***************************************************************************)
(* Properties                                                              *)
(***************************************************************************)

\* All Syms in use, file scope below function scope, oldest first.
Depth == Len(global_stack) + Len(local_stack)
Order == [i \in 1 .. Depth |->
            IF i <= Len(global_stack) THEN global_stack[i]
            ELSE local_stack[i - Len(global_stack)]]

\* c is the newest of the first k Syms in use that bears the name n.
IsNewest(c, n, k) ==
  \/ /\ c = NULL
     /\ \A i \in 1 .. k : cell[Order[i]].token # n
  \/ \E i \in 1 .. k : /\ c = Order[i]
                       /\ cell[c].token = n
                       /\ \A j \in (i + 1) .. k : cell[Order[j]].token # n

\* No Sym is at once in use twice, or in use and on the free list: LIFO reuse
\* of freed Syms never hands out one that a stack still holds.
SymsDisjoint ==
  /\ \A i, j \in 1 .. Depth : i # j => Order[i] # Order[j]
  /\ \A i, j \in DOMAIN free : i # j => free[i] # free[j]
  /\ \A i \in 1 .. Depth, j \in DOMAIN free : Order[i] # free[j]

\* Every name leads to its newest Sym, and each Sym to the next older one.
ChainsInOrder ==
  /\ \A n \in Name : IsNewest(sym_identifier[n], n, Depth)
  /\ \A i \in 1 .. Depth :
       cell[Order[i]].token \in Name =>
         IsNewest(cell[Order[i]].prev_tok, cell[Order[i]].token, i - 1)

\* sym_find and struct_find give the innermost declaration of the name, and
\* following prev_tok gives the ones it hides, whatever mixture of blocks,
\* file-scope symbols pushed from inside a function and pops came before.
LookupIsInnermost == phase # "failed" => ChainsInOrder

\* A value still points at a Sym in use that holds the declaration the value
\* was made from: popping a block never pulls a Sym from under a value.
ValuesDenoteTheirSymbol ==
  phase # "failed" =>
    \A i \in DOMAIN vstack :
      /\ \E k \in 1 .. Depth : Order[k] = vstack[i].sym
      /\ cell[vstack[i].sym].decl = vstack[i].decl

(***************************************************************************)
(* The refinement: an environment is what the chains lead to, and the      *)
(* environments saved by the enclosing scopes are those of the prefixes of *)
(* local_stack that the active blocks recorded.                            *)
(***************************************************************************)
Environment(k) ==  \* with only the oldest k Syms of local_stack in place
  LET visible == SubSeq(global_stack \o local_stack, 1, Len(global_stack) + k)
  IN [n \in Name |->
        LET I == {i \in DOMAIN visible : cell[visible[i]].token = n}
        IN  IF I = {} THEN NULL
            ELSE cell[visible[CHOOSE i \in I : \A j \in I : j <= i]].decl]

Binding == [n \in Name |->
              IF phase = "failed" \/ sym_identifier[n] = NULL THEN NULL
              ELSE cell[sym_identifier[n]].decl]

\* How much of local_stack the function found, and the active blocks.
Opened == IF phase \in {"params", "body"}
          THEN <<0>> \o [i \in DOMAIN marks |-> marks[i].pos] ELSE <<>>
Saved == [i \in DOMAIN Opened |-> Environment(Opened[i])]

Lexical == INSTANCE LexicalScopes WITH
  Decl <- 1 .. MaxDecls, None <- NULL, binding <- Binding, saved <- Saved

\* The symbol tables implement lexical scoping.
ImplementsLexicalScopes == Lexical!Spec
=============================================================================

---------------------------- MODULE LexicalScopes ----------------------------
(***************************************************************************)
(* What the C language promises of names, with no Sym, no token table and  *)
(* no free list: an environment says what each name denotes, entering a    *)
(* scope saves it and leaving the scope restores it.  The one exception is *)
(* a name first met inside a function and entered at file scope (a call to *)
(* an undeclared function): every enclosing environment learns of it too.  *)
(* SymScopes is shown to implement this module.                            *)
(***************************************************************************)
EXTENDS Sequences, Naturals

CONSTANTS Name,  \* the names a program may declare
          Decl,  \* identities of declarations
          None   \* what an undeclared name denotes

VARIABLES binding,  \* binding[n]: the declaration n denotes here
          saved     \* the environments of the enclosing scopes, outermost first

scopeVars == <<binding, saved>>

Empty == [n \in Name |-> None]

Init == binding = Empty /\ saved = <<>>

\* A scope opens: names keep denoting what they denoted.
Enter == /\ saved' = Append(saved, binding)
         /\ UNCHANGED binding

\* A scope closes: every name denotes again what it denoted outside.
Leave == /\ saved # <<>>
         /\ binding' = saved[Len(saved)]
         /\ saved' = SubSeq(saved, 1, Len(saved) - 1)

\* A declaration hides whatever the name denoted, up to the end of the scope.
Declare(n, d) == /\ binding' = [binding EXCEPT ![n] = d]
                 /\ UNCHANGED saved

\* A name that denotes nothing is entered at file scope.
DeclareAtFileScope(n, d) ==
  /\ binding[n] = None
  /\ binding' = [binding EXCEPT ![n] = d]
  /\ saved' = [i \in DOMAIN saved |-> [saved[i] EXCEPT ![n] = d]]

\* The translation unit ends (or is abandoned).
EndOfUnit == binding' = Empty /\ saved' = <<>>

Next == \/ Enter
        \/ Leave
        \/ \E n \in Name, d \in Decl : Declare(n, d) \/ DeclareAtFileScope(n, d)
        \/ EndOfUnit

Spec == Init /\ [][Next]_scopeVars
=============================================================================

----------------------------- MODULE MCElfSymtab -----------------------------
(***************************************************************************)
(* An instance of ElfSymtab: names that share buckets before and after the *)
(* table grows, and object files with weak, hidden, common and local       *)
(* symbols.                                                                *)
(***************************************************************************)
EXTENDS ElfSymtab, TLC

HashValues == ("f" :> 2) @@ ("x" :> 4) @@ ("y" :> 1) @@ ("z" :> 6) @@ ("<string>" :> 3)

O(n, b, v, sh) == [name |-> n, bind |-> b, vis |-> v, shndx |-> sh]
Files ==
  {[syms |-> <<O("y", "local", Default, "data"), O("f", "weak", Hidden, "text"),
               O("x", "global", Default, "undef")>>, rels |-> {3, 1}],
   [syms |-> <<O("f", "global", Protected, "text"), O("z", "weak", Default, "undef")>>,
    rels |-> {2}],
   [syms |-> <<O("x", "global", Default, "common"), O("f", "global", Internal, "text")>>,
    rels |-> {1}]}
=============================================================================

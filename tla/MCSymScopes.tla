----------------------------- MODULE MCSymScopes -----------------------------
(* Instance of SymScopes for TLC. *)
EXTENDS SymScopes
=============================================================================

----------------------------- MODULE MCLspPool ------------------------------
(***************************************************************************)
(* Instances of LspPool.  The sessions are interchangeable, and so are the *)
(* callers.                                                                *)
(***************************************************************************)
EXTENDS LspPool, TLC

Symmetry == Permutations(Caller) \cup Permutations(Session)

=============================================================================

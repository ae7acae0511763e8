--------------------------- MODULE MCModelManager ---------------------------
(* Small instances of ModelManager for TLC.                                 *)
EXTENDS ModelManager, TLC

CONSTANTS c1, c2, p1, p2, ornith, qwen, huge

\* ornith and qwen fit (one of them only with a layer split); huge is beyond
\* four times the card's memory.
MCNeed == [t \in Model |-> CASE t = ornith -> 9 [] t = qwen -> 20 [] OTHER -> 99]

Symmetric == Permutations(Caller) \cup Permutations(Proc)

=============================================================================

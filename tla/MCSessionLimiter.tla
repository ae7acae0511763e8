-------------------------- MODULE MCSessionLimiter --------------------------
(* A small instance of SessionLimiter for TLC.                              *)
EXTENDS SessionLimiter, TLC
CONSTANTS s1, h1, h2, b1, b2, b3
Symmetric ==
    Permutations(Session) \cup Permutations(Handler) \cup Permutations(Bucket)
=============================================================================

------------------------------ MODULE Filters -------------------------------
(***************************************************************************)
(* The loops of the code that keep some members of a slice: a recursive    *)
(* function, so that the proofs can reason about it.                       *)
(***************************************************************************)
EXTENDS Naturals, Sequences

\* The members of s that lie in S, in their order.
Among(s, S) ==
    LET kept[i \in 0..Len(s)] ==
            IF i = 0 THEN <<>>
            ELSE IF s[i] \in S THEN Append(kept[i-1], s[i]) ELSE kept[i-1]
    IN  kept[Len(s)]

=============================================================================

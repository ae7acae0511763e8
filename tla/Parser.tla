------------------------------- MODULE Parser -------------------------------
(***************************************************************************)
(* internal/filewriter, Parser.Parse: from a model's response to a batch.  *)
(*                                                                         *)
(* A response is the sequence of its fenced blocks; prose is left out.  A  *)
(* block is a write, a delete or another fence, names a clean path or none *)
(* at all, and is closed or runs to the end of the response.  The content  *)
(* of a delete is never looked at.                                         *)
(***************************************************************************)
EXTENDS Naturals, FiniteSetsExt, SequencesExt, Filters

CONSTANTS
    Name,          \* the clean paths a block may name
    Content,       \* the bodies of write blocks
    NoName,        \* the info string names no path
    NoReason       \* the response parsed

ASSUME ParserAssumption ==
    NoReason \notin {"missing_path", "unclosed_fence", "duplicate_path",
                     "no_operations"}

Op == [kind : {"write", "delete"}, name : Name, content : Content]

Block == [kind : {"write", "delete", "other"}, name : Name \cup {NoName},
          content : Content, closed : BOOLEAN]

IsOp(block) == block.kind # "other"

\* An operation the parser returns when nothing is wrong with the response.
FileOp(block) ==
    [kind |-> block.kind, name |-> block.name, content |-> block.content]

Repeats(out, i) ==
    \E j \in 1..i-1 : IsOp(out[j]) /\ out[j].name = out[i].name

\* What is wrong with block i, given that nothing is wrong before it.
BlockReason(out, i) ==
    IF ~IsOp(out[i]) THEN NoReason
    ELSE IF out[i].name = NoName THEN "missing_path"
    ELSE IF ~out[i].closed THEN "unclosed_fence"
    ELSE IF Repeats(out, i) THEN "duplicate_path"
    ELSE NoReason

Wrong(out) == {i \in DOMAIN out : BlockReason(out, i) # NoReason}

ParseReason(out) ==
    IF Wrong(out) # {} THEN BlockReason(out, Min(Wrong(out)))
    ELSE IF \E i \in DOMAIN out : IsOp(out[i]) THEN NoReason
    ELSE "no_operations"

Operations(out) ==
    LET ops == Among(out, {block \in ToSet(out) : IsOp(block)})
    IN  [i \in DOMAIN ops |-> FileOp(ops[i])]

=============================================================================

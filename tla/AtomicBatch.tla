----------------------------- MODULE AtomicBatch -----------------------------
(***************************************************************************)
(* What filewriter promises: a task either changes the worktree to what    *)
(* one accepted batch asks for, in one step, or leaves it alone.           *)
(***************************************************************************)
CONSTANTS
    Loc,           \* places in the worktree
    Content,       \* file contents
    Above,         \* the directories above each place
    Batch(_),      \* what a task may be asked to do to a tree: sets of
                   \* [kind, loc, content]
    ABSENT, DIR    \* a place holds nothing, or a directory

VARIABLES tree, outcome

Writes(b) == {o \in b : o.kind = "write"}
Deletes(b) == {o \in b : o.kind = "delete"}

\* A delete of what is not there asks for nothing.
Effect(t, b) ==
    [l \in Loc |->
        IF \E o \in Writes(b) : o.loc = l
        THEN (CHOOSE o \in Writes(b) : o.loc = l).content
        ELSE IF t[l] # ABSENT /\ \E o \in Deletes(b) : o.loc = l THEN ABSENT
        ELSE IF \E o \in Writes(b) : l \in Above[o.loc] THEN DIR
        ELSE t[l]]

\* The initial tree is left to the module that implements this one.
Init == outcome = "running"

Commit ==
    /\ outcome = "running" /\ outcome' = "applied"
    /\ \E b \in Batch(tree) : tree' = Effect(tree, b)

Abort ==
    /\ outcome = "running"
    /\ outcome' = "failed"
    /\ UNCHANGED tree

Next == Commit \/ Abort

Spec == Init /\ [][Next]_<<tree, outcome>>

=============================================================================

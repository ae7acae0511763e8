----------------------------- MODULE FileWriter -----------------------------
(***************************************************************************)
(* internal/filewriter, Writer.Apply: validate and classify a whole batch, *)
(* stage and rename every write, then remove every deleted file; any       *)
(* failure runs the undos in reverse.                                      *)
(*                                                                         *)
(* The file system is a function from places to what they hold.  Every     *)
(* call of it may fail, and a failed call leaves the tree alone except     *)
(* where the system call itself may stop half-way: MkdirAll after some of  *)
(* the directories.  An undo ignores errors, so it may fail, too.  File    *)
(* modes and byte-level contents are abstracted.  One batch runs at a time *)
(* in a worktree, as the design requires, and nobody else changes links.   *)
(***************************************************************************)
EXTENDS PathSafe

VARIABLES
    fs,            \* what each place holds
    staging,       \* the place a staging file stands next to, or NULL
    phase,         \* where Apply is
    todo,          \* the planned operations that remain: writes, then deletes
    undos,         \* the undos registered so far
    changes,       \* the changes of the batch, as Apply reports them
    cancelled,     \* the task's context is done
    orig,          \* history: the worktree the task started in
    leaked,        \* history: directories left behind by a failing MkdirAll
    unrestored     \* history: places where an undo or a clean-up failed

writerVars == <<staging, phase, todo, undos, changes>>
history == <<orig, leaked, unrestored>>

\* What an operation is about: plan resolves every path before anything is touched.
Target(op) == Resolve[fs][op.name]

IsFile(l) == fs[l] \in Content

Blocked(l) == \E a \in Above[l] : IsFile(a)

Missing(l) == {a \in Above[l] : fs[a] = ABSENT}

\* What MkdirAll may have created when it fails.
Partial(l) == {S \in SUBSET Missing(l) :
                  /\ S # Missing(l)
                  /\ \A a \in S : Above[a] \cap Missing(l) \subseteq S}

-----------------------------------------------------------------------------
(* plan: validation and classification, before anything is touched.         *)

\* Defect: duplicates are recognised by path and not by target.
DistinctPaths(b) ==
    \A i, j \in DOMAIN b : i # j => b[i].name # b[j].name

Distinct(b) ==
    \A i, j \in DOMAIN b :
        i # j => Target(b[i]) # Target(b[j])

Plannable(b) ==
    /\ \A i \in DOMAIN b :
          LET l == Target(b[i])
          IN  l # NULL /\ Holds(fs, l) # DIR
    /\ Distinct(b)

\* A planned operation: created, modified, deleted, or a skipped delete, with
\* what it needs to be undone.
Planned(op) ==
    LET l == Target(op)
    IN  [loc |-> l, before |-> fs[l], content |-> op.content,
         operation |-> CASE op.kind = "delete" /\ fs[l] # ABSENT -> "delete"
                         [] op.kind = "delete" /\ fs[l] = ABSENT -> "skipped"
                         [] op.kind = "write" /\ fs[l] # ABSENT -> "modify"
                         [] OTHER -> "create"]

InstallsFile(p) == p.operation \in {"create", "modify"}
RemovesFile(p) == p.operation = "delete"

\* Defect: the operations run in batch order.
PlanInOrder(b) ==
    LET planned == [i \in DOMAIN b |-> Planned(b[i])]
    IN  /\ changes' = planned
        /\ todo' = Among(planned, {p \in ToSet(planned) : p.operation # "skipped"})

Plan(b) ==
    LET planned == [i \in DOMAIN b |-> Planned(b[i])]
    IN  /\ changes' = planned
        /\ todo' = Among(planned, {p \in ToSet(planned) : InstallsFile(p)})
                       \o Among(planned, {p \in ToSet(planned) : RemovesFile(p)})

\* DryRun reports the same plan and touches nothing.
ApplyBegin(b) ==
    /\ phase = "idle"
    /\ \/ /\ Plannable(b)
          /\ Plan(b)
          /\ phase' = "op"
       \/ /\ phase' = "failed"     \* refused, or the target cannot be read
          /\ UNCHANGED <<changes, todo>>
    /\ UNCHANGED <<fs, staging, undos, cancelled, history>>

-----------------------------------------------------------------------------
(* applyWrite and applyDelete.                                              *)

cur == Head(todo)

Rollback == phase' = "rollback"

\* Removing the staging file ignores errors, too.
Cleanup(file) ==
    /\ staging' \in {NULL, file}
    /\ unrestored' = unrestored \cup ({staging'} \ {NULL})

AtWrite == phase = "op" /\ todo # <<>> /\ InstallsFile(cur)
AtDelete == phase = "op" /\ todo # <<>> /\ RemovesFile(cur)

OpCancelled ==
    /\ AtWrite \/ AtDelete
    /\ cancelled
    /\ Rollback
    /\ UNCHANGED <<fs, staging, todo, undos, changes, cancelled, history>>

\* Defect: created directories are not tracked.
MakeDirsUntracked ==
    /\ AtWrite
    /\ ~cancelled
    /\ ~\E a \in Above[cur.loc] : Blocked(a)
    /\ fs' = [l \in Loc |-> IF l \in Missing(cur.loc) THEN DIR ELSE fs[l]]
    /\ phase' = "stage"
    /\ UNCHANGED <<staging, todo, undos, changes, cancelled, history>>

MakeDirs ==
    /\ AtWrite
    /\ ~cancelled
    /\ ~\E a \in Above[cur.loc] : Blocked(a)
    /\ fs' = [l \in Loc |-> IF l \in Missing(cur.loc) THEN DIR ELSE fs[l]]
    /\ undos' = IF Missing(cur.loc) = {} THEN undos
                ELSE Append(undos, [dirs |-> Missing(cur.loc)])
    /\ phase' = "stage"
    /\ UNCHANGED <<staging, todo, changes, cancelled, history>>

\* The directories a failing MkdirAll created are not registered for rollback.
MakeDirsFails ==
    /\ AtWrite
    /\ ~cancelled
    /\ \E S \in {{}} \cup Partial(cur.loc) :
          /\ S # {} => ~Blocked(cur.loc)
          /\ fs' = [l \in Loc |-> IF l \in S THEN DIR ELSE fs[l]]
          /\ leaked' = leaked \cup S
    /\ Rollback
    /\ UNCHANGED <<staging, todo, undos, changes, cancelled, orig, unrestored>>

\* CreateTemp, WriteString, Chmod and Close.
Stage ==
    /\ phase = "stage"
    /\ ~Blocked(cur.loc)
    /\ staging' = cur.loc
    /\ phase' = "install"
    /\ UNCHANGED <<fs, todo, undos, changes, cancelled, history>>

\* One of them fails; a staging file that exists is removed.
StageFails ==
    /\ phase = "stage"
    /\ Cleanup(cur.loc)
    /\ Blocked(cur.loc) => staging' = NULL    \* CreateTemp itself failed
    /\ Rollback
    /\ UNCHANGED <<fs, todo, undos, changes, cancelled, orig, leaked>>

Install ==
    /\ phase = "install"
    /\ fs[cur.loc] # DIR
    /\ fs' = [fs EXCEPT ![cur.loc] = cur.content]
    /\ staging' = NULL
    /\ undos' = Append(undos, [loc |-> cur.loc, prior |-> cur.before])
    /\ todo' = Tail(todo)
    /\ phase' = "op"
    /\ UNCHANGED <<changes, cancelled, history>>

\* Defect: the staging file stays when it cannot be renamed.
InstallFailsStaged ==
    /\ phase = "install"
    /\ Rollback
    /\ UNCHANGED <<fs, staging, todo, undos, changes, cancelled, history>>

InstallFails ==
    /\ phase = "install"
    /\ Cleanup(cur.loc)
    /\ Rollback
    /\ UNCHANGED <<fs, todo, undos, changes, cancelled, orig, leaked>>

Delete ==
    /\ AtDelete
    /\ ~cancelled
    /\ IsFile(cur.loc)
    /\ fs' = [fs EXCEPT ![cur.loc] = ABSENT]
    /\ undos' = Append(undos, [loc |-> cur.loc, prior |-> cur.before])
    /\ todo' = Tail(todo)
    /\ UNCHANGED <<staging, phase, changes, cancelled, history>>

DeleteFails ==
    /\ AtDelete
    /\ ~cancelled
    /\ Rollback
    /\ UNCHANGED <<fs, staging, todo, undos, changes, cancelled, history>>

Applied ==
    /\ phase = "op"
    /\ todo = <<>>
    /\ phase' = "applied"
    /\ undos' = <<>>
    /\ UNCHANGED <<fs, staging, todo, changes, cancelled, history>>

-----------------------------------------------------------------------------
(* The undos, in reverse.                                                   *)

undo == Last(undos)

UndoDirs ==
    /\ phase = "rollback"
    /\ undos # <<>>
    /\ "dirs" \in DOMAIN undo
    /\ LET used(d) == \E l \in Loc \ undo.dirs :
                         d \in Above[l] /\ (fs[l] # ABSENT \/ l = staging)
       IN  fs' = [l \in Loc |-> IF l \in undo.dirs /\ ~used(l) THEN ABSENT
                                ELSE fs[l]]
    /\ undos' = Front(undos)
    /\ UNCHANGED <<staging, phase, todo, changes, cancelled, history>>

UndoFile ==
    /\ phase = "rollback"
    /\ undos # <<>>
    /\ "loc" \in DOMAIN undo
    /\ fs' = [fs EXCEPT ![undo.loc] = undo.prior]
    /\ undos' = Front(undos)
    /\ UNCHANGED <<staging, phase, todo, changes, cancelled, history>>

\* Errors of an undo are ignored.
UndoFails ==
    /\ phase = "rollback"
    /\ undos # <<>>
    /\ unrestored' = unrestored \cup (IF "loc" \in DOMAIN undo
                                    THEN {undo.loc} ELSE undo.dirs)
    /\ undos' = Front(undos)
    /\ UNCHANGED <<fs, staging, phase, todo, changes, cancelled, orig, leaked>>

RolledBack ==
    /\ phase = "rollback"
    /\ undos = <<>>
    /\ phase' = "failed"
    /\ todo' = <<>>
    /\ UNCHANGED <<fs, staging, undos, changes, cancelled, history>>

WriterStep ==
    \/ OpCancelled \/ MakeDirs \/ MakeDirsFails \/ Stage \/ StageFails
    \/ Install \/ InstallFails \/ Delete \/ DeleteFails \/ Applied
    \/ UndoDirs \/ UndoFile \/ UndoFails \/ RolledBack

Cancel ==
    /\ ~cancelled
    /\ cancelled' = TRUE
    /\ UNCHANGED <<fs, writerVars, history>>

WriterInit ==
    /\ orig \in Trees
    /\ fs = orig
    /\ staging = NULL
    /\ phase = "idle"
    /\ todo = <<>>
    /\ undos = <<>>
    /\ changes = <<>>
    /\ cancelled = FALSE
    /\ leaked = {}
    /\ unrestored = {}

=============================================================================

------------------------------ MODULE Executor ------------------------------
(***************************************************************************)
(* internal/filewriter, Executor.Run: one implement task through the retry *)
(* ladder: up to three model calls, the first response that parses is      *)
(* applied to the worktree, and only a parse failure moves to the next     *)
(* rung.  The model and the file system may fail at every call and the     *)
(* task's context may be done at any time.                                 *)
(***************************************************************************)
EXTENDS FileWriter

CONSTANTS
    Tier,          \* the tiers a task may be routed to
    NextTier,      \* the tier above each tier, NULL at the top
    Responses      \* what a model may answer

ASSUME ExecutorAssumption ==
    /\ NextTier \in [Tier -> Tier \cup {NULL}]
    /\ Responses \subseteq Seq(Block)

VARIABLES
    at,            \* where Run is
    rung,          \* the rung being tried
    attempts,      \* model calls made
    tier,          \* the tier of the task
    lastTier,      \* the tier of the last attempt
    output,        \* the last model response
    result,        \* Result or the reason of a RunError; "running" before
    parseFailures, \* Metrics.ParseFailure: one [reason, tier] per call
    fileMetrics    \* Metrics.FilesWritten and PhantomDelete: operation counts

runVars == <<at, rung, attempts, tier, lastTier, output, result,
             parseFailures, fileMetrics>>
vars == <<fs, writerVars, cancelled, history, runVars>>

\* RD-2: the task's tier, the same tier with the strict prompt, the next up.
Ladder ==
    <<tier, tier>> \o IF NextTier[tier] = NULL THEN <<>> ELSE <<NextTier[tier]>>

Finish(reason) == at' = "done" /\ result' = reason

StartRung ==
    /\ at = "ladder"
    /\ rung <= Len(Ladder)
    /\ IF cancelled
       THEN /\ Finish("generate_failed")
            /\ UNCHANGED <<attempts, lastTier>>
       ELSE /\ at' = "generate"
            /\ attempts' = attempts + 1
            /\ lastTier' = Ladder[rung]
            /\ UNCHANGED result
    /\ UNCHANGED <<fs, writerVars, cancelled, history, rung, tier, output,
                   parseFailures, fileMetrics>>

Generated(out) ==
    /\ at = "generate"
    /\ output' = out
    /\ at' = "parse"
    /\ UNCHANGED <<fs, writerVars, cancelled, history, rung, attempts, tier,
                   lastTier, result, parseFailures, fileMetrics>>

\* Defect: a failed model call is retried on the same rung.
GenerateFailsRetry ==
    /\ at = "generate"
    /\ attempts < 5
    /\ at' = "ladder"
    /\ UNCHANGED <<fs, writerVars, cancelled, history, rung, attempts, tier,
                   lastTier, output, result, parseFailures, fileMetrics>>

GenerateFails ==
    /\ at = "generate"
    /\ Finish("generate_failed")
    /\ UNCHANGED <<fs, writerVars, cancelled, history, rung, attempts, tier,
                   lastTier, output, parseFailures, fileMetrics>>

ParseFails ==
    /\ at = "parse"
    /\ ParseReason(output) # NoReason
    /\ parseFailures' = Append(parseFailures,
                               [reason |-> ParseReason(output), tier |-> lastTier])
    /\ rung' = rung + 1
    /\ at' = "ladder"
    /\ UNCHANGED <<fs, writerVars, cancelled, history, attempts, tier, lastTier,
                   output, result, fileMetrics>>

ApplyOutput ==
    /\ at = "parse"
    /\ ParseReason(output) = NoReason
    /\ ApplyBegin(Operations(output))
    /\ at' = "apply"
    /\ UNCHANGED <<rung, attempts, tier, lastTier, output, result,
                   parseFailures, fileMetrics>>

Apply ==
    /\ at = "apply"
    /\ WriterStep
    /\ UNCHANGED runVars

\* Defect: a batch that could not be written moves to the next rung.
WriteFailedRetry ==
    /\ at = "apply"
    /\ phase = "failed"
    /\ at' = "ladder"
    /\ rung' = rung + 1
    /\ phase' = "idle"
    /\ UNCHANGED <<fs, staging, todo, undos, changes, cancelled, history,
                   attempts, tier, lastTier, output, result, parseFailures,
                   fileMetrics>>

WriteFailed ==
    /\ at = "apply"
    /\ phase = "failed"
    /\ Finish("write_failed")
    /\ UNCHANGED <<fs, writerVars, cancelled, history, rung, attempts, tier,
                   lastTier, output, parseFailures, fileMetrics>>

Count(operation) ==
    Cardinality({i \in DOMAIN changes : changes[i].operation = operation})

\* recordChanges: a skipped delete is a phantom delete, never a written file.
Succeed ==
    /\ at = "apply"
    /\ phase = "applied"
    /\ Finish("applied")
    /\ fileMetrics' = [o \in DOMAIN fileMetrics |-> fileMetrics[o] + Count(o)]
    /\ UNCHANGED <<fs, writerVars, cancelled, history, rung, attempts, tier,
                   lastTier, output, parseFailures>>

\* Defect: the loop over the ladder ends one rung late.
ExhaustedLate ==
    /\ at = "ladder"
    /\ rung > Len(Ladder) + 1
    /\ Finish("parse_failed")
    /\ UNCHANGED <<fs, writerVars, cancelled, history, rung, attempts, tier,
                   lastTier, output, parseFailures, fileMetrics>>

Exhausted ==
    /\ at = "ladder"
    /\ rung > Len(Ladder)
    /\ Finish("parse_failed")
    /\ UNCHANGED <<fs, writerVars, cancelled, history, rung, attempts, tier,
                   lastTier, output, parseFailures, fileMetrics>>

CancelRun ==
    /\ at # "done"
    /\ Cancel
    /\ UNCHANGED runVars

Step ==
    \/ StartRung \/ (\E out \in Responses : Generated(out)) \/ GenerateFails
    \/ ParseFails \/ ApplyOutput \/ Apply \/ WriteFailed \/ Succeed \/ Exhausted

Next == Step \/ CancelRun

Init ==
    /\ WriterInit
    /\ at = "ladder"
    /\ rung = 1
    /\ attempts = 0
    /\ tier \in Tier
    /\ lastTier = tier
    /\ output = <<>>
    /\ result = "running"
    /\ parseFailures = <<>>
    /\ fileMetrics = [o \in {"create", "modify", "delete", "skipped"} |-> 0]

Spec == Init /\ [][Next]_vars

\* A model call returns (its context is bounded) and so does every system call.
FairSpec == Spec /\ WF_vars(Step)

-----------------------------------------------------------------------------
Plans ==
    [loc : Loc, before : Content \cup {ABSENT}, content : Content,
     operation : DOMAIN fileMetrics]

\* The types, and that a rung, an attempt count and a ladder position agree.
TypeOK ==
    /\ fs \in [Loc -> Held]
    /\ staging \in Loc \cup {NULL}
    /\ phase \in {"idle", "op", "stage", "install", "rollback", "applied", "failed"}
    /\ todo \in Seq(Plans) /\ changes \in Seq(Plans)
    /\ undos \in Seq([loc : Loc, prior : Content \cup {ABSENT}]
                        \cup [dirs : SUBSET Loc])
    /\ cancelled \in BOOLEAN
    /\ orig \in Trees /\ leaked \subseteq Loc /\ unrestored \subseteq Loc
    /\ at \in {"ladder", "generate", "parse", "apply", "done"}
    /\ rung \in 1..Len(Ladder) + 1 /\ attempts \in rung-1..rung
    /\ tier \in Tier /\ lastTier \in Tier
    /\ output \in Responses \cup {<<>>}
    /\ result \in {"running", "applied", "write_failed", "parse_failed",
                   "generate_failed"}
    /\ fileMetrics \in [{"create", "modify", "delete", "skipped"} -> Nat]

\* A task spends a model call only on what can still be fixed: a response that
\* does not parse.  Every earlier call failed to parse, the ladder is climbed to
\* its end before the task gives up on parsing, and once a response reached the
\* worktree (applied or refused) no further call is made (executor.go:195-241).
AttemptsAccounted ==
    /\ Len(parseFailures) = rung - 1
    /\ \A i \in DOMAIN parseFailures : parseFailures[i].tier = Ladder[i]
    /\ attempts > 0 => lastTier = Ladder[attempts]
    /\ result = "parse_failed" => attempts = Len(Ladder)
    /\ phase # "idle" => attempts = rung
    /\ result \in {"applied", "write_failed"} => Len(parseFailures) = attempts - 1

\* No staging file outlives its batch, unless its removal failed.
StagingEnds ==
    phase \in {"op", "applied", "failed"} =>
        staging = NULL \/ staging \in unrestored

\* What a successful task reports is what happened to the worktree: a created
\* file did not exist, a modified one did, a skipped delete found nothing, and
\* whatever else is different is a directory a write needed, be it in the place
\* of a skipped delete (writer.go:99-112, apply.go:79-93).
ChangesAreTrue ==
    result = "applied" =>
        /\ \A i \in DOMAIN changes :
              LET c == changes[i]
              IN  CASE c.operation = "create" ->
                            orig[c.loc] = ABSENT /\ fs[c.loc] = c.content
                    [] c.operation = "modify" ->
                            orig[c.loc] \in Content /\ fs[c.loc] = c.content
                    [] c.operation = "delete" ->
                            orig[c.loc] \in Content /\ fs[c.loc] = ABSENT
                    [] OTHER -> orig[c.loc] = ABSENT /\ fs[c.loc] \in {ABSENT, DIR}
        /\ \A l \in Loc : fs[l] # orig[l] =>
              \E i \in DOMAIN changes :
                  \/ l = changes[i].loc
                  \/ l \in Above[changes[i].loc] /\ fs[l] = DIR
        /\ \A o \in DOMAIN fileMetrics : fileMetrics[o] = Count(o)

\* Nothing but the worktree is ever touched, neither half-way through a batch nor
\* by its rollback: what lies outside keeps what it holds, whatever links lead
\* there, and no link is replaced by a file (pathsafe.go:168-218).
WorktreeOnly ==
    /\ \A l \in Loc : ~IsPrefix(Root, l) \/ orig[l] = LINK => fs[l] = orig[l]
    /\ staging # NULL => IsPrefix(Root, staging)

\* What a successful task wrote is found again under the name it was given: the
\* place Resolve worked out before the directories existed is the one the system
\* finds once they do, and a deleted name finds no file (pathsafe.go:200-212).
ReadsBack ==
    result = "applied" =>
        \A o \in ToSet(Operations(output)) :
            LET held == Holds(fs, Found(fs, Rel[o.name])[Len(Rel[o.name])])
            IN  IF o.kind = "write" THEN held = o.content ELSE held \notin Content

\* A file the batch deletes is removed only once every write of the batch is in
\* place (apply.go:53-54).
DeletesLast ==
    [][\A l \in Loc : IsFile(l) /\ fs'[l] = ABSENT /\ phase = "op" =>
           \A i \in DOMAIN changes :
               InstallsFile(changes[i]) => fs[changes[i].loc] = changes[i].content]_vars

\* A task is a single atomic change of the worktree, or none: until it succeeds
\* an observer at the task's end sees the original tree, and then the effect of
\* one batch, whatever was tried before.  Places where the rollback itself could
\* not be completed are excepted, with the directories they lie in.
Excused(l) ==
    \E x \in leaked \cup unrestored : l = x \/ l \in Above[x]

Shown ==
    IF result = "running" THEN orig
    ELSE [l \in Loc |-> IF Excused(l) THEN orig[l] ELSE fs[l]]

\* The batch a response asks for, in a tree: a set of [kind, loc, content].
Asked(t, out) ==
    {[kind |-> o.kind, loc |-> Resolve[t][o.name], content |-> o.content] :
       o \in ToSet(Operations(out))}

Acceptable(t, out) ==
    /\ ParseReason(out) = NoReason
    /\ \A b \in Asked(t, out) : b.loc # NULL /\ Holds(t, b.loc) # DIR
    /\ Cardinality(Asked(t, out)) = Len(Operations(out))
    /\ \A b, c \in Asked(t, out) : b # c => b.loc # c.loc

Batches(t) == {Asked(t, out) : out \in {r \in Responses : Acceptable(t, r)}}

A == INSTANCE AtomicBatch WITH
         Batch <- Batches, tree <- Shown,
         outcome <- IF result \in {"running", "applied"} THEN result ELSE "failed"

Atomic == A!Spec

\* Every task ends: no retry and no undo runs forever (executor.go:195-247).
RunEnds == <>(result # "running")

=============================================================================

--------------------------- MODULE ExecutorProofs ---------------------------
(***************************************************************************)
(* Theorems about Executor for every ladder, every set of responses and    *)
(* every worktree.                                                         *)
(***************************************************************************)
EXTENDS Executor, PathSafeProofs, FiniteSetTheorems

Reasons == {NoReason, "missing_path", "unclosed_fence", "duplicate_path",
            "no_operations"}

LadderTypes ==
    /\ tier \in Tier
    /\ rung \in Nat \ {0} /\ rung <= Len(Ladder) + 1
    /\ attempts \in Nat
    /\ parseFailures \in Seq([reason : Reasons, tier : Tier])

\* Where Run is in its loop, against what it has spent.
Position ==
    /\ at \in {"ladder", "generate", "parse", "apply", "done"}
    /\ at = "ladder" => attempts = rung - 1 /\ phase = "idle"
    /\ at \in {"generate", "parse"} =>
          attempts = rung /\ rung <= Len(Ladder) /\ phase = "idle"
    /\ at = "apply" => attempts = rung
    /\ attempts <= Len(Ladder)
    /\ at # "done" => result = "running"

IInv == LadderTypes /\ Position /\ AttemptsAccounted

\* The ladder has the task's tier twice and at most one tier above.
LEMMA LadderShape ==
    ASSUME tier \in Tier
    PROVE  Ladder \in Seq(Tier) /\ Len(Ladder) \in {2, 3}
  BY ExecutorAssumption DEF Ladder

\* Ladder depends on the task's tier only.
LEMMA LadderFixed ==
    ASSUME tier' = tier
    PROVE  Ladder' = Ladder
  BY DEF Ladder

LEMMA ReasonType == ParseReason(output) \in Reasons
  BY DEF ParseReason, BlockReason, Reasons

LEMMA InitIInv == Init => IInv
  <1> SUFFICES ASSUME Init PROVE IInv
    OBVIOUS
  <1>1. Ladder \in Seq(Tier) /\ Len(Ladder) \in {2, 3}
    BY LadderShape DEF Init
  <1> QED
    BY <1>1 DEF Init, WriterInit, IInv, LadderTypes, Position, AttemptsAccounted

LEMMA StepIInv == IInv /\ [Next]_vars => IInv'
  <1> SUFFICES ASSUME IInv, [Next]_vars PROVE IInv'
    OBVIOUS
  <1> USE DEF IInv, LadderTypes
  <1>0. tier' = tier
    BY DEF Next, Step, vars, runVars, StartRung, Generated, GenerateFails,
           ParseFails, ApplyOutput, Apply, WriteFailed, Succeed, Exhausted,
           CancelRun
  <1>1. Ladder' = Ladder /\ Ladder \in Seq(Tier) /\ Len(Ladder) \in {2, 3}
    BY <1>0, LadderShape, LadderFixed
  <1> HIDE DEF Ladder
  <1>2. CASE StartRung
    BY <1>1, <1>2 DEF StartRung, Position, AttemptsAccounted, Finish, writerVars
  <1>3. CASE \E out \in Responses : Generated(out)
    BY <1>1, <1>3 DEF Generated, Position, AttemptsAccounted, writerVars
  <1>4. CASE GenerateFails
    BY <1>1, <1>4 DEF GenerateFails, Position, AttemptsAccounted, Finish, writerVars
  <1>5. CASE ParseFails
    <2> DEFINE failure == [reason |-> ParseReason(output), tier |-> lastTier]
    <2>1. /\ attempts = rung /\ attempts > 0 /\ rung <= Len(Ladder)
          /\ lastTier = Ladder[rung] /\ lastTier \in Tier
      BY <1>1, <1>5 DEF ParseFails, Position, AttemptsAccounted
    <2>2. failure \in [reason : Reasons, tier : Tier]
      BY <2>1, ReasonType
    <2> HIDE DEF failure
    <2>3. parseFailures' = Append(parseFailures, failure) /\ failure.tier = lastTier
      BY <1>5 DEF ParseFails, failure
    <2>4. /\ parseFailures' \in Seq([reason : Reasons, tier : Tier])
          /\ Len(parseFailures') = Len(parseFailures) + 1
          /\ \A i \in DOMAIN parseFailures' : parseFailures'[i].tier = Ladder[i]
      BY <2>1, <2>2, <2>3 DEF AttemptsAccounted
    <2> QED
      BY <1>1, <1>5, <2>1, <2>4 DEF ParseFails, Position, AttemptsAccounted, writerVars
  <1>6. CASE ApplyOutput
    BY <1>1, <1>6 DEF ApplyOutput, Position, AttemptsAccounted
  <1>7. CASE Apply
    BY <1>1, <1>7 DEF Apply, Position, AttemptsAccounted, runVars
  <1>8. CASE WriteFailed
    BY <1>1, <1>8 DEF WriteFailed, Position, AttemptsAccounted, Finish, writerVars
  <1>9. CASE Succeed
    BY <1>1, <1>9 DEF Succeed, Position, AttemptsAccounted, Finish, writerVars
  <1>10. CASE Exhausted
    BY <1>1, <1>10 DEF Exhausted, Position, AttemptsAccounted, Finish, writerVars
  <1>11. CASE CancelRun
    BY <1>1, <1>11 DEF CancelRun, Cancel, Position, AttemptsAccounted, runVars,
                       writerVars
  <1>12. CASE UNCHANGED vars
    BY <1>1, <1>12 DEF vars, Position, AttemptsAccounted, runVars, writerVars
  <1> QED
    BY <1>2, <1>3, <1>4, <1>5, <1>6, <1>7, <1>8, <1>9, <1>10, <1>11, <1>12
    DEF Next, Step

\* A task calls the model once per rung it really climbed, and never again after
\* a response reached the worktree.
THEOREM Accounted == Spec => []AttemptsAccounted
  <1>1. IInv => AttemptsAccounted
    BY DEF IInv
  <1> QED
    BY <1>1, InitIInv, StepIInv, PTL DEF Spec

\* No task makes more than three model calls.
THEOREM AtMostThreeCalls == Spec => [](attempts <= 3)
  <1>1. IInv => attempts <= 3
    BY LadderShape DEF IInv, LadderTypes, Position, AttemptsAccounted
  <1> QED
    BY <1>1, InitIInv, StepIInv, PTL DEF Spec


-----------------------------------------------------------------------------
(* The writer's invariant.                                                  *)

Operation == {"create", "modify", "delete", "skipped"}

PlanType == [loc : Loc, before : Content \cup {ABSENT}, content : Content,
             operation : Operation]

UndoFileType == [loc : Loc, prior : Content \cup {ABSENT}]
UndoDirsType == [dirs : SUBSET Loc]

\* The batch being applied, and what is left of it.
Planning == ToSet(changes)
Left == ToSet(todo)

Changing(c) == InstallsFile(c) \/ RemovesFile(c)

Running == phase \in {"op", "stage", "install", "applied"}

WriterTypes ==
    /\ fs \in [Loc -> Held]
    /\ staging \in Loc \cup {NULL}
    /\ phase \in {"idle", "op", "stage", "install", "rollback", "applied", "failed"}
    /\ todo \in Seq(PlanType) /\ changes \in Seq(PlanType)
    /\ undos \in Seq(UndoFileType \cup UndoDirsType)
    /\ cancelled \in BOOLEAN
    /\ orig \in Trees /\ leaked \subseteq Loc /\ unrestored \subseteq Loc

\* What plan found out about the place of an operation.
SoundPlan(t, c) ==
    /\ IsPrefix(Root, c.loc) /\ c.before = t[c.loc]
    /\ \A a \in Above[c.loc] : t[a] \in {DIR, ABSENT}
    /\ c.operation \in {"modify", "delete"} => t[c.loc] \in Content
    /\ c.operation \in {"create", "skipped"} => t[c.loc] = ABSENT

\* What is left is a part of the batch, writes before deletes; nothing has failed.
Queue ==
    Running =>
      /\ \A c \in Planning : SoundPlan(orig, c)
      /\ \A c, d \in Planning : c.loc = d.loc => c = d
      /\ Left \subseteq {c \in Planning : Changing(c)}
      /\ \A i, j \in DOMAIN todo : todo[i] = todo[j] => i = j
      /\ \A i, j \in DOMAIN todo :
            i < j /\ RemovesFile(todo[i]) => RemovesFile(todo[j])
      /\ \A c \in Planning \ Left :
            RemovesFile(c) => \A d \in Left : RemovesFile(d)
      /\ phase \in {"stage", "install"} => todo # <<>> /\ InstallsFile(cur)
      /\ phase = "applied" => todo = <<>>
      /\ leaked = {} /\ unrestored = {}

Places(u) == IF "loc" \in DOMAIN u THEN {u.loc} ELSE u.dirs

\* What is no longer left has happened, and nothing else has but the directories
\* it needed; the tree stays one.
Effects ==
    Running =>
      /\ \A c \in Planning \ Left :
            /\ InstallsFile(c) => fs[c.loc] = c.content
            /\ RemovesFile(c) => fs[c.loc] = ABSENT
      /\ \A l \in Loc : fs[l] # orig[l] =>
            \/ \E c \in Planning \ Left : Changing(c) /\ c.loc = l
            \/ /\ fs[l] = DIR /\ orig[l] = ABSENT
               /\ \E c \in Planning : InstallsFile(c) /\ l \in Above[c.loc]
      /\ \A l \in Loc : fs[l] # ABSENT => \A a \in Above[l] : fs[a] = DIR
      /\ phase \in {"stage", "install"} => Missing(cur.loc) = {}
      /\ phase = "install" => ~Blocked(cur.loc)
      /\ \A k \in DOMAIN undos : \A l \in Places(undos[k]) :
            fs[l] # ABSENT \/ orig[l] # ABSENT

\* Whatever differs from the original tree is excused or will be undone, later
\* directories before what lies beneath them: none does.
Undoable ==
    phase # "applied" =>
      /\ \A l \in Loc : fs[l] # orig[l] =>
            Excused(l) \/ \E k \in DOMAIN undos : l \in Places(undos[k])
      /\ \A k \in DOMAIN undos :
            IF "loc" \in DOMAIN undos[k] THEN undos[k].prior = orig[undos[k].loc]
            ELSE \A d \in undos[k].dirs : orig[d] = ABSENT
      /\ \A j, k \in DOMAIN undos : j < k /\ "dirs" \in DOMAIN undos[k] =>
            \A d \in undos[k].dirs, l \in Places(undos[j]) : d \notin Above[l]

Staged ==
    /\ phase = "install" => staging = cur.loc
    /\ phase # "install" =>
          staging = NULL \/ (phase \in {"rollback", "failed"} /\ staging \in unrestored)
    /\ staging # NULL => IsPrefix(Root, staging)

Confined ==
    \A l \in Loc : fs[l] # orig[l] => IsPrefix(Root, l) /\ orig[l] \notin {LINK, DIR}

Untouched ==
    /\ phase = "idle" => /\ fs = orig /\ staging = NULL /\ todo = <<>> /\ undos = <<>>
                         /\ changes = <<>> /\ leaked = {} /\ unrestored = {}
    /\ phase = "failed" => undos = <<>>

WInv == WriterTypes /\ Queue /\ Effects /\ Undoable /\ Staged /\ Confined /\ Untouched

\* What is different is not excused while nothing has failed.
LEMMA NothingExcused ==
  ASSUME leaked = {}, unrestored = {}
  PROVE  \A l : ~Excused(l)
  BY DEF Excused

\* While a batch runs, directories and links of the original tree are still there.
LEMMA KeepsWays ==
  ASSUME WInv
  PROVE  /\ \A l \in Loc : orig[l] \in {DIR, LINK} => fs[l] = orig[l]
         /\ orig \in [Loc -> Held] /\ fs \in [Loc -> Held]
  BY PathAssumption DEF WInv, WriterTypes, Confined

LEMMA InitWInv == Init => WInv
<1> SUFFICES ASSUME Init PROVE WInv
  OBVIOUS
<1>1. /\ orig \in Trees /\ fs = orig /\ staging = NULL /\ phase = "idle"
      /\ todo = <<>> /\ undos = <<>> /\ changes = <<>> /\ cancelled = FALSE
      /\ leaked = {} /\ unrestored = {}
  BY DEF Init, WriterInit
<1>2. orig \in [Loc -> Held]
  BY <1>1, PathAssumption
<1>3. WriterTypes
  <2>1. fs \in [Loc -> Held]
    BY <1>1, <1>2
  <2>2. <<>> \in Seq(PlanType) /\ <<>> \in Seq(UndoFileType \cup UndoDirsType)
    OBVIOUS
  <2>3. todo \in Seq(PlanType) /\ changes \in Seq(PlanType)
        /\ undos \in Seq(UndoFileType \cup UndoDirsType)
    BY <1>1, <2>2
  <2> QED
    BY <1>1, <2>1, <2>3 DEF WriterTypes
<1>4. Undoable
  BY <1>1 DEF Undoable
<1> QED
  BY <1>1, <1>3, <1>4 DEF WInv, Queue, Effects, Staged, Confined, Untouched, Running

\* A step that leaves the tree and the writer alone.
LEMMA FrameWInv ==
  ASSUME WInv, UNCHANGED <<fs, writerVars, history>>, cancelled' \in BOOLEAN
  PROVE  WInv'
<1> USE DEF writerVars, history
<1>1. /\ Planning' = Planning /\ Left' = Left /\ Running' = Running
      /\ \A l : Excused(l)' = Excused(l)
  BY DEF Planning, Left, Running, Excused
<1>2. WriterTypes'
  BY DEF WInv, WriterTypes
<1>3. Queue'
  BY <1>1 DEF WInv, Queue, cur
<1>4. Effects'
  BY <1>1 DEF WInv, Effects, cur, Missing, Blocked, IsFile
<1>5. Undoable'
  BY <1>1 DEF WInv, Undoable
<1>6. Staged' /\ Confined' /\ Untouched'
  BY DEF WInv, Staged, Confined, Untouched, cur
<1> QED
  BY <1>2, <1>3, <1>4, <1>5, <1>6 DEF WInv


\* The plan of an operation in tree t.
PlanOf(t, op) ==
    LET l == Resolve[t][op.name]
    IN  [loc |-> l, before |-> t[l], content |-> op.content,
         operation |-> CASE op.kind = "delete" /\ t[l] # ABSENT -> "delete"
                         [] op.kind = "delete" /\ t[l] = ABSENT -> "skipped"
                         [] op.kind = "write" /\ t[l] # ABSENT -> "modify"
                         [] OTHER -> "create"]

\* cs is the plan of response out in tree t.
PlanFor(t, out, cs) ==
    LET b == Operations(out)
    IN  /\ out \in Responses /\ ParseReason(out) = NoReason
        /\ \A i \in DOMAIN b : /\ Resolve[t][b[i].name] # NULL
                               /\ Holds(t, Resolve[t][b[i].name]) # DIR
        /\ \A i, j \in DOMAIN b :
              i # j => Resolve[t][b[i].name] # Resolve[t][b[j].name]
        /\ cs = [i \in DOMAIN b |-> PlanOf(t, b[i])]

LEMMA PlanOfFacts ==
  ASSUME NEW t \in Trees, NEW op \in Op, NEW l, l = Resolve[t][op.name],
         l # NULL, Holds(t, l) # DIR
  PROVE  /\ PlanOf(t, op) \in PlanType /\ SoundPlan(t, PlanOf(t, op))
         /\ PlanOf(t, op).loc = l /\ PlanOf(t, op).content = op.content
         /\ InstallsFile(PlanOf(t, op)) <=> op.kind = "write"
         /\ RemovesFile(PlanOf(t, op)) <=> op.kind = "delete" /\ t[l] # ABSENT
         /\ \E m : Resolution(t, Rel[op.name], l, m)
         /\ Rel[op.name] \in Seq(Component)
<1>1. op.name \in Name /\ op.kind \in {"write", "delete"} /\ op.content \in Content
  BY DEF Op
<1>2. /\ l \in Loc /\ IsPrefix(Root, l) /\ t[l] \in Content \cup {ABSENT}
      /\ \A a \in Above[l] : t[a] \in {DIR, ABSENT}
      /\ Rel[op.name] \in Seq(Component)
      /\ \E m : Resolution(t, Rel[op.name], l, m)
  BY <1>1, TargetFacts
<1> DEFINE c == PlanOf(t, op)
<1>3. /\ c.loc = l /\ c.before = t[l] /\ c.content = op.content
      /\ c.operation = CASE op.kind = "delete" /\ t[l] # ABSENT -> "delete"
                         [] op.kind = "delete" /\ t[l] = ABSENT -> "skipped"
                         [] op.kind = "write" /\ t[l] # ABSENT -> "modify"
                         [] OTHER -> "create"
      /\ c = [loc |-> l, before |-> t[l], content |-> op.content, operation |-> c.operation]
  BY DEF PlanOf
<1> HIDE DEF c
<1>4. /\ c.operation \in Operation
      /\ c.operation \in {"create", "modify"} <=> op.kind = "write"
      /\ c.operation \in {"modify", "delete"} <=> t[l] # ABSENT
  BY <1>1, <1>3 DEF Operation
<1>5. c \in PlanType
  BY <1>1, <1>2, <1>3, <1>4 DEF PlanType
<1>6. SoundPlan(t, c)
  BY <1>2, <1>3, <1>4 DEF SoundPlan
<1>7. InstallsFile(c) <=> op.kind = "write"
  BY <1>4 DEF InstallsFile
<1>8. RemovesFile(c) <=> op.kind = "delete" /\ t[l] # ABSENT
  BY <1>1, <1>3 DEF RemovesFile
<1> QED
  BY <1>2, <1>3, <1>5, <1>6, <1>7, <1>8 DEF c

LEMMA PlanForFacts ==
  ASSUME NEW t \in Trees, NEW out, NEW cs, PlanFor(t, out, cs)
  PROVE  LET b == Operations(out)
         IN  /\ b \in Seq(Op) /\ cs \in Seq(PlanType) /\ Len(cs) = Len(b)
             /\ \A i \in 1..Len(b) : /\ cs[i] = PlanOf(t, b[i])
                                     /\ Resolve[t][b[i].name] # NULL
                                     /\ Holds(t, Resolve[t][b[i].name]) # DIR
             /\ \A c \in ToSet(cs) : SoundPlan(t, c)
             /\ \A i, j \in 1..Len(cs) : cs[i].loc = cs[j].loc => i = j
<1> DEFINE b == Operations(out)
<1>1. b \in Seq(Op)
  BY OperationsType, ExecutorAssumption DEF PlanFor
<1>2. /\ \A i \in DOMAIN b : /\ Resolve[t][b[i].name] # NULL
                             /\ Holds(t, Resolve[t][b[i].name]) # DIR
      /\ \A i, j \in DOMAIN b :
            i # j => Resolve[t][b[i].name] # Resolve[t][b[j].name]
      /\ cs = [i \in DOMAIN b |-> PlanOf(t, b[i])]
  BY DEF PlanFor
<1> HIDE DEF b
<1>3. DOMAIN b = 1..Len(b) /\ Len(b) \in Nat /\ \A i \in 1..Len(b) : b[i] \in Op
  BY <1>1
<1>4. ASSUME NEW i \in 1..Len(b)
      PROVE  /\ cs[i] = PlanOf(t, b[i]) /\ cs[i] \in PlanType /\ SoundPlan(t, cs[i])
             /\ cs[i].loc = Resolve[t][b[i].name]
  BY <1>2, <1>3, PlanOfFacts
<1>5. cs \in Seq(PlanType) /\ Len(cs) = Len(b)
  <2>1. cs = [i \in 1..Len(b) |-> cs[i]]
    BY <1>2, <1>3
  <2> QED
    BY <1>3, <1>4, <2>1
<1>6. \A c \in ToSet(cs) : SoundPlan(t, c)
  BY <1>4, <1>5, ToSetMember
<1>7. \A i, j \in 1..Len(cs) : cs[i].loc = cs[j].loc => i = j
  BY <1>2, <1>3, <1>4, <1>5
<1> QED
  BY <1>1, <1>2, <1>3, <1>4, <1>5, <1>6, <1>7 DEF b


LEMMA StillExcused ==
  ASSUME leaked \subseteq leaked', unrestored \subseteq unrestored'
  PROVE  \A l : Excused(l) => Excused(l)'
  BY DEF Excused

\* A batch begins: it is refused, or its plan is what the response asks for.
LEMMA BeginWInv ==
  ASSUME WInv, output \in Responses, ParseReason(output) = NoReason,
         ApplyBegin(Operations(output))
  PROVE  WInv' /\ (phase' = "op" => PlanFor(orig, output, changes'))
<1> DEFINE b == Operations(output)
           planned == [i \in DOMAIN b |-> Planned(b[i])]
           S == {p \in ToSet(planned) : InstallsFile(p)}
           T == {p \in ToSet(planned) : RemovesFile(p)}
<1>1. /\ phase = "idle" /\ fs = orig /\ staging = NULL /\ todo = <<>> /\ undos = <<>>
      /\ changes = <<>> /\ leaked = {} /\ unrestored = {}
      /\ UNCHANGED <<fs, staging, undos, cancelled, orig, leaked, unrestored>>
  BY DEF ApplyBegin, WInv, Untouched, history
<1>2. WriterTypes
  BY DEF WInv
<1>3. CASE phase' = "failed" /\ UNCHANGED <<changes, todo>>
  <2>1. WriterTypes' /\ ~Running'
    BY <1>1, <1>2, <1>3 DEF WriterTypes, Running
  <2>2. Undoable' /\ Staged' /\ Confined' /\ Untouched'
    BY <1>1, <1>3 DEF Undoable, Staged, Confined, Untouched
  <2> QED
    BY <2>1, <2>2, <1>3 DEF WInv, Queue, Effects
<1>4. CASE Plannable(b) /\ Plan(b) /\ phase' = "op"
  <2>1. PlanFor(orig, output, planned)
    <3>1. \A op : Planned(op) = PlanOf(orig, op)
      BY <1>1 DEF Planned, PlanOf, Target
    <3>2. planned = [i \in DOMAIN b |-> PlanOf(orig, b[i])]
      BY <3>1
    <3> QED
      BY <1>1, <1>4, <3>2 DEF PlanFor, Plannable, Distinct, Target
  <2>2. /\ planned \in Seq(PlanType)
        /\ \A c \in ToSet(planned) : SoundPlan(orig, c)
        /\ \A i, j \in 1..Len(planned) : planned[i].loc = planned[j].loc => i = j
    BY <2>1, <1>2, PlanForFacts DEF WriterTypes
  <2>3. changes' = planned /\ todo' = Among(planned, S) \o Among(planned, T)
    BY <1>4 DEF Plan
  <2> HIDE DEF planned
  <2>4. /\ S \cap T = {} /\ S \cup T = {p \in ToSet(planned) : Changing(p)}
        /\ \A i, j \in 1..Len(planned) : planned[i] = planned[j] => i = j
    BY <2>2 DEF InstallsFile, RemovesFile, Changing
  <2>5. \A c, d \in ToSet(planned) : c.loc = d.loc => c = d
    BY <2>2, ToSetMember
  <2> DEFINE q == Among(planned, S) \o Among(planned, T)
  <2>6. /\ q \in Seq(PlanType)
        /\ ToSet(q) = {x \in ToSet(planned) : x \in S \cup T}
        /\ \A i, j \in 1..Len(q) : q[i] = q[j] => i = j
        /\ \A i, j \in 1..Len(q) : i < j /\ q[i] \in T => q[j] \in T
    <3> HIDE DEF S, T
    <3> QED
      BY <2>2, <2>4, AmongBoth
  <2>7. todo' = q /\ Left' = ToSet(q) /\ Planning' = ToSet(planned)
    BY <2>3 DEF Left, Planning
  <2> HIDE DEF q
  <2>8. \A i \in 1..Len(q) : q[i] \in ToSet(planned)
    <3>1. q \in Seq(PlanType)
      BY <2>6
    <3>2. \A i \in 1..Len(q) : q[i] \in ToSet(q)
      BY <3>1, ToSetMember
    <3> QED
      BY <3>2, <2>6
  <2>9. WriterTypes'
    BY <1>1, <1>2, <1>4, <2>2, <2>3, <2>6, <2>7 DEF WriterTypes
  <2>10. Queue'
    <3>1. Left' = {c \in Planning' : Changing(c)}
      BY <2>4, <2>6, <2>7
    <3>2. \A i, j \in DOMAIN todo' :
             i < j /\ RemovesFile(todo'[i]) => RemovesFile(todo'[j])
      BY <2>6, <2>7, <2>8
    <3>3. \A i, j \in DOMAIN todo' : todo'[i] = todo'[j] => i = j
      BY <2>6, <2>7
    <3>4. \A c \in Planning' \ Left' : ~RemovesFile(c)
      BY <3>1 DEF Changing
    <3> QED
      BY <1>1, <1>4, <2>2, <2>5, <2>7, <3>1, <3>2, <3>3, <3>4 DEF Queue
  <2>11. Effects'
    <3>1. \A c \in Planning' \ Left' : ~InstallsFile(c) /\ ~RemovesFile(c)
      BY <2>4, <2>6, <2>7 DEF Changing
    <3>2. \A l \in Loc : orig[l] # ABSENT => \A a \in Above[l] : orig[a] = DIR
      BY <1>2, PathAssumption DEF WriterTypes
    <3> QED
      BY <1>1, <1>4, <3>1, <3>2 DEF Effects
  <2>12. Undoable' /\ Staged' /\ Confined' /\ Untouched'
    BY <1>1, <1>4 DEF Undoable, Staged, Confined, Untouched
  <2> QED
    BY <2>1, <2>3, <2>9, <2>10, <2>11, <2>12 DEF WInv
<1> QED
  BY <1>3, <1>4 DEF ApplyBegin

-----------------------------------------------------------------------------
(* The writer's steps.                                                      *)

\* A step fails and has left nothing but, perhaps, a staging file.
LEMMA RollbackWInv ==
  ASSUME WInv, phase # "applied", phase' = "rollback",
         UNCHANGED <<fs, todo, undos, changes, cancelled, orig, leaked>>,
         unrestored \subseteq unrestored', unrestored' \subseteq Loc,
         staging' \in Loc \cup {NULL},
         staging' # NULL => staging' \in unrestored' /\ IsPrefix(Root, staging')
  PROVE  WInv'
<1>1. WriterTypes' /\ ~Running'
  BY DEF WInv, WriterTypes, Running
<1>2. Undoable'
  BY StillExcused DEF WInv, Undoable
<1>3. Staged' /\ Confined' /\ Untouched'
  BY DEF WInv, Staged, Confined, Untouched
<1> QED
  BY <1>1, <1>2, <1>3 DEF WInv, Queue, Effects

\* The operation at the head of what is left.
LEMMA CurrentFacts ==
  ASSUME WInv, Running, todo # <<>>
  PROVE  /\ cur \in PlanType /\ cur \in Left /\ cur \in Planning
         /\ SoundPlan(orig, cur) /\ cur.loc \in Loc /\ Changing(cur)
         /\ Tail(todo) \in Seq(PlanType)
         /\ ToSet(Tail(todo)) = Left \ {cur}
         /\ Planning \subseteq PlanType /\ Left \subseteq Planning
<1>1. todo \in Seq(PlanType) /\ changes \in Seq(PlanType)
  BY DEF WInv, WriterTypes
<1>2. cur \in PlanType /\ cur = todo[1] /\ 1 \in 1..Len(todo) /\ Tail(todo) \in Seq(PlanType)
      /\ Len(Tail(todo)) = Len(todo) - 1 /\ Len(todo) \in Nat
      /\ \A i \in 1..Len(Tail(todo)) : Tail(todo)[i] = todo[i+1] /\ i + 1 \in 1..Len(todo)
  BY <1>1 DEF cur
<1>3. cur \in Left /\ Left \subseteq PlanType /\ Planning \subseteq PlanType
  BY <1>1, <1>2, ToSetMember DEF Left, Planning
<1>4. /\ Left \subseteq {c \in Planning : Changing(c)}
      /\ \A i, j \in 1..Len(todo) : todo[i] = todo[j] => i = j
      /\ \A c \in Planning : SoundPlan(orig, c)
  BY <1>1 DEF WInv, Queue
<1>5. ToSet(Tail(todo)) = Left \ {cur}
  <2>1. ASSUME NEW x \in ToSet(Tail(todo)) PROVE x \in Left \ {cur}
    <3>1. PICK i \in 1..Len(Tail(todo)) : Tail(todo)[i] = x
      BY <1>2, ToSetMember
    <3>2. x = todo[i+1] /\ i + 1 \in 1..Len(todo) /\ i + 1 # 1
      BY <3>1, <1>2
    <3> QED
      BY <3>2, <1>1, <1>2, <1>4, ToSetMember DEF Left
  <2>2. ASSUME NEW x \in Left, x # cur PROVE x \in ToSet(Tail(todo))
    <3>1. PICK i \in 1..Len(todo) : todo[i] = x
      BY <1>1, ToSetMember DEF Left
    <3>2. i - 1 \in 1..Len(Tail(todo)) /\ Tail(todo)[i-1] = x
      BY <3>1, <2>2, <1>2
    <3> QED
      BY <3>2, <1>2, ToSetMember
  <2> QED
    BY <2>1, <2>2
<1> QED
  BY <1>2, <1>3, <1>4, <1>5 DEF PlanType

LEMMA UndoKinds ==
  ASSUME NEW u \in UndoFileType \cup UndoDirsType
  PROVE  /\ \/ u \in UndoFileType /\ "loc" \in DOMAIN u /\ "dirs" \notin DOMAIN u
               /\ Places(u) = {u.loc} /\ u.loc \in Loc /\ u.prior \in Content \cup {ABSENT}
            \/ u \in UndoDirsType /\ "dirs" \in DOMAIN u /\ "loc" \notin DOMAIN u
               /\ Places(u) = u.dirs
         /\ Places(u) \subseteq Loc
<1>1. CASE u \in UndoFileType
  BY <1>1 DEF UndoFileType, Places
<1>2. CASE u \in UndoDirsType
  BY <1>2 DEF UndoDirsType, Places
<1> QED
  BY <1>1, <1>2

\* One more undo.
LEMMA AppendUndo ==
  ASSUME NEW us \in Seq(UndoFileType \cup UndoDirsType),
         NEW u \in UndoFileType \cup UndoDirsType
  PROVE  /\ Append(us, u) \in Seq(UndoFileType \cup UndoDirsType)
         /\ Len(us) \in Nat /\ DOMAIN us = 1..Len(us)
         /\ DOMAIN Append(us, u) = 1..(Len(us) + 1)
         /\ \A k \in 1..Len(us) : Append(us, u)[k] = us[k]
         /\ Append(us, u)[Len(us) + 1] = u
  OBVIOUS

\* The directories that are missing were missing at the start.
LEMMA MissingFacts ==
  ASSUME WInv, Running, todo # <<>>
  PROVE  /\ Missing(cur.loc) \subseteq Loc
         /\ \A d \in Missing(cur.loc) : /\ IsPrefix(Root, d) /\ d \in Above[cur.loc]
                                        /\ orig[d] = ABSENT /\ fs[d] = ABSENT
<1>1. cur.loc \in Loc /\ SoundPlan(orig, cur)
  BY CurrentFacts
<1>2. ASSUME NEW d \in Missing(cur.loc)
      PROVE  d \in Loc /\ IsPrefix(Root, d) /\ d \in Above[cur.loc]
             /\ orig[d] = ABSENT /\ fs[d] = ABSENT
  <2>1. d \in Above[cur.loc] /\ fs[d] = ABSENT
    BY DEF Missing
  <2>2. d \in Loc
    BY <1>1, <2>1, AboveFacts
  <2>3. IsPrefix(Root, d)
    BY <1>1, <2>1, AboveInside DEF SoundPlan
  <2>4. orig[d] \in {DIR, ABSENT}
    BY <1>1, <2>1 DEF SoundPlan
  <2> QED
    BY <2>1, <2>2, <2>3, <2>4, KeepsWays, PathAssumption
<1> QED
  BY <1>2

LEMMA MakeDirsWInv ==
  ASSUME WInv, MakeDirs
  PROVE  WInv'
<1> DEFINE M == Missing(cur.loc)
<1>1. /\ phase = "op" /\ todo # <<>> /\ InstallsFile(cur) /\ phase' = "stage"
      /\ fs' = [l \in Loc |-> IF l \in M THEN DIR ELSE fs[l]]
      /\ undos' = IF M = {} THEN undos ELSE Append(undos, [dirs |-> M])
      /\ ~\E a \in Above[cur.loc] : Blocked(a)
      /\ UNCHANGED <<staging, todo, changes, cancelled, orig, leaked, unrestored>>
  BY DEF MakeDirs, AtWrite, history
<1>2. Running /\ Running' /\ Planning' = Planning /\ Left' = Left /\ cur' = cur
  BY <1>1 DEF Running, Planning, Left, cur
<1>3. /\ WriterTypes /\ Queue /\ Effects /\ Undoable /\ Staged /\ Confined
  BY DEF WInv
<1>4. /\ cur \in Left /\ cur \in Planning /\ SoundPlan(orig, cur) /\ cur.loc \in Loc
      /\ M \subseteq Loc
      /\ \A d \in M : /\ IsPrefix(Root, d) /\ d \in Above[cur.loc]
                      /\ orig[d] = ABSENT /\ fs[d] = ABSENT
      /\ Planning \subseteq PlanType
  BY <1>1, <1>2, CurrentFacts, MissingFacts
<1>5. \A d \in Above[cur.loc] : d \notin M => fs[d] # ABSENT
  BY DEF Missing
<1>6. DIR \in Held /\ DIR # ABSENT /\ ABSENT \notin Content /\ DIR \notin Content
  BY PathAssumption DEF Held
<1> DEFINE u == [dirs |-> M]
<1>7. u \in UndoDirsType /\ u.dirs = M /\ Places(u) = M /\ "loc" \notin DOMAIN u
      /\ "dirs" \in DOMAIN u
  BY <1>4 DEF UndoDirsType, Places
<1> HIDE DEF u, M
<1>8. \/ undos' = undos /\ M = {}
      \/ /\ undos' = Append(undos, u) /\ undos' \in Seq(UndoFileType \cup UndoDirsType)
         /\ Len(undos) \in Nat /\ DOMAIN undos = 1..Len(undos)
         /\ DOMAIN undos' = 1..(Len(undos) + 1)
         /\ \A k \in 1..Len(undos) : undos'[k] = undos[k]
         /\ undos'[Len(undos) + 1] = u
  BY <1>1, <1>3, <1>7, AppendUndo DEF WriterTypes, u
<1>9. \A l \in Loc : fs'[l] = IF l \in M THEN DIR ELSE fs[l]
  BY <1>1
<1>10. WriterTypes'
  <2>1. fs' \in [Loc -> Held]
    BY <1>1, <1>3, <1>6 DEF WriterTypes
  <2> QED
    BY <2>1, <1>1, <1>3, <1>8 DEF WriterTypes
<1>11. Queue'
  BY <1>1, <1>2, <1>3 DEF Queue
<1>12. Effects'
  <2>1. /\ \A c \in Planning \ Left :
              /\ InstallsFile(c) => fs[c.loc] = c.content
              /\ RemovesFile(c) => fs[c.loc] = ABSENT
        /\ \A l \in Loc : fs[l] # orig[l] =>
              \/ \E c \in Planning \ Left : Changing(c) /\ c.loc = l
              \/ /\ fs[l] = DIR /\ orig[l] = ABSENT
                 /\ \E c \in Planning : InstallsFile(c) /\ l \in Above[c.loc]
        /\ \A l \in Loc : fs[l] # ABSENT => \A a \in Above[l] : fs[a] = DIR
        /\ \A k \in DOMAIN undos : \A l \in Places(undos[k]) :
              fs[l] # ABSENT \/ orig[l] # ABSENT
    BY <1>2, <1>3 DEF Effects
  <2>2. ASSUME NEW c \in Planning \ Left
        PROVE  /\ ~RemovesFile(c)
               /\ InstallsFile(c) => fs'[c.loc] = c.content
    <3>1. ~RemovesFile(c)
      BY <1>1, <1>2, <1>3, <1>4 DEF Queue, InstallsFile, RemovesFile
    <3>2. c.loc \in Loc /\ c.content \in Content
      BY <1>4 DEF PlanType
    <3>3. ASSUME InstallsFile(c) PROVE fs'[c.loc] = c.content
      BY <3>2, <3>3, <2>1, <1>4, <1>6, <1>9
    <3> QED
      BY <3>1, <3>3
  <2>3. ASSUME NEW l \in Loc, fs'[l] # orig[l]
        PROVE  \/ \E c \in Planning \ Left : Changing(c) /\ c.loc = l
               \/ /\ fs'[l] = DIR /\ orig[l] = ABSENT
                  /\ \E c \in Planning : InstallsFile(c) /\ l \in Above[c.loc]
    BY <2>1, <2>3, <1>1, <1>4, <1>9
  <2>4. ASSUME NEW a \in Above[cur.loc], ~IsFile(a) PROVE fs'[a] = DIR
    <3>1. a \in Loc /\ orig[a] \in {DIR, ABSENT}
      BY <1>4, AboveFacts DEF SoundPlan
    <3>2. CASE a \in M
      BY <3>1, <3>2, <1>9
    <3>3. CASE a \notin M /\ orig[a] = DIR
      BY <3>1, <3>3, <1>9, KeepsWays
    <3>4. CASE a \notin M /\ orig[a] = ABSENT
      <4>1. fs[a] # ABSENT /\ fs'[a] = fs[a] /\ fs[a] \notin Content
        BY <3>1, <3>4, <1>5, <1>9, <2>4 DEF IsFile
      <4>2. ASSUME NEW c \in Planning \ Left, Changing(c), c.loc = a PROVE FALSE
        BY <4>1, <4>2, <2>1, <1>4 DEF Changing, PlanType
      <4> QED
        BY <3>1, <3>4, <4>1, <4>2, <2>1
    <3> QED
      BY <3>1, <3>2, <3>3, <3>4
  <2>5. ASSUME NEW l \in Loc, fs'[l] # ABSENT, NEW a \in Above[l]
        PROVE  fs'[a] = DIR
    <3>0. a \in Loc
      BY AboveFacts
    <3>1. CASE l \in M
      <4>1. l \in Above[cur.loc] /\ Above[l] \subseteq Above[cur.loc]
        BY <3>1, <1>4, AboveFacts
      <4>2. ~IsFile(a)
        BY <4>1, <1>1 DEF Blocked
      <4> QED
        BY <4>1, <4>2, <2>4
    <3>2. CASE l \notin M
      BY <3>0, <3>2, <2>1, <2>5, <1>4, <1>6, <1>9
    <3> QED
      BY <3>1, <3>2
  <2>6. Missing(cur.loc)' = {}
    <3>1. ASSUME NEW a \in Above[cur.loc], fs'[a] = ABSENT PROVE FALSE
      BY <3>1, <1>4, <1>5, <1>6, <1>9, AboveFacts
    <3> QED
      BY <3>1, <1>2 DEF Missing
  <2>7. \A k \in DOMAIN undos' : \A l \in Places(undos'[k]) :
              fs'[l] # ABSENT \/ orig[l] # ABSENT
    <3>1. ASSUME NEW k \in DOMAIN undos, NEW l \in Places(undos[k])
          PROVE  fs'[l] # ABSENT \/ orig[l] # ABSENT
      <4>1. l \in Loc
        BY <1>3, UndoKinds DEF WriterTypes
      <4> QED
        BY <4>1, <2>1, <1>6, <1>9
    <3>2. ASSUME NEW l \in M PROVE fs'[l] # ABSENT
      BY <1>4, <1>6, <1>9
    <3> QED
      BY <3>1, <3>2, <1>7, <1>8
  <2> QED
    BY <2>2, <2>3, <2>5, <2>6, <2>7, <1>1, <1>2 DEF Effects
<1>13. Undoable'
  <2>1. ASSUME NEW l \in Loc, fs'[l] # orig[l]
        PROVE  Excused(l)' \/ \E k \in DOMAIN undos' : l \in Places(undos'[k])
    <3>1. CASE l \in M
      BY <3>1, <1>7, <1>8
    <3>2. CASE l \notin M
      <4>1. Excused(l) \/ \E k \in DOMAIN undos : l \in Places(undos[k])
        BY <3>2, <2>1, <1>1, <1>3, <1>9 DEF Undoable
      <4>2. Excused(l) => Excused(l)'
        BY <1>1, StillExcused
      <4> QED
        BY <4>1, <4>2, <1>8
    <3> QED
      BY <3>1, <3>2
  <2>2. ASSUME NEW k \in DOMAIN undos'
        PROVE  IF "loc" \in DOMAIN undos'[k] THEN undos'[k].prior = orig[undos'[k].loc]
               ELSE \A d \in undos'[k].dirs : orig[d] = ABSENT
    <3>1. \A i \in DOMAIN undos :
             IF "loc" \in DOMAIN undos[i] THEN undos[i].prior = orig[undos[i].loc]
             ELSE \A d \in undos[i].dirs : orig[d] = ABSENT
      BY <1>1, <1>3 DEF Undoable
    <3> QED
      BY <3>1, <1>4, <1>7, <1>8
  <2>3. ASSUME NEW j \in DOMAIN undos', NEW k \in DOMAIN undos', j < k,
               "dirs" \in DOMAIN undos'[k], NEW d \in undos'[k].dirs,
               NEW l \in Places(undos'[j])
        PROVE  d \notin Above[l]
    <3>1. CASE undos' = undos
      BY <3>1, <2>3, <1>1, <1>3 DEF Undoable
    <3>2. CASE undos' # undos /\ k \in 1..Len(undos)
      <4>1. undos'[k] = undos[k] /\ j \in 1..Len(undos) /\ undos'[j] = undos[j]
            /\ j \in DOMAIN undos /\ k \in DOMAIN undos
        BY <3>2, <2>3, <1>8
      <4> QED
        BY <4>1, <2>3, <1>1, <1>3 DEF Undoable
    <3>3. CASE undos' # undos /\ k = Len(undos) + 1
      <4>1. d \in M /\ j \in DOMAIN undos /\ undos'[j] = undos[j]
        BY <3>3, <2>3, <1>7, <1>8
      <4>2. l \in Loc /\ (fs[l] # ABSENT \/ orig[l] # ABSENT)
        BY <4>1, <1>2, <1>3, UndoKinds DEF Effects, WriterTypes
      <4>3. fs[d] = ABSENT /\ orig[d] = ABSENT /\ d \in Loc
        BY <4>1, <1>4
      <4>4. fs[l] # ABSENT => \A a \in Above[l] : fs[a] = DIR
        BY <4>2, <1>2, <1>3 DEF Effects
      <4>5. orig[l] # ABSENT => \A a \in Above[l] : orig[a] = DIR
        BY <4>2, <1>3, PathAssumption DEF WriterTypes
      <4> QED
        BY <4>2, <4>3, <4>4, <4>5, <1>6
    <3> QED
      BY <3>1, <3>2, <3>3, <1>8
  <2> QED
    BY <2>1, <2>2, <2>3, <1>1 DEF Undoable
<1>14. Staged'
  BY <1>1, <1>3 DEF Staged
<1>15. Confined'
  BY <1>1, <1>3, <1>4, <1>9, PathAssumption DEF Confined
<1>16. Untouched'
  BY <1>1 DEF Untouched
<1> QED
  BY <1>10, <1>11, <1>12, <1>13, <1>14, <1>15, <1>16 DEF WInv

LEMMA MakeDirsFailsWInv ==
  ASSUME WInv, MakeDirsFails
  PROVE  WInv'
<1>1. /\ phase = "op" /\ todo # <<>> /\ phase' = "rollback"
      /\ UNCHANGED <<staging, todo, undos, changes, cancelled, orig, unrestored>>
  BY DEF MakeDirsFails, AtWrite, Rollback
<1>2. PICK S \in {{}} \cup Partial(cur.loc) :
        /\ fs' = [l \in Loc |-> IF l \in S THEN DIR ELSE fs[l]]
        /\ leaked' = leaked \cup S
  BY DEF MakeDirsFails
<1>3. Running /\ ~Running'
  BY <1>1 DEF Running
<1>4. WriterTypes /\ Undoable /\ Staged /\ Confined
  BY DEF WInv
<1>5. /\ S \subseteq Loc
      /\ \A d \in S : IsPrefix(Root, d) /\ orig[d] = ABSENT
  BY <1>1, <1>3, MissingFacts DEF Partial
<1>6. DIR \in Held /\ DIR # ABSENT /\ LINK # ABSENT
  BY PathAssumption DEF Held
<1>7. \A l \in Loc : fs'[l] = IF l \in S THEN DIR ELSE fs[l]
  BY <1>2
<1>8. WriterTypes'
  <2>1. fs' \in [Loc -> Held]
    BY <1>2, <1>4, <1>6 DEF WriterTypes
  <2> QED
    BY <2>1, <1>1, <1>2, <1>4, <1>5 DEF WriterTypes
<1>9. Undoable'
  <2>1. ASSUME NEW l \in Loc, fs'[l] # orig[l]
        PROVE  Excused(l)' \/ \E k \in DOMAIN undos : l \in Places(undos[k])
    <3>1. CASE l \in S
      BY <3>1, <1>2 DEF Excused
    <3>2. CASE l \notin S
      <4>1. Excused(l) \/ \E k \in DOMAIN undos : l \in Places(undos[k])
        BY <3>2, <2>1, <1>1, <1>4, <1>7 DEF Undoable
      <4>2. Excused(l) => Excused(l)'
        BY <1>1, <1>2, StillExcused
      <4> QED
        BY <4>1, <4>2
    <3> QED
      BY <3>1, <3>2
  <2> QED
    BY <2>1, <1>1, <1>4 DEF Undoable
<1>10. Staged' /\ Untouched'
  BY <1>1, <1>4 DEF Staged, Untouched
<1>11. Confined'
  BY <1>1, <1>4, <1>5, <1>6, <1>7 DEF Confined
<1> QED
  BY <1>3, <1>8, <1>9, <1>10, <1>11 DEF WInv, Queue, Effects

LEMMA StageWInv ==
  ASSUME WInv, Stage
  PROVE  WInv'
<1>1. /\ phase = "stage" /\ ~Blocked(cur.loc) /\ staging' = cur.loc /\ phase' = "install"
      /\ UNCHANGED <<fs, todo, undos, changes, cancelled, orig, leaked, unrestored>>
  BY DEF Stage, history
<1>2. Running /\ Running' /\ Planning' = Planning /\ Left' = Left /\ cur' = cur
  BY <1>1 DEF Running, Planning, Left, cur
<1>3. todo # <<>> /\ cur.loc \in Loc /\ IsPrefix(Root, cur.loc)
  BY <1>1, <1>2, CurrentFacts DEF WInv, Queue, SoundPlan
<1>4. WriterTypes'
  BY <1>1, <1>3 DEF WInv, WriterTypes
<1>5. Queue' /\ Staged' /\ Confined' /\ Untouched'
  BY <1>1, <1>2, <1>3 DEF WInv, Queue, Staged, Confined, Untouched
<1>6. Effects'
  BY <1>1, <1>2 DEF WInv, Effects, Missing, Blocked, IsFile
<1>7. Undoable'
  BY <1>1, StillExcused DEF WInv, Undoable
<1> QED
  BY <1>4, <1>5, <1>6, <1>7 DEF WInv

\* What Install and Delete have in common: the place of the current operation
\* takes what it asks for.
LEMMA ChangeWInv ==
  ASSUME WInv, phase \in {"op", "install"}, todo # <<>>, NEW held \in Content \cup {ABSENT},
         fs[cur.loc] # DIR,
         InstallsFile(cur) => /\ held = cur.content
                              /\ Missing(cur.loc) = {} /\ ~Blocked(cur.loc),
         RemovesFile(cur) => held = ABSENT,
         fs' = [fs EXCEPT ![cur.loc] = held],
         staging' = NULL, phase' = "op", todo' = Tail(todo),
         undos' = Append(undos, [loc |-> cur.loc, prior |-> cur.before]),
         UNCHANGED <<changes, cancelled, orig, leaked, unrestored>>
  PROVE  WInv'
<1> DEFINE u == [loc |-> cur.loc, prior |-> cur.before]
           l0 == cur.loc
<1>1. Running /\ Running' /\ Planning' = Planning
  BY DEF Running, Planning
<1>2. WriterTypes /\ Queue /\ Effects /\ Undoable /\ Staged /\ Confined
  BY DEF WInv
<1>3. /\ cur \in PlanType /\ cur \in Left /\ cur \in Planning /\ SoundPlan(orig, cur)
      /\ l0 \in Loc /\ Changing(cur) /\ Tail(todo) \in Seq(PlanType)
      /\ Left' = Left \ {cur} /\ Planning \subseteq PlanType
  BY <1>1, CurrentFacts DEF Left
<1>4. /\ u \in UndoFileType /\ u.loc = l0 /\ u.prior = cur.before /\ Places(u) = {l0}
      /\ "loc" \in DOMAIN u /\ "dirs" \notin DOMAIN u
  BY <1>3 DEF UndoFileType, PlanType, Places
<1>5. /\ cur.before = orig[l0] /\ IsPrefix(Root, l0) /\ orig[l0] \notin {LINK, DIR}
      /\ RemovesFile(cur) => orig[l0] # ABSENT
      /\ InstallsFile(cur) => held # ABSENT
      /\ ~(InstallsFile(cur) /\ RemovesFile(cur))
  BY <1>3, PathAssumption DEF SoundPlan, Changing, InstallsFile, RemovesFile, PlanType
<1>6. DIR # ABSENT /\ ABSENT \notin Content /\ DIR \notin Content /\ held \in Held
  BY PathAssumption DEF Held
<1> HIDE DEF u, l0
<1>7. \A l \in Loc : fs'[l] = IF l = l0 THEN held ELSE fs[l]
  BY <1>2, <1>3 DEF WriterTypes, l0
<1>8. /\ undos' = Append(undos, u) /\ undos' \in Seq(UndoFileType \cup UndoDirsType)
      /\ Len(undos) \in Nat /\ DOMAIN undos = 1..Len(undos)
      /\ DOMAIN undos' = 1..(Len(undos) + 1)
      /\ \A k \in 1..Len(undos) : undos'[k] = undos[k]
      /\ undos'[Len(undos) + 1] = u
  BY <1>2, <1>4, AppendUndo DEF WriterTypes, u, l0
<1>9. WriterTypes'
  <2>1. fs' \in [Loc -> Held]
    BY <1>2, <1>3, <1>6 DEF WriterTypes, l0
  <2> QED
    BY <2>1, <1>2, <1>3, <1>8 DEF WriterTypes
<1>10. Queue'
  <2>1. /\ DOMAIN todo = 1..Len(todo) /\ DOMAIN todo' = 1..Len(todo') /\ Len(todo) \in Nat
        /\ Len(todo') = Len(todo) - 1 /\ cur = todo[1] /\ 1 \in DOMAIN todo
        /\ \A i \in 1..Len(todo') : todo'[i] = todo[i+1] /\ i + 1 \in 1..Len(todo)
    BY <1>2 DEF WriterTypes, cur
  <2>2. \A i, j \in DOMAIN todo' : todo'[i] = todo'[j] => i = j
    <3>1. \A i, j \in DOMAIN todo : todo[i] = todo[j] => i = j
      BY <1>1, <1>2 DEF Queue
    <3>2. ASSUME NEW i \in DOMAIN todo', NEW j \in DOMAIN todo', todo'[i] = todo'[j]
          PROVE  i = j
      <4>1. i + 1 = j + 1
        BY <2>1, <3>1, <3>2
      <4> QED
        BY <4>1, <2>1
    <3> QED
      BY <3>2
  <2>3. \A i, j \in DOMAIN todo' : i < j /\ RemovesFile(todo'[i]) => RemovesFile(todo'[j])
    <3>1. \A i, j \in DOMAIN todo : i < j /\ RemovesFile(todo[i]) => RemovesFile(todo[j])
      BY <1>1, <1>2 DEF Queue
    <3>2. ASSUME NEW i \in DOMAIN todo', NEW j \in DOMAIN todo', i < j,
                 RemovesFile(todo'[i])
          PROVE  RemovesFile(todo'[j])
      <4>1. i + 1 < j + 1 /\ i + 1 \in DOMAIN todo /\ j + 1 \in DOMAIN todo
        BY <2>1, <3>2
      <4> QED
        BY <4>1, <2>1, <3>1, <3>2
    <3> QED
      BY <3>2
  <2>4. \A c \in Planning' \ Left' : RemovesFile(c) => \A d \in Left' : RemovesFile(d)
    <3>1. ASSUME NEW c \in Planning \ Left, RemovesFile(c)
          PROVE  \A d \in Left' : RemovesFile(d)
      BY <3>1, <1>1, <1>2, <1>3 DEF Queue
    <3>2. ASSUME RemovesFile(cur), NEW d \in Left' PROVE RemovesFile(d)
      <4>1. d \in Left /\ d # cur
        BY <1>3
      <4>2. PICK i \in 1..Len(todo) : todo[i] = d
        <5>1. todo \in Seq(PlanType)
          BY <1>2 DEF WriterTypes
        <5> QED
          BY <4>1, <5>1, ToSetMember DEF Left
      <4>3. 1 < i /\ i \in DOMAIN todo
        BY <4>1, <4>2, <2>1
      <4> QED
        BY <4>2, <4>3, <2>1, <3>2, <1>1, <1>2 DEF Queue
    <3> QED
      BY <3>1, <3>2, <1>1, <1>3
  <2> QED
    BY <2>2, <2>3, <2>4, <1>1, <1>2, <1>3 DEF Queue
<1>11. Effects'
  <2>1. /\ \A c \in Planning \ Left :
              /\ InstallsFile(c) => fs[c.loc] = c.content
              /\ RemovesFile(c) => fs[c.loc] = ABSENT
        /\ \A l \in Loc : fs[l] # orig[l] =>
              \/ \E c \in Planning \ Left : Changing(c) /\ c.loc = l
              \/ /\ fs[l] = DIR /\ orig[l] = ABSENT
                 /\ \E c \in Planning : InstallsFile(c) /\ l \in Above[c.loc]
        /\ \A l \in Loc : fs[l] # ABSENT => \A a \in Above[l] : fs[a] = DIR
        /\ \A k \in DOMAIN undos : \A l \in Places(undos[k]) :
              fs[l] # ABSENT \/ orig[l] # ABSENT
    BY <1>1, <1>2 DEF Effects
  <2>2. ASSUME NEW c \in Planning' \ Left'
        PROVE  /\ InstallsFile(c) => fs'[c.loc] = c.content
               /\ RemovesFile(c) => fs'[c.loc] = ABSENT
    <3>1. CASE c = cur
      BY <3>1, <1>3, <1>7 DEF l0
    <3>2. CASE c # cur
      <4>1. c \in Planning \ Left /\ c.loc # l0 /\ c.loc \in Loc
        BY <3>2, <1>1, <1>2, <1>3 DEF Queue, PlanType, l0
      <4> QED
        BY <4>1, <2>1, <1>7
    <3> QED
      BY <3>1, <3>2
  <2>3. ASSUME NEW l \in Loc, fs'[l] # orig[l]
        PROVE  \/ \E c \in Planning' \ Left' : Changing(c) /\ c.loc = l
               \/ /\ fs'[l] = DIR /\ orig[l] = ABSENT
                  /\ \E c \in Planning' : InstallsFile(c) /\ l \in Above[c.loc]
    <3>1. CASE l = l0
      BY <3>1, <1>1, <1>3 DEF l0
    <3>2. CASE l # l0
      BY <3>2, <2>1, <2>3, <1>1, <1>3, <1>7
    <3> QED
      BY <3>1, <3>2
  <2>4. ASSUME InstallsFile(cur), NEW a \in Above[l0] PROVE fs[a] = DIR
    <3>1. a \in Loc /\ orig[a] \in {DIR, ABSENT} /\ fs[a] # ABSENT /\ fs[a] \notin Content
      BY <2>4, <1>3, AboveFacts DEF SoundPlan, Missing, Blocked, IsFile, l0
    <3>2. ASSUME NEW c \in Planning \ Left, Changing(c), c.loc = a PROVE FALSE
      BY <3>1, <3>2, <2>1, <1>3 DEF Changing, PlanType
    <3> QED
      BY <3>1, <3>2, <2>1
  <2>5. ASSUME NEW l \in Loc, fs'[l] # ABSENT, NEW a \in Above[l]
        PROVE  fs'[a] = DIR
    <3>0. a \in Loc /\ l \notin Above[l]
      BY AboveFacts
    <3>1. CASE l = l0
      <4>1. InstallsFile(cur)
        BY <3>1, <2>5, <1>3, <1>7 DEF Changing
      <4> QED
        BY <4>1, <3>0, <3>1, <2>4, <1>7
    <3>2. CASE l # l0
      BY <3>0, <3>2, <2>1, <2>5, <1>7 DEF l0
    <3> QED
      BY <3>1, <3>2
  <2>6. \A k \in DOMAIN undos' : \A l \in Places(undos'[k]) :
              fs'[l] # ABSENT \/ orig[l] # ABSENT
    <3>1. ASSUME NEW k \in DOMAIN undos, NEW l \in Places(undos[k])
          PROVE  fs'[l] # ABSENT \/ orig[l] # ABSENT
      <4>1. l \in Loc
        BY <1>2, UndoKinds DEF WriterTypes
      <4> QED
        BY <4>1, <2>1, <1>3, <1>5, <1>7 DEF Changing
    <3>2. fs'[l0] # ABSENT \/ orig[l0] # ABSENT
      BY <1>3, <1>5, <1>7 DEF Changing
    <3> QED
      BY <3>1, <3>2, <1>4, <1>8
  <2> QED
    BY <2>2, <2>3, <2>5, <2>6, <1>1 DEF Effects
<1>12. Undoable'
  <2>1. ASSUME NEW l \in Loc, fs'[l] # orig[l]
        PROVE  Excused(l)' \/ \E k \in DOMAIN undos' : l \in Places(undos'[k])
    <3>1. CASE l = l0
      BY <3>1, <1>4, <1>8
    <3>2. CASE l # l0
      <4>1. Excused(l) \/ \E k \in DOMAIN undos : l \in Places(undos[k])
        BY <3>2, <2>1, <1>2, <1>7 DEF Undoable
      <4>2. Excused(l) => Excused(l)'
        BY StillExcused
      <4> QED
        BY <4>1, <4>2, <1>8
    <3> QED
      BY <3>1, <3>2
  <2>2. /\ \A k \in DOMAIN undos :
              IF "loc" \in DOMAIN undos[k] THEN undos[k].prior = orig[undos[k].loc]
              ELSE \A d \in undos[k].dirs : orig[d] = ABSENT
        /\ \A j, k \in DOMAIN undos : j < k /\ "dirs" \in DOMAIN undos[k] =>
              \A d \in undos[k].dirs, l \in Places(undos[j]) : d \notin Above[l]
    BY <1>2 DEF Undoable
  <2>3. ASSUME NEW k \in DOMAIN undos'
        PROVE  IF "loc" \in DOMAIN undos'[k] THEN undos'[k].prior = orig[undos'[k].loc]
               ELSE \A d \in undos'[k].dirs : orig[d] = ABSENT
    BY <2>2, <1>4, <1>5, <1>8
  <2>4. ASSUME NEW j \in DOMAIN undos', NEW k \in DOMAIN undos', j < k,
               "dirs" \in DOMAIN undos'[k]
        PROVE  \A d \in undos'[k].dirs, l \in Places(undos'[j]) : d \notin Above[l]
    <3>1. k \in 1..Len(undos) /\ j \in 1..Len(undos)
      BY <2>4, <1>4, <1>8
    <3> QED
      BY <3>1, <2>2, <2>4, <1>8
  <2> QED
    BY <2>1, <2>3, <2>4 DEF Undoable
<1>13. Staged' /\ Untouched'
  BY DEF Staged, Untouched
<1>14. Confined'
  BY <1>2, <1>5, <1>7 DEF Confined
<1> QED
  BY <1>9, <1>10, <1>11, <1>12, <1>13, <1>14 DEF WInv

LEMMA InstallWInv ==
  ASSUME WInv, Install
  PROVE  WInv'
<1>1. phase = "install" /\ Running
  BY DEF Install, Running
<1>2. /\ todo # <<>> /\ InstallsFile(cur) /\ ~RemovesFile(cur)
      /\ Missing(cur.loc) = {} /\ ~Blocked(cur.loc)
  BY <1>1 DEF WInv, Queue, Effects, InstallsFile, RemovesFile
<1>3. cur.content \in Content
  BY <1>1, <1>2, CurrentFacts DEF PlanType
<1> QED
  BY <1>1, <1>2, <1>3, ChangeWInv DEF Install, history

LEMMA DeleteWInv ==
  ASSUME WInv, Delete
  PROVE  WInv'
<1>1. /\ phase = "op" /\ todo # <<>> /\ RemovesFile(cur) /\ ~InstallsFile(cur)
      /\ fs[cur.loc] # DIR
  BY PathAssumption DEF Delete, AtDelete, IsFile, InstallsFile, RemovesFile
<1>2. staging = NULL
  BY <1>1 DEF WInv, Staged
<1> QED
  BY <1>1, <1>2, ChangeWInv DEF Delete, history

LEMMA AppliedWInv ==
  ASSUME WInv, Applied
  PROVE  WInv'
<1>1. /\ phase = "op" /\ todo = <<>> /\ phase' = "applied" /\ undos' = <<>>
      /\ UNCHANGED <<fs, staging, todo, changes, cancelled, orig, leaked, unrestored>>
  BY DEF Applied, history
<1>2. Running /\ Running' /\ Planning' = Planning /\ Left' = Left
  BY <1>1 DEF Running, Planning, Left
<1>3. <<>> \in Seq(UndoFileType \cup UndoDirsType)
  OBVIOUS
<1>4. WriterTypes'
  BY <1>1, <1>3 DEF WInv, WriterTypes
<1>5. Queue' /\ Staged' /\ Confined' /\ Untouched' /\ Undoable'
  BY <1>1, <1>2 DEF WInv, Queue, Staged, Confined, Untouched, Undoable
<1>6. Effects'
  BY <1>1, <1>2 DEF WInv, Effects
<1> QED
  BY <1>4, <1>5, <1>6 DEF WInv

\* The undo that runs, and those that remain.
LEMMA UndoFacts ==
  ASSUME WInv, undos # <<>>
  PROVE  /\ Len(undos) \in Nat \ {0} /\ DOMAIN undos = 1..Len(undos)
         /\ undo = undos[Len(undos)] /\ undo \in UndoFileType \cup UndoDirsType
         /\ Front(undos) \in Seq(UndoFileType \cup UndoDirsType)
         /\ DOMAIN Front(undos) = 1..(Len(undos) - 1)
         /\ \A k \in 1..(Len(undos) - 1) : Front(undos)[k] = undos[k]
<1>1. undos \in Seq(UndoFileType \cup UndoDirsType)
  BY DEF WInv, WriterTypes
<1> QED
  BY <1>1 DEF undo, Last, Front

\* What all undos have in common: the last one goes, and every place that still
\* differs was dealt with before or is excused.
LEMMA UndoneWInv ==
  ASSUME WInv, phase = "rollback", undos # <<>>, fs' \in [Loc -> Held],
         undos' = Front(undos), unrestored' \subseteq Loc,
         unrestored \subseteq unrestored',
         UNCHANGED <<staging, phase, todo, changes, cancelled, orig, leaked>>,
         \A l \in Loc : fs'[l] # orig[l] =>
             /\ fs[l] # orig[l]
             /\ Excused(l)' \/ l \notin Places(undo)
  PROVE  WInv'
<1>1. WriterTypes /\ Undoable /\ Staged /\ Confined
  BY DEF WInv
<1>2. /\ Len(undos) \in Nat \ {0} /\ DOMAIN undos = 1..Len(undos)
      /\ undo = undos[Len(undos)]
      /\ undos' \in Seq(UndoFileType \cup UndoDirsType)
      /\ DOMAIN undos' = 1..(Len(undos) - 1)
      /\ \A k \in 1..(Len(undos) - 1) : undos'[k] = undos[k]
  BY UndoFacts
<1>3. DOMAIN undos' \subseteq DOMAIN undos /\ \A k \in DOMAIN undos' : undos'[k] = undos[k]
  BY <1>2
<1>4. WriterTypes' /\ ~Running'
  BY <1>1, <1>2 DEF WriterTypes, Running
<1>5. Undoable'
  <2>1. ASSUME NEW l \in Loc, fs'[l] # orig[l]
        PROVE  Excused(l)' \/ \E k \in DOMAIN undos' : l \in Places(undos'[k])
    <3>1. Excused(l) => Excused(l)'
      BY StillExcused
    <3>2. CASE \E k \in DOMAIN undos : l \in Places(undos[k])
      <4>1. PICK k \in 1..Len(undos) : l \in Places(undos[k])
        BY <3>2, <1>2
      <4>2. k = Len(undos) => Excused(l)'
        BY <4>1, <2>1, <1>2
      <4>3. k # Len(undos) => k \in DOMAIN undos' /\ undos'[k] = undos[k]
        BY <1>2
      <4> QED
        BY <4>1, <4>2, <4>3
    <3> QED
      BY <3>1, <3>2, <2>1, <1>1 DEF Undoable
  <2>2. \A k \in DOMAIN undos' :
            IF "loc" \in DOMAIN undos'[k] THEN undos'[k].prior = orig[undos'[k].loc]
            ELSE \A d \in undos'[k].dirs : orig[d] = ABSENT
    BY <1>1, <1>3 DEF Undoable
  <2>3. \A j, k \in DOMAIN undos' : j < k /\ "dirs" \in DOMAIN undos'[k] =>
            \A d \in undos'[k].dirs, l \in Places(undos'[j]) : d \notin Above[l]
    BY <1>1, <1>3 DEF Undoable
  <2> QED
    BY <2>1, <2>2, <2>3 DEF Undoable
<1>6. Staged'
  BY <1>1 DEF Staged
<1>7. Confined' /\ Untouched'
  BY <1>1 DEF Confined, Untouched
<1> QED
  BY <1>4, <1>5, <1>6, <1>7 DEF WInv, Queue, Effects

LEMMA UndoDirsWInv ==
  ASSUME WInv, UndoDirs
  PROVE  WInv'
<1> DEFINE used(d) == \E l \in Loc \ undo.dirs :
                         d \in Above[l] /\ (fs[l] # ABSENT \/ l = staging)
<1>1. /\ phase = "rollback" /\ undos # <<>> /\ "dirs" \in DOMAIN undo
      /\ fs' = [l \in Loc |-> IF l \in undo.dirs /\ ~used(l) THEN ABSENT ELSE fs[l]]
      /\ undos' = Front(undos)
      /\ UNCHANGED <<staging, phase, todo, changes, cancelled, orig, leaked, unrestored>>
  BY DEF UndoDirs, history
<1> HIDE DEF used
<1>2. WriterTypes /\ Undoable /\ Staged
  BY DEF WInv
<1>3. /\ Len(undos) \in Nat \ {0} /\ DOMAIN undos = 1..Len(undos)
      /\ undo = undos[Len(undos)] /\ undo \in UndoFileType \cup UndoDirsType
  BY <1>1, UndoFacts
<1>4. "loc" \notin DOMAIN undo /\ Places(undo) = undo.dirs /\ undo.dirs \subseteq Loc
  BY <1>1, <1>3, UndoKinds
<1>5. fs' \in [Loc -> Held]
  BY <1>1, <1>2, PathAssumption DEF WriterTypes, Held
<1>6. \A d \in undo.dirs : orig[d] = ABSENT
  BY <1>1, <1>2, <1>3, <1>4 DEF Undoable
<1>7. ASSUME NEW d \in undo.dirs, used(d) PROVE Excused(d)
  <2>1. PICK l \in Loc \ undo.dirs : d \in Above[l] /\ (fs[l] # ABSENT \/ l = staging)
    BY <1>7 DEF used
  <2>2. Above[l] \subseteq Loc /\ orig[d] = ABSENT
    BY <1>6, AboveFacts
  <2>3. CASE l = staging
    <3>1. staging \in unrestored
      BY <2>3, <1>1, <1>2, PathAssumption DEF Staged, Place
    <3> QED
      BY <3>1, <2>1, <2>3 DEF Excused
  <2>4. CASE fs[l] # ABSENT
    <3>1. fs[l] # orig[l]
      <4>1. orig[l] # ABSENT => orig[d] = DIR
        BY <2>1, <1>2, PathAssumption DEF WriterTypes
      <4> QED
        BY <4>1, <2>2, <2>4, PathAssumption
    <3>2. CASE Excused(l)
      <4>1. PICK x \in leaked \cup unrestored : l = x \/ l \in Above[x]
        BY <3>2 DEF Excused
      <4>2. x \in Loc /\ (l \in Above[x] => Above[l] \subseteq Above[x])
        BY <1>2, AboveFacts DEF WriterTypes
      <4> QED
        BY <4>1, <4>2, <2>1 DEF Excused
    <3>3. ASSUME NEW k \in 1..Len(undos), l \in Places(undos[k]) PROVE FALSE
      <4>1. k # Len(undos)
        BY <3>3, <1>3, <1>4
      <4>2. k < Len(undos) /\ Len(undos) \in DOMAIN undos /\ k \in DOMAIN undos
        BY <4>1, <1>3
      <4> QED
        BY <4>2, <3>3, <2>1, <1>1, <1>2, <1>3 DEF Undoable
    <3> QED
      BY <3>1, <3>2, <3>3, <1>1, <1>2, <1>3 DEF Undoable
  <2> QED
    BY <2>1, <2>3, <2>4
<1>8. \A l : Excused(l)' <=> Excused(l)
  BY <1>1 DEF Excused
<1>9. ASSUME NEW l \in Loc, fs'[l] # orig[l]
      PROVE  fs[l] # orig[l] /\ (Excused(l)' \/ l \notin Places(undo))
  BY <1>9, <1>1, <1>4, <1>6, <1>7, <1>8
<1>10. unrestored' \subseteq Loc /\ unrestored \subseteq unrestored'
  BY <1>1, <1>2 DEF WriterTypes
<1> QED
  BY <1>1, <1>5, <1>9, <1>10, UndoneWInv

LEMMA UndoFileWInv ==
  ASSUME WInv, UndoFile
  PROVE  WInv'
<1>1. /\ phase = "rollback" /\ undos # <<>> /\ "loc" \in DOMAIN undo
      /\ fs' = [fs EXCEPT ![undo.loc] = undo.prior] /\ undos' = Front(undos)
      /\ UNCHANGED <<staging, phase, todo, changes, cancelled, orig, leaked, unrestored>>
  BY DEF UndoFile, history
<1>2. WriterTypes /\ Undoable
  BY DEF WInv
<1>3. /\ Len(undos) \in Nat \ {0} /\ DOMAIN undos = 1..Len(undos)
      /\ undo = undos[Len(undos)] /\ undo \in UndoFileType \cup UndoDirsType
  BY <1>1, UndoFacts
<1>4. Places(undo) = {undo.loc} /\ undo.loc \in Loc /\ undo.prior \in Held
  BY <1>1, <1>3, UndoKinds DEF Held
<1>5. undo.prior = orig[undo.loc]
  BY <1>1, <1>2, <1>3 DEF Undoable
<1>6. fs' \in [Loc -> Held]
  BY <1>1, <1>2, <1>4 DEF WriterTypes
<1>7. \A l \in Loc : fs'[l] # orig[l] =>
          fs[l] # orig[l] /\ (Excused(l)' \/ l \notin Places(undo))
  BY <1>1, <1>2, <1>4, <1>5 DEF WriterTypes
<1>8. unrestored' \subseteq Loc /\ unrestored \subseteq unrestored'
  BY <1>1, <1>2 DEF WriterTypes
<1> QED
  BY <1>1, <1>6, <1>7, <1>8, UndoneWInv

LEMMA UndoFailsWInv ==
  ASSUME WInv, UndoFails
  PROVE  WInv'
<1>1. /\ phase = "rollback" /\ undos # <<>>
      /\ unrestored' = unrestored \cup Places(undo)
      /\ undos' = Front(undos)
      /\ UNCHANGED <<fs, staging, phase, todo, changes, cancelled, orig, leaked>>
  BY DEF UndoFails, Places
<1>2. WriterTypes
  BY DEF WInv
<1>3. Places(undo) \subseteq Loc
  BY <1>1, UndoFacts, UndoKinds
<1>4. fs' \in [Loc -> Held] /\ unrestored' \subseteq Loc /\ unrestored \subseteq unrestored'
  BY <1>1, <1>2, <1>3 DEF WriterTypes
<1>5. \A l \in Places(undo) : Excused(l)'
  BY <1>1 DEF Excused
<1> QED
  BY <1>1, <1>4, <1>5, UndoneWInv

LEMMA RolledBackWInv ==
  ASSUME WInv, RolledBack
  PROVE  WInv'
<1>1. /\ phase = "rollback" /\ undos = <<>> /\ phase' = "failed" /\ todo' = <<>>
      /\ UNCHANGED <<fs, staging, undos, changes, cancelled, orig, leaked, unrestored>>
  BY DEF RolledBack, history
<1>2. todo' \in Seq(PlanType)
  BY <1>1
<1>3. WriterTypes' /\ ~Running'
  BY <1>1, <1>2 DEF WInv, WriterTypes, Running
<1>4. Undoable'
  BY <1>1, StillExcused DEF WInv, Undoable
<1>5. Staged' /\ Confined' /\ Untouched'
  BY <1>1 DEF WInv, Staged, Confined, Untouched
<1> QED
  BY <1>3, <1>4, <1>5 DEF WInv, Queue, Effects

\* The failing steps that leave at most a staging file.
LEMMA FailsWInv ==
  ASSUME WInv, OpCancelled \/ StageFails \/ InstallFails \/ DeleteFails
  PROVE  WInv'
<1>1. WriterTypes /\ Staged
  BY DEF WInv
<1>2. CASE OpCancelled \/ DeleteFails
  <2>1. phase = "op" /\ phase' = "rollback" /\ staging = NULL
        /\ UNCHANGED <<fs, staging, todo, undos, changes, cancelled, orig, leaked, unrestored>>
    BY <1>1, <1>2 DEF OpCancelled, DeleteFails, AtWrite, AtDelete, Rollback, history, Staged
  <2> QED
    BY <2>1, <1>1, RollbackWInv DEF WriterTypes
<1>3. CASE StageFails \/ InstallFails
  <2>1. /\ phase \in {"stage", "install"} /\ phase' = "rollback" /\ Cleanup(cur.loc)
        /\ UNCHANGED <<fs, todo, undos, changes, cancelled, orig, leaked>>
    BY <1>3 DEF StageFails, InstallFails, Rollback
  <2>2. Running /\ todo # <<>>
    BY <2>1 DEF Running, WInv, Queue
  <2>3. cur.loc \in Loc /\ IsPrefix(Root, cur.loc)
    BY <2>2, CurrentFacts DEF SoundPlan
  <2>4. /\ unrestored \subseteq unrestored' /\ unrestored' \subseteq Loc
        /\ staging' \in Loc \cup {NULL}
        /\ staging' # NULL => staging' \in unrestored' /\ IsPrefix(Root, staging')
    BY <2>1, <2>3, <1>1 DEF Cleanup, WriterTypes
  <2> QED
    BY <2>1, <2>4, RollbackWInv
<1> QED
  BY <1>2, <1>3

LEMMA WriterStepWInv ==
  ASSUME WInv, WriterStep
  PROVE  WInv'
  BY MakeDirsWInv, MakeDirsFailsWInv, StageWInv, InstallWInv, DeleteWInv, AppliedWInv,
     UndoDirsWInv, UndoFileWInv, UndoFailsWInv, RolledBackWInv, FailsWInv
  DEF WriterStep

-----------------------------------------------------------------------------
(* The task around the writer.                                              *)

\* The operation of a response and the planned operation it became.
Matching(o, c) ==
    /\ o.loc = c.loc /\ o.content = c.content
    /\ InstallsFile(c) <=> o.kind = "write"
    /\ RemovesFile(c) <=> o.kind = "delete" /\ c.before # ABSENT

\* The plan of a response does what the response asks for.
LEMMA AskedFacts ==
  ASSUME NEW t \in Trees, NEW out, NEW cs, PlanFor(t, out, cs)
  PROVE  /\ \A c \in ToSet(cs) : \E o \in Asked(t, out) : Matching(o, c)
         /\ \A o \in Asked(t, out) : /\ \E c \in ToSet(cs) : Matching(o, c)
                                     /\ o.kind \in {"write", "delete"}
                                     /\ o.loc # NULL /\ Holds(t, o.loc) # DIR
         /\ \A o, p \in Asked(t, out) : o.loc = p.loc => o = p
         /\ Cardinality(Asked(t, out)) = Len(Operations(out))
<1> DEFINE b == Operations(out)
           n == Len(b)
           Ask(o) == [kind |-> o.kind, loc |-> Resolve[t][o.name], content |-> o.content]
           f == [i \in 1..n |-> Ask(b[i])]
<1>1. /\ b \in Seq(Op) /\ cs \in Seq(PlanType) /\ Len(cs) = n
      /\ \A i \in 1..n : /\ cs[i] = PlanOf(t, b[i])
                         /\ Resolve[t][b[i].name] # NULL
                         /\ Holds(t, Resolve[t][b[i].name]) # DIR
      /\ \A c \in ToSet(cs) : SoundPlan(t, c)
      /\ \A i, j \in 1..n : cs[i].loc = cs[j].loc => i = j
  BY PlanForFacts
<1>2. Asked(t, out) = {Ask(o) : o \in ToSet(b)}
  BY DEF Asked
<1> HIDE DEF b, n
<1>3. n \in Nat /\ DOMAIN b = 1..n /\ \A i \in 1..n : b[i] \in Op /\ b[i] \in ToSet(b)
  BY <1>1, ToSetMember DEF n
<1>4. ASSUME NEW i \in 1..n
      PROVE  /\ Ask(b[i]) \in Asked(t, out) /\ cs[i] \in ToSet(cs)
             /\ Matching(Ask(b[i]), cs[i])
             /\ Ask(b[i]).kind \in {"write", "delete"}
             /\ Ask(b[i]).loc # NULL /\ Holds(t, Ask(b[i]).loc) # DIR
             /\ Ask(b[i]).loc = cs[i].loc
  <2> DEFINE l == Resolve[t][b[i].name]
  <2>1. Ask(b[i]) \in Asked(t, out)
    BY <1>2, <1>3
  <2>2. cs[i] \in ToSet(cs)
    BY <1>1, ToSetMember
  <2>3. b[i] \in Op /\ cs[i] = PlanOf(t, b[i]) /\ l # NULL /\ Holds(t, l) # DIR
    BY <1>1, <1>3
  <2>4. /\ cs[i].loc = l /\ cs[i].content = b[i].content
        /\ InstallsFile(cs[i]) <=> b[i].kind = "write"
        /\ RemovesFile(cs[i]) <=> b[i].kind = "delete" /\ t[l] # ABSENT
    BY <2>3, PlanOfFacts
  <2>5. cs[i].before = t[l]
    BY <2>2, <2>4, <1>1 DEF SoundPlan
  <2> HIDE DEF l
  <2>6. Ask(b[i]).kind = b[i].kind /\ Ask(b[i]).loc = l /\ Ask(b[i]).content = b[i].content
    BY DEF l
  <2>7. b[i].kind \in {"write", "delete"}
    BY <2>3 DEF Op
  <2> HIDE DEF Ask
  <2>8. Matching(Ask(b[i]), cs[i])
    BY <2>4, <2>5, <2>6 DEF Matching
  <2> QED
    BY <2>1, <2>2, <2>3, <2>4, <2>6, <2>7, <2>8
<1>5. ASSUME NEW o \in Asked(t, out) PROVE \E i \in 1..n : o = Ask(b[i])
  <2>1. PICK op \in ToSet(b) : o = Ask(op)
    BY <1>2
  <2>2. PICK i \in 1..Len(b) : b[i] = op
    BY <1>1, ToSetMember
  <2> QED
    BY <2>1, <2>2 DEF n
<1>6. ASSUME NEW c \in ToSet(cs) PROVE \E i \in 1..n : c = cs[i]
  BY <1>1, ToSetMember
<1> HIDE DEF Ask
<1>7. \A i, j \in 1..n : Ask(b[i]).loc = Ask(b[j]).loc => i = j
  BY <1>1, <1>4
<1>8. Cardinality(Asked(t, out)) = n
  <2>1. f \in [1..n -> Asked(t, out)]
    BY <1>4
  <2>2. \A i, j \in 1..n : f[i] = f[j] => i = j
    BY <1>7
  <2>3. \A o \in Asked(t, out) : \E i \in 1..n : f[i] = o
    BY <1>5
  <2>4. ExistsBijection(1..n, Asked(t, out))
    BY <2>1, <2>2, <2>3
    DEF ExistsBijection, Bijection, Injection, Surjection, IsInjective
  <2>5. IsFiniteSet(1..n) /\ Cardinality(1..n) = n
    BY <1>3, FS_Interval
  <2> QED
    BY <2>4, <2>5, FS_Bijection
<1> QED
  BY <1>4, <1>5, <1>6, <1>7, <1>8 DEF b, n

\* What Run knows of the batch it applies, and what it reports.
Ran ==
    /\ lastTier \in Tier /\ output \in Responses \cup {<<>>}
    /\ attempts \in rung-1..rung
    /\ result \in {"running", "applied", "write_failed", "parse_failed",
                   "generate_failed"}
    /\ fileMetrics \in [Operation -> Nat]
    /\ result = "running" => \A o \in Operation : fileMetrics[o] = 0
    /\ at = "parse" => output \in Responses
    /\ Running => PlanFor(orig, output, changes)
    /\ result = "applied" => /\ phase = "applied"
                             /\ \A o \in Operation : fileMetrics[o] = Count(o)
    /\ result = "write_failed" => phase = "failed"
    /\ result \in {"parse_failed", "generate_failed"} => phase = "idle"
    /\ at \in {"ladder", "generate", "parse"} => phase = "idle"
    /\ at # "done" => result = "running"

TaskInv == IInv /\ WInv /\ Ran

LEMMA InitTaskInv == Init => TaskInv
<1> SUFFICES ASSUME Init PROVE TaskInv
  OBVIOUS
<1>1. IInv /\ WInv
  BY InitIInv, InitWInv
<1>2. fileMetrics = [o \in Operation |-> 0]
  BY DEF Init, Operation
<1>3. fileMetrics \in [Operation -> Nat] /\ \A o \in Operation : fileMetrics[o] = 0
  BY <1>2
<1>4. /\ phase = "idle" /\ at = "ladder" /\ rung = 1 /\ attempts = 0 /\ tier \in Tier
      /\ lastTier = tier /\ output = <<>> /\ result = "running"
  BY DEF Init, WriterInit
<1>5. Ran
  BY <1>3, <1>4 DEF Ran, Running
<1> QED
  BY <1>1, <1>5 DEF TaskInv

LEMMA CountType ==
  ASSUME WInv, NEW o
  PROVE  Count(o) \in Nat
<1> DEFINE S == {i \in DOMAIN changes : changes[i].operation = o}
<1>1. Len(changes) \in Nat /\ DOMAIN changes = 1..Len(changes)
  BY DEF WInv, WriterTypes
<1>2. IsFiniteSet(1..Len(changes))
  BY <1>1, FS_Interval
<1>3. S \in SUBSET (1..Len(changes))
  BY <1>1
<1>4. Cardinality(S) \in Nat
  BY <1>2, <1>3, FS_Subset, FS_CardinalityType
<1> QED
  BY <1>4 DEF Count

\* Every step of a task keeps the writer's invariant.
LEMMA StepWInv ==
  ASSUME IInv, WInv, Ran, [Next]_vars
  PROVE  WInv'
<1>1. CASE ApplyOutput
  BY <1>1, BeginWInv DEF ApplyOutput, Ran
<1>2. CASE Apply
  BY <1>2, WriterStepWInv DEF Apply
<1>3. CASE \/ StartRung \/ (\E out \in Responses : Generated(out)) \/ GenerateFails
           \/ ParseFails \/ WriteFailed \/ Succeed \/ Exhausted \/ CancelRun
           \/ UNCHANGED vars
  <2>1. cancelled \in BOOLEAN
    BY DEF WInv, WriterTypes
  <2>2. UNCHANGED <<fs, writerVars, history>> /\ cancelled' \in BOOLEAN
    BY <1>3, <2>1 DEF StartRung, Generated, GenerateFails, ParseFails, WriteFailed,
       Succeed, Exhausted, CancelRun, Cancel, vars
  <2> QED
    BY <2>2, FrameWInv
<1> QED
  BY <1>1, <1>2, <1>3 DEF Next, Step

\* The batch stays the one the response asked for while it is applied.
LEMMA WriterKeepsPlan ==
  ASSUME WInv, WriterStep
  PROVE  UNCHANGED <<changes, orig>> /\ (Running' => Running) /\ phase' # "idle"
         /\ phase # "idle" /\ phase # "applied" /\ phase # "failed"
  BY DEF WriterStep, OpCancelled, MakeDirs, MakeDirsFails, Stage, StageFails, Install,
     InstallFails, Delete, DeleteFails, Applied, UndoDirs, UndoFile, UndoFails,
     RolledBack, AtWrite, AtDelete, Rollback, Running, history

LEMMA StepRan ==
  ASSUME IInv, WInv, Ran, [Next]_vars
  PROVE  Ran'
<1>1. /\ tier \in Tier /\ rung \in Nat \ {0} /\ attempts \in Nat /\ tier' = tier
      /\ Ladder \in Seq(Tier) /\ rung <= Len(Ladder) + 1
  BY LadderShape DEF IInv, LadderTypes, Next, Step, vars, runVars, StartRung, Generated,
     GenerateFails, ParseFails, ApplyOutput, Apply, WriteFailed, Succeed, Exhausted,
     CancelRun
<1>2. /\ at = "ladder" => attempts = rung - 1
      /\ at \in {"generate", "parse", "apply"} => attempts = rung
  BY DEF IInv, Position
<1> HIDE DEF Ladder
<1>3. ASSUME UNCHANGED <<changes, phase, orig>>
      PROVE  /\ Running' = Running
             /\ PlanFor(orig, output, changes)' = PlanFor(orig, output', changes)
             /\ \A o : Count(o)' = Count(o)
  BY <1>3 DEF Running, PlanFor, PlanOf, Count
<1>4. CASE StartRung
  <2>1. UNCHANGED <<changes, phase, orig, output, fileMetrics, rung>> /\ phase = "idle" /\ at = "ladder"
        /\ ~Running
    BY <1>4 DEF StartRung, writerVars, history, Ran, Running
  <2>2. CASE cancelled
    BY <2>1, <2>2, <1>1, <1>2, <1>3, <1>4 DEF StartRung, Finish, Ran
  <2>3. CASE ~cancelled
    <3>1. Ladder[rung] \in Tier
      BY <1>1, <1>4 DEF StartRung
    <3> QED
      BY <3>1, <2>1, <2>3, <1>1, <1>2, <1>3, <1>4 DEF StartRung, Ran
  <2> QED
    BY <2>2, <2>3
<1>5. CASE \E out \in Responses : Generated(out)
  <2>1. UNCHANGED <<changes, phase, orig, fileMetrics, rung, attempts, lastTier, result>>
        /\ output' \in Responses /\ at' = "parse" /\ at = "generate" /\ phase = "idle"
        /\ ~Running
    BY <1>5 DEF Generated, writerVars, history, Ran, Running
  <2> QED
    BY <2>1, <1>3 DEF Ran
<1>6. CASE GenerateFails \/ Exhausted
  <2>1. UNCHANGED <<changes, phase, orig, fileMetrics, rung, attempts, lastTier, output>>
        /\ at' = "done" /\ result' \in {"parse_failed", "generate_failed"}
        /\ phase = "idle" /\ ~Running
    BY <1>6 DEF GenerateFails, Exhausted, Finish, writerVars, history, Ran, Running
  <2> QED
    BY <2>1, <1>3 DEF Ran
<1>7. CASE ParseFails
  <2>1. UNCHANGED <<changes, phase, orig, fileMetrics, attempts, lastTier, output, result>>
        /\ at' = "ladder" /\ at = "parse" /\ rung' = rung + 1 /\ phase = "idle" /\ ~Running
    BY <1>7 DEF ParseFails, writerVars, history, Ran, Running
  <2>2. attempts' \in rung'-1..rung'
    BY <2>1, <1>1, <1>2
  <2> QED
    BY <2>1, <2>2, <1>3 DEF Ran
<1>8. CASE ApplyOutput
  <2>1. /\ UNCHANGED <<orig, fileMetrics, rung, attempts, lastTier, output, result>>
        /\ at' = "apply" /\ at = "parse" /\ output \in Responses
        /\ ParseReason(output) = NoReason /\ ApplyBegin(Operations(output))
        /\ result = "running"
    BY <1>8 DEF ApplyOutput, ApplyBegin, history, Ran
  <2>2. phase' \in {"op", "failed"}
    BY <2>1 DEF ApplyBegin
  <2>3. Running' => PlanFor(orig, output, changes')
    BY <2>1, <2>2, BeginWInv DEF Running
  <2>4. PlanFor(orig, output, changes)' = PlanFor(orig, output, changes')
    BY <2>1 DEF PlanFor, PlanOf
  <2> QED
    BY <2>1, <2>2, <2>3, <2>4 DEF Ran
<1>9. CASE Apply
  <2>1. /\ UNCHANGED <<changes, orig, runVars>> /\ at = "apply"
        /\ Running' => Running
    BY <1>9, WriterKeepsPlan DEF Apply
  <2>2. PlanFor(orig, output, changes)' = PlanFor(orig, output, changes)
    BY <2>1 DEF PlanFor, PlanOf, runVars
  <2>3. result = "running"
    BY <2>1 DEF Ran
  <2> QED
    BY <2>1, <2>2, <2>3 DEF Ran, runVars
<1>10. CASE WriteFailed
  <2>1. UNCHANGED <<changes, phase, orig, fileMetrics, rung, attempts, lastTier, output>>
        /\ at' = "done" /\ result' = "write_failed" /\ phase = "failed" /\ ~Running
    BY <1>10 DEF WriteFailed, Finish, writerVars, history, Running
  <2> QED
    BY <2>1, <1>3 DEF Ran
<1>11. CASE Succeed
  <2>1. UNCHANGED <<changes, phase, orig, rung, attempts, lastTier, output>>
        /\ at' = "done" /\ result' = "applied" /\ phase = "applied" /\ at = "apply"
        /\ fileMetrics' = [o \in DOMAIN fileMetrics |-> fileMetrics[o] + Count(o)]
        /\ result = "running"
    BY <1>11 DEF Succeed, Finish, writerVars, history, Ran
  <2>2. /\ fileMetrics' \in [Operation -> Nat]
        /\ \A o \in Operation : fileMetrics'[o] = Count(o)
    <3>1. DOMAIN fileMetrics = Operation /\ \A o \in Operation : fileMetrics[o] = 0
      BY <2>1 DEF Ran
    <3>2. \A o : Count(o) \in Nat
      BY CountType
    <3> QED
      BY <2>1, <3>1, <3>2
  <2>3. \A o \in Operation : fileMetrics'[o] = Count(o)'
    BY <2>1, <2>2, <1>3
  <2>4. PlanFor(orig, output, changes)'
    BY <2>1, <1>3 DEF Ran, Running
  <2> QED
    BY <2>1, <2>2, <2>3, <2>4 DEF Ran
<1>12. CASE CancelRun \/ UNCHANGED vars
  <2>1. UNCHANGED <<changes, phase, orig, runVars>>
    BY <1>12 DEF CancelRun, Cancel, vars, writerVars, history
  <2> QED
    BY <2>1, <1>3 DEF Ran, runVars
<1> QED
  BY <1>4, <1>5, <1>6, <1>7, <1>8, <1>9, <1>10, <1>11, <1>12 DEF Next, Step

LEMMA StepTaskInv == TaskInv /\ [Next]_vars => TaskInv'
  BY StepIInv, StepWInv, StepRan DEF TaskInv

LEMMA TaskInvHolds == Spec => []TaskInv
  BY InitTaskInv, StepTaskInv, PTL DEF Spec

\* A task and its batch stay within their types, and rung, attempts and ladder agree.
THEOREM TypeCorrect == Spec => []TypeOK
<1>1. ASSUME TaskInv PROVE TypeOK
  <2>1. WriterTypes /\ IInv /\ Ran
    BY <1>1 DEF TaskInv, WInv
  <2>2. Plans = PlanType
    BY <2>1 DEF Ran, Plans, PlanType
  <2>3. rung \in 1..Len(Ladder) + 1
    <3>1. Len(Ladder) \in Nat
      BY <2>1, LadderShape DEF IInv, LadderTypes
    <3> QED
      BY <2>1, <3>1 DEF IInv, LadderTypes
  <2>4. at \in {"ladder", "generate", "parse", "apply", "done"} /\ tier \in Tier
    BY <2>1 DEF IInv, LadderTypes, Position
  <2> HIDE DEF Plans, PlanType
  <2> QED
    BY <2>1, <2>2, <2>3, <2>4
    DEF TypeOK, WriterTypes, Ran, Operation, UndoFileType, UndoDirsType
<1> QED
  BY <1>1, TaskInvHolds, PTL

\* No staging file outlives its batch unless its removal failed.
THEOREM StagingRemoved == Spec => []StagingEnds
<1>1. TaskInv => StagingEnds
  BY DEF TaskInv, WInv, Staged, StagingEnds
<1> QED
  BY <1>1, TaskInvHolds, PTL

\* Neither a batch nor its rollback changes what lies outside the worktree, or a
\* link, in whichever order operations and failures come.
THEOREM StaysInside == Spec => []WorktreeOnly
<1>1. ASSUME TaskInv PROVE WorktreeOnly
  <2>1. WriterTypes /\ Staged /\ Confined
    BY <1>1 DEF TaskInv, WInv
  <2> QED
    BY <2>1 DEF Staged, Confined, WorktreeOnly
<1> QED
  BY <1>1, TaskInvHolds, PTL

\* When a task has succeeded its whole plan has happened.
LEMMA AppliedFacts ==
  ASSUME TaskInv, result = "applied"
  PROVE  /\ phase = "applied" /\ PlanFor(orig, output, changes)
         /\ orig \in Trees /\ fs \in [Loc -> Held] /\ orig \in [Loc -> Held]
         /\ changes \in Seq(PlanType) /\ Planning \subseteq PlanType
         /\ \A o \in Operation : fileMetrics[o] = Count(o)
         /\ DOMAIN fileMetrics = Operation
         /\ \A l : ~Excused(l)
         /\ \A c \in Planning : /\ SoundPlan(orig, c)
                                /\ InstallsFile(c) => fs[c.loc] = c.content
                                /\ RemovesFile(c) => fs[c.loc] = ABSENT
         /\ \A c, d \in Planning : c.loc = d.loc => c = d
         /\ \A l \in Loc : fs[l] # orig[l] =>
               \/ \E c \in Planning : Changing(c) /\ c.loc = l
               \/ /\ fs[l] = DIR /\ orig[l] = ABSENT
                  /\ \E c \in Planning : InstallsFile(c) /\ l \in Above[c.loc]
         /\ \A l \in Loc : fs[l] # ABSENT => \A a \in Above[l] : fs[a] = DIR
<1>1. WInv /\ Ran /\ WriterTypes /\ Queue /\ Effects
  BY DEF TaskInv, WInv
<1>2. phase = "applied" /\ Running
  BY <1>1 DEF Ran, Running
<1>3. Left = {}
  BY <1>1, <1>2 DEF Queue, Left, ToSet
<1>4. changes \in Seq(PlanType) /\ Planning \subseteq PlanType
  BY <1>1, ToSetMember DEF WriterTypes, Planning
<1>5. orig \in Trees /\ fs \in [Loc -> Held] /\ orig \in [Loc -> Held]
  BY <1>1, KeepsWays DEF WriterTypes
<1>6. \A l : ~Excused(l)
  BY <1>1, <1>2, NothingExcused DEF Queue
<1>7. /\ PlanFor(orig, output, changes) /\ DOMAIN fileMetrics = Operation
      /\ \A o \in Operation : fileMetrics[o] = Count(o)
  BY <1>1, <1>2 DEF Ran
<1> QED
  BY <1>1, <1>2, <1>3, <1>4, <1>5, <1>6, <1>7 DEF Queue, Effects

\* What a successful task reports is what happened, and nothing else has.
THEOREM ReportsTruly == Spec => []ChangesAreTrue
<1>1. ASSUME TaskInv, result = "applied"
      PROVE  /\ \A i \in DOMAIN changes :
                  LET c == changes[i]
                  IN  CASE c.operation = "create" ->
                                orig[c.loc] = ABSENT /\ fs[c.loc] = c.content
                        [] c.operation = "modify" ->
                                orig[c.loc] \in Content /\ fs[c.loc] = c.content
                        [] c.operation = "delete" ->
                                orig[c.loc] \in Content /\ fs[c.loc] = ABSENT
                        [] OTHER -> orig[c.loc] = ABSENT /\ fs[c.loc] \in {ABSENT, DIR}
             /\ \A l \in Loc : fs[l] # orig[l] =>
                  \E i \in DOMAIN changes :
                      \/ l = changes[i].loc
                      \/ l \in Above[changes[i].loc] /\ fs[l] = DIR
             /\ \A o \in DOMAIN fileMetrics : fileMetrics[o] = Count(o)
  <2>1. ASSUME NEW i \in DOMAIN changes
        PROVE  LET c == changes[i]
               IN  CASE c.operation = "create" ->
                             orig[c.loc] = ABSENT /\ fs[c.loc] = c.content
                     [] c.operation = "modify" ->
                             orig[c.loc] \in Content /\ fs[c.loc] = c.content
                     [] c.operation = "delete" ->
                             orig[c.loc] \in Content /\ fs[c.loc] = ABSENT
                     [] OTHER -> orig[c.loc] = ABSENT /\ fs[c.loc] \in {ABSENT, DIR}
    <3>1. PICK c : c = changes[i]
      OBVIOUS
    <3>2. c \in Planning /\ c \in PlanType
      BY <1>1, <3>1, AppliedFacts, ToSetMember DEF Planning
    <3>3. c.loc \in Loc /\ c.operation \in Operation
      BY <3>2 DEF PlanType
    <3>4. /\ SoundPlan(orig, c)
          /\ InstallsFile(c) => fs[c.loc] = c.content
          /\ RemovesFile(c) => fs[c.loc] = ABSENT
      BY <1>1, <3>2, AppliedFacts
    <3>5. ASSUME c.operation = "skipped" PROVE fs[c.loc] \in {ABSENT, DIR}
      <4>1. ~Changing(c) /\ orig[c.loc] = ABSENT
        BY <3>4, <3>5 DEF Changing, InstallsFile, RemovesFile, SoundPlan
      <4>2. ASSUME NEW d \in Planning, Changing(d), d.loc = c.loc PROVE FALSE
        BY <4>1, <4>2, <1>1, <3>2, AppliedFacts
      <4> QED
        BY <4>1, <4>2, <1>1, <3>3, AppliedFacts
    <3>6. c.operation \in {"create", "modify", "delete", "skipped"}
      BY <3>3 DEF Operation
    <3> QED
      BY <3>1, <3>4, <3>5, <3>6 DEF SoundPlan, InstallsFile, RemovesFile
  <2>2. ASSUME NEW l \in Loc, fs[l] # orig[l]
        PROVE  \E i \in DOMAIN changes : \/ l = changes[i].loc
                                         \/ l \in Above[changes[i].loc] /\ fs[l] = DIR
    <3>1. PICK c \in Planning : c.loc = l \/ (fs[l] = DIR /\ l \in Above[c.loc])
      BY <1>1, <2>2, AppliedFacts
    <3>2. PICK i \in DOMAIN changes : changes[i] = c
      BY <1>1, AppliedFacts, ToSetMember DEF Planning
    <3> QED
      BY <3>1, <3>2
  <2> QED
    BY <2>1, <2>2, <1>1, AppliedFacts
<1>2. TaskInv => ChangesAreTrue
  BY <1>1 DEF ChangesAreTrue
<1> QED
  BY <1>2, TaskInvHolds, PTL

\* What a successful task wrote is found under the name it was given, links
\* followed as they now stand; a name it deleted finds no file.
THEOREM FoundUnderItsName == Spec => []ReadsBack
<1>1. ASSUME TaskInv, result = "applied", NEW o \in ToSet(Operations(output))
      PROVE  LET held == Holds(fs, Found(fs, Rel[o.name])[Len(Rel[o.name])])
             IN  IF o.kind = "write" THEN held = o.content ELSE held \notin Content
  <2> DEFINE path == Rel[o.name]
             at0 == Found(fs, path)[Len(path)]
             b == Operations(output)
  <2>1. PICK i \in 1..Len(b) : b[i] = o
    BY <1>1, AppliedFacts, PlanForFacts, ToSetMember
  <2>2. PICK l : l = Resolve[orig][o.name]
    OBVIOUS
  <2>3. /\ o \in Op /\ changes[i] = PlanOf(orig, o) /\ l # NULL /\ Holds(orig, l) # DIR
        /\ orig \in Trees /\ changes[i] \in Planning
    BY <1>1, <2>1, <2>2, AppliedFacts, PlanForFacts, ToSetMember DEF Planning
  <2>4. PICK c \in Planning : c = PlanOf(orig, o)
    BY <2>3
  <2>5. /\ c \in PlanType /\ SoundPlan(orig, c) /\ c.loc = l /\ c.content = o.content
        /\ InstallsFile(c) <=> o.kind = "write"
        /\ RemovesFile(c) <=> o.kind = "delete" /\ orig[l] # ABSENT
        /\ \E m : Resolution(orig, path, l, m)
        /\ path \in Seq(Component)
    BY <2>2, <2>3, <2>4, PlanOfFacts
  <2>6. l \in Loc /\ c.content \in Content /\ o.kind \in {"write", "delete"}
    BY <2>3, <2>5 DEF PlanType, Op
  <2>7. /\ InstallsFile(c) => fs[l] = c.content
        /\ RemovesFile(c) => fs[l] = ABSENT
    BY <1>1, <2>5, AppliedFacts
  <2>8. /\ ABSENT \notin Content /\ DIR \notin Content /\ LINK \notin Content
        /\ DIR # LINK /\ ABSENT # LINK
    BY PathAssumption
  <2>9. \A k \in Loc : orig[k] = DIR => fs[k] = DIR
    BY <1>1, KeepsWays DEF TaskInv
  <2>10. ASSUME NEW k \in Loc PROVE orig[k] = LINK <=> fs[k] = LINK
    <3>1. orig[k] = LINK => fs[k] = LINK
      BY <1>1, KeepsWays DEF TaskInv
    <3>2. ASSUME fs[k] = LINK, orig[k] # LINK PROVE FALSE
      <4>1. PICK d \in Planning : Changing(d) /\ d.loc = k
        BY <1>1, <2>8, <3>2, AppliedFacts
      <4>2. fs[k] \in Content \cup {ABSENT}
        BY <1>1, <4>1, AppliedFacts DEF Changing, PlanType
      <4> QED
        BY <4>2, <3>2, <2>8
    <3> QED
      BY <3>1, <3>2
  <2>11. fs \in [Loc -> Held]
    BY <1>1, AppliedFacts
  <2> HIDE DEF path, at0
  <2>12. PICK m : Resolution(orig, path, l, m)
    BY <2>5
  <2>13. /\ at0 \in {NULL, l}
         /\ (\/ \A a \in Above[l] : fs[a] = DIR
             \/ orig[l] # ABSENT) => at0 = l
    BY <2>3, <2>5, <2>6, <2>9, <2>10, <2>11, <2>12, FoundAgain DEF at0
  <2>14. CASE o.kind = "write"
    <3>1. fs[l] = o.content /\ fs[l] # ABSENT
      BY <2>5, <2>6, <2>7, <2>8, <2>14
    <3>2. \A a \in Above[l] : fs[a] = DIR
      BY <1>1, <2>6, <3>1, AppliedFacts
    <3>3. Holds(fs, at0) = o.content
      BY <2>6, <2>13, <3>1, <3>2, HoldsPlace
    <3> QED
      BY <3>3, <2>14 DEF at0, path
  <2>15. CASE o.kind = "delete"
    <3>1. fs[l] \notin Content
      <4>1. CASE orig[l] # ABSENT
        BY <4>1, <2>5, <2>7, <2>8, <2>15
      <4>2. CASE orig[l] = ABSENT
        <5>1. ~Changing(c)
          BY <4>2, <2>5, <2>15 DEF Changing
        <5>2. ASSUME NEW d \in Planning, Changing(d), d.loc = l PROVE FALSE
          BY <5>1, <5>2, <1>1, <2>5, AppliedFacts
        <5> QED
          BY <4>2, <5>2, <1>1, <2>6, <2>8, AppliedFacts
      <4> QED
        BY <4>1, <4>2
    <3>2. Holds(fs, at0) \notin Content
      BY <2>6, <2>8, <2>13, <3>1, HoldsPlace
    <3> QED
      BY <3>2, <2>15 DEF at0, path
  <2> QED
    BY <2>6, <2>14, <2>15
<1>2. TaskInv => ReadsBack
  BY <1>1 DEF ReadsBack
<1> QED
  BY <1>2, TaskInvHolds, PTL

\* While a batch is carried out, a file vanishes only once every write is in place.
THEOREM DeletesComeLast == Spec => DeletesLast
<1>1. ASSUME TaskInv, [Next]_vars,
             NEW l \in Loc, IsFile(l), fs'[l] = ABSENT, phase = "op",
             NEW i \in DOMAIN changes, InstallsFile(changes[i])
      PROVE  fs[changes[i].loc] = changes[i].content
  <2>1. WInv /\ WriterTypes /\ Queue /\ Effects /\ Running /\ Ran
    BY <1>1 DEF TaskInv, WInv, Running
  <2>2. fs[l] \in Content /\ ABSENT \notin Content /\ DIR # ABSENT
    BY <1>1, PathAssumption DEF IsFile
  <2>3. fs' # fs
    BY <1>1, <2>2
  <2>4. WriterStep
    BY <1>1, <2>3 DEF Next, Step, StartRung, Generated, GenerateFails, ParseFails,
       ApplyOutput, ApplyBegin, Apply, WriteFailed, Succeed, Exhausted, CancelRun,
       Cancel, vars
  <2>5. ~MakeDirs
    <3>1. ASSUME MakeDirs PROVE fs'[l] \in {DIR, fs[l]}
      BY <3>1 DEF MakeDirs
    <3> QED
      BY <3>1, <1>1, <2>2
  <2>6. ~MakeDirsFails
    <3>1. ASSUME MakeDirsFails PROVE fs'[l] \in {DIR, fs[l]}
      BY <3>1 DEF MakeDirsFails
    <3> QED
      BY <3>1, <1>1, <2>2
  <2>7. Delete
    BY <1>1, <2>3, <2>4, <2>5, <2>6
    DEF WriterStep, OpCancelled, Stage, StageFails, Install, InstallFails, DeleteFails,
        Applied, UndoDirs, UndoFile, UndoFails, RolledBack
  <2>8. todo # <<>> /\ RemovesFile(cur)
    BY <2>7 DEF Delete, AtDelete
  <2>9. changes[i] \in Planning
    BY <1>1, <2>1, ToSetMember DEF WriterTypes, Planning
  <2>10. changes[i] \notin Left
    <3>1. ASSUME changes[i] \in Left PROVE FALSE
      <4>1. /\ todo \in Seq(PlanType) /\ DOMAIN todo = 1..Len(todo) /\ Len(todo) \in Nat
            /\ cur = todo[1] /\ 1 \in DOMAIN todo
        BY <2>1, <2>8 DEF WriterTypes, cur
      <4>2. PICK j \in 1..Len(todo) : todo[j] = changes[i]
        BY <3>1, <4>1, ToSetMember DEF Left
      <4>3. j = 1 \/ 1 < j
        BY <4>1
      <4>4. RemovesFile(changes[i])
        BY <2>1, <2>8, <4>1, <4>2, <4>3 DEF Queue
      <4> QED
        BY <1>1, <4>4 DEF InstallsFile, RemovesFile
    <3> QED
      BY <3>1
  <2> QED
    BY <1>1, <2>1, <2>9, <2>10 DEF Effects
<1>2. ASSUME TaskInv, [Next]_vars
      PROVE  [\A l \in Loc : IsFile(l) /\ fs'[l] = ABSENT /\ phase = "op" =>
                \A i \in DOMAIN changes :
                   InstallsFile(changes[i]) =>
                      fs[changes[i].loc] = changes[i].content]_vars
  BY <1>1, <1>2
<1> QED
  BY <1>2, TaskInvHolds, PTL DEF Spec, DeletesLast

-----------------------------------------------------------------------------
(* A task is one atomic change of the worktree, or none.                    *)

\* What a batch asks for is one of the batches AtomicBatch may commit.
LEMMA AskedIsBatch ==
  ASSUME NEW t \in Trees, NEW out, NEW cs, PlanFor(t, out, cs)
  PROVE  Asked(t, out) \in Batches(t)
<1>1. out \in Responses /\ ParseReason(out) = NoReason
  BY DEF PlanFor
<1>2. Acceptable(t, out)
  BY <1>1, AskedFacts DEF Acceptable
<1> QED
  BY <1>1, <1>2 DEF Batches

\* A tree all of whose plan has happened is the effect of the batch.
LEMMA AppliedIsEffect ==
  ASSUME TaskInv, result = "applied"
  PROVE  [l \in Loc |-> fs[l]] = A!Effect(orig, Asked(orig, output))
<1> DEFINE b == Asked(orig, output)
           W == A!Writes(b)
           D == A!Deletes(b)
<1>1. /\ \A c \in Planning : \E o \in b : Matching(o, c)
      /\ \A o \in b : (\E c \in Planning : Matching(o, c)) /\ o.kind \in {"write", "delete"}
      /\ \A o, p \in b : o.loc = p.loc => o = p
  BY AppliedFacts, AskedFacts DEF Planning
<1>2. /\ W = {o \in b : o.kind = "write"} /\ D = {o \in b : o.kind = "delete"}
  BY DEF A!Writes, A!Deletes
<1>3. A!Effect(orig, b) =
        [l \in Loc |->
           IF \E o \in W : o.loc = l THEN (CHOOSE o \in W : o.loc = l).content
           ELSE IF orig[l] # ABSENT /\ \E o \in D : o.loc = l THEN ABSENT
           ELSE IF \E o \in W : l \in Above[o.loc] THEN DIR
           ELSE orig[l]]
  BY DEF A!Effect
<1>4. ABSENT \notin Content
  BY PathAssumption
<1> HIDE DEF b, W, D
<1>5. \A c \in Planning : /\ SoundPlan(orig, c) /\ c.loc \in Loc /\ c.content \in Content
                          /\ InstallsFile(c) => fs[c.loc] = c.content
                          /\ RemovesFile(c) => fs[c.loc] = ABSENT
  BY AppliedFacts DEF PlanType
<1>6. ASSUME NEW o \in W
      PROVE  /\ o.loc \in Loc /\ fs[o.loc] = o.content /\ fs[o.loc] # ABSENT
  <2>1. PICK c \in Planning : Matching(o, c)
    BY <1>1, <1>2
  <2> QED
    BY <2>1, <1>2, <1>4, <1>5 DEF Matching
<1>7. ASSUME NEW o \in D, orig[o.loc] # ABSENT
      PROVE  fs[o.loc] = ABSENT
  <2>1. PICK c \in Planning : Matching(o, c)
    BY <1>1, <1>2
  <2> QED
    BY <2>1, <1>2, <1>5, <1>7 DEF Matching, SoundPlan
<1>8. ASSUME NEW c \in Planning
      PROVE  /\ InstallsFile(c) => \E o \in W : o.loc = c.loc
             /\ RemovesFile(c) => orig[c.loc] # ABSENT /\ \E o \in D : o.loc = c.loc
  <2>1. PICK o \in b : Matching(o, c)
    BY <1>1
  <2> QED
    BY <2>1, <1>2, <1>5 DEF Matching, SoundPlan
<1>9. ASSUME NEW l \in Loc
      PROVE  fs[l] = IF \E o \in W : o.loc = l THEN (CHOOSE o \in W : o.loc = l).content
                     ELSE IF orig[l] # ABSENT /\ \E o \in D : o.loc = l THEN ABSENT
                     ELSE IF \E o \in W : l \in Above[o.loc] THEN DIR
                     ELSE orig[l]
  <2>1. CASE \E o \in W : o.loc = l
    <3>1. (CHOOSE o \in W : o.loc = l) \in W /\ (CHOOSE o \in W : o.loc = l).loc = l
      BY <2>1
    <3> QED
      BY <2>1, <3>1, <1>6
  <2>2. CASE ~(\E o \in W : o.loc = l) /\ orig[l] # ABSENT /\ \E o \in D : o.loc = l
    BY <2>2, <1>7
  <2>3. CASE /\ ~\E o \in W : o.loc = l
             /\ ~(orig[l] # ABSENT /\ \E o \in D : o.loc = l)
    <3>1. ASSUME NEW c \in Planning, Changing(c), c.loc = l PROVE FALSE
      BY <3>1, <2>3, <1>8 DEF Changing
    <3>2. CASE \E o \in W : l \in Above[o.loc]
      <4>1. PICK o \in W : l \in Above[o.loc]
        BY <3>2
      <4>2. fs[l] = DIR
        BY <4>1, <1>6, AppliedFacts
      <4> QED
        BY <2>3, <3>2, <4>2
    <3>3. CASE ~\E o \in W : l \in Above[o.loc]
      <4>1. ASSUME NEW c \in Planning, InstallsFile(c), l \in Above[c.loc] PROVE FALSE
        BY <4>1, <3>3, <1>8
      <4>2. fs[l] = orig[l]
        BY <3>1, <4>1, AppliedFacts
      <4> QED
        BY <2>3, <3>3, <4>2
    <3> QED
      BY <3>2, <3>3
  <2> QED
    BY <2>1, <2>2, <2>3
<1> QED
  BY <1>3, <1>9 DEF b

\* A task that has succeeded did all of an accepted batch.
Done ==
    result = "applied" =>
        /\ PlanFor(orig, output, changes)
        /\ \A l : ~Excused(l)
        /\ [l \in Loc |-> fs[l]] = A!Effect(orig, Asked(orig, output))

LEMMA DoneHolds == TaskInv => Done
  BY AppliedFacts, AppliedIsEffect DEF Done

Outcome == IF result \in {"running", "applied"} THEN result ELSE "failed"

LEMMA StepAtomic ==
  ASSUME TaskInv, TaskInv', Done', [Next]_vars
  PROVE  [A!Next]_<<Shown, Outcome>>
<1>1. orig' = orig
  BY WriterKeepsPlan DEF Next, Step, StartRung, Generated, GenerateFails, ParseFails,
     ApplyOutput, ApplyBegin, Apply, WriteFailed, Succeed, Exhausted, CancelRun, Cancel,
     vars, history, TaskInv
<1>2. orig \in [Loc -> Held] /\ orig \in Trees
  BY KeepsWays DEF TaskInv, WInv, WriterTypes
<1>3. CASE result' = "running"
  <2>1. result = "running"
    BY <1>3 DEF TaskInv, Ran, Next, Step, StartRung, Generated, GenerateFails, ParseFails,
       ApplyOutput, Apply, WriteFailed, Succeed, Exhausted, CancelRun, Finish,
       vars, runVars
  <2> QED
    BY <2>1, <1>1, <1>3 DEF Shown, Outcome
<1>4. CASE result' # "running" /\ result # "running"
  <2>1. at = "done"
    BY <1>4 DEF TaskInv, Ran
  <2>2. UNCHANGED vars
    BY <2>1 DEF Next, Step, StartRung, Generated, GenerateFails, ParseFails,
       ApplyOutput, Apply, WriteFailed, Succeed, Exhausted, CancelRun
  <2> QED
    BY <2>2 DEF Shown, Outcome, Excused, vars, runVars, history
<1>5. CASE result' # "running" /\ result = "running"
  <2>1. Shown = orig /\ Outcome = "running"
    BY <1>5 DEF Shown, Outcome
  <2>2. Shown' = [l \in Loc |-> IF Excused(l)' THEN orig[l] ELSE fs'[l]]
    BY <1>1, <1>5 DEF Shown
  <2>3. CASE result' = "applied"
    <3>1. \A l : ~Excused(l)'
      BY <2>3 DEF Done
    <3>2. Shown' = [l \in Loc |-> fs'[l]]
      BY <2>2, <3>1
    <3>3. Shown' = A!Effect(orig, Asked(orig, output'))
      <4>1. ([l \in Loc |-> fs[l]] = A!Effect(orig, Asked(orig, output)))'
        BY <2>3 DEF Done
      <4> QED
        BY <4>1, <3>2, <1>1 DEF A!Effect, A!Writes, A!Deletes, Asked
    <3>4. PlanFor(orig, output', changes')
      <4>1. PlanFor(orig, output, changes)'
        BY <2>3 DEF Done
      <4> QED
        BY <4>1, <1>1 DEF PlanFor, PlanOf
    <3>5. Asked(orig, output') \in Batches(Shown)
      BY <3>4, <1>2, <2>1, AskedIsBatch
    <3>6. Outcome' = "applied"
      BY <2>3 DEF Outcome
    <3> QED
      BY <2>1, <3>3, <3>5, <3>6 DEF A!Next, A!Commit, Outcome
  <2>4. CASE result' # "applied"
    <3>1. phase' \in {"failed", "idle"}
      BY <1>5, <2>4 DEF TaskInv, Ran
    <3>2. undos' = <<>>
      BY <3>1 DEF TaskInv, WInv, Untouched
    <3>3. \A l \in Loc : fs'[l] # orig[l] => Excused(l)'
      BY <1>1, <3>1, <3>2 DEF TaskInv, WInv, Undoable
    <3>4. Shown' = orig
      BY <1>2, <2>2, <3>3
    <3>5. Outcome' = "failed"
      BY <1>5, <2>4 DEF Outcome
    <3> QED
      BY <2>1, <3>4, <3>5 DEF A!Next, A!Abort, Outcome
  <2> QED
    BY <2>3, <2>4
<1> QED
  BY <1>3, <1>4, <1>5

\* Executor implements AtomicBatch: whatever fails, a task's worktree ends as the
\* effect of one accepted batch on the tree it began with, or as that tree.
THEOREM ImplementsAtomicBatch == Spec => Atomic
<1>1. Init => A!Init
  BY DEF Init, A!Init
<1>2. TaskInv /\ TaskInv' /\ Done' /\ [Next]_vars => [A!Next]_<<Shown, Outcome>>
  BY StepAtomic
<1> QED
  BY <1>1, <1>2, DoneHolds, TaskInvHolds, PTL DEF Spec, Atomic, A!Spec, Outcome

=============================================================================

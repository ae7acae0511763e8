------------------------------ MODULE PathSafe ------------------------------
(***************************************************************************)
(* internal/filewriter, PathValidator.Resolve: from the path a model names *)
(* to the place it leads to in the file system, or to a refusal.           *)
(*                                                                         *)
(* A place is an absolute path without symlinks: the sequence of its       *)
(* components.  A tree says what each place holds; the worktree's root and *)
(* the directories above it are directories in every tree.  Loc holds the  *)
(* places a task could reach, outside the worktree too, so that escaping   *)
(* it is something the model can do.  What a symlink leads to is given     *)
(* with every further link on the way followed; the gateway creates none.  *)
(* A pattern of .gitignore is the set of what its glob matches.            *)
(***************************************************************************)
EXTENDS Parser

CONSTANTS
    Component,     \* the names of single directories and files
    Root,          \* the worktree, canonical
    Loc,           \* the places that matter
    Rel,           \* the clean relative path of each name, NULL if it escapes
    Link,          \* where each symlink leads, NULL for a loop
    Trees,         \* the trees a task may start in
    Binary,        \* the file names with a binary extension
    Rules,         \* the rules of .gitignore, in order
    ABSENT, DIR, LINK, NULL

Held == Content \cup {ABSENT, DIR, LINK}

Place == Loc \cup {SubSeq(Root, 1, i) : i \in 0..Len(Root)}

\* The directories above each place, those in Place \ Loc excepted.
Above == [l \in Loc |-> {k \in Loc : IsStrictPrefix(k, l)}]

\* Loc is closed: with a place it has what lies above it.  In a tree a task may
\* start in, what lies above something is a directory.
ASSUME PathAssumption ==
    /\ Root \in Seq(Component) /\ Loc \subseteq Seq(Component)
    /\ \A l \in Loc : \A i \in 0..Len(l) : SubSeq(l, 1, i) \in Place
    /\ Trees \subseteq [Loc -> Held]
    /\ \A t \in Trees, l \in Loc :
          t[l] # ABSENT => \A k \in Above[l] : t[k] = DIR
    /\ {ABSENT, DIR, LINK} \cap Content = {}
    /\ ABSENT # DIR /\ ABSENT # LINK /\ DIR # LINK
    /\ \A t \in Trees : {l \in Loc : t[l] = LINK} = DOMAIN Link
    /\ \A l \in DOMAIN Link : Link[l] \in (Place \ DOMAIN Link) \cup {NULL}
    /\ \A l \in Loc : ~IsPrefix(l, Root)
    /\ NULL \notin Place
    /\ Rel \in [Name -> (Seq(Component) \ {<<>>}) \cup {NULL}]

Holds(t, l) ==
    IF l \in Loc THEN t[l] ELSE IF l \in Place THEN DIR ELSE ABSENT

\* Where the system finds the first i components of a path, links followed, for
\* each i; NULL once a component on the way is not a directory.
Found(t, path) ==
    LET found[i \in 0..Len(path)] ==
            IF i = 0 THEN Root
            ELSE IF Holds(t, found[i-1]) # DIR THEN NULL
            ELSE LET l == Append(found[i-1], path[i])
                 IN  IF Holds(t, l) = LINK THEN Link[l] ELSE l
    IN  found

\* Defect: whatever the links say, the path began in the worktree.
InsideAll(l) == l # NULL

\* contains: the place is the worktree or lies beneath it.
Inside(l) == IsPrefix(Root, l)

\* Defect: the missing components are rejoined without the last of them.
RejoinShort(found, path, i) == found[i] \o SubSeq(path, i + 1, Len(path) - 1)

Rejoin(found, path, i) == found[i] \o SubSeq(path, i + 1, Len(path))

\* resolveWithin: the deepest component Lstat sees is canonicalized and the
\* missing ones are rejoined.  A dangling link or a loop is seen and cannot be
\* canonicalized; below a file Lstat fails with something else than "not found".
ResolveWithin(t, path) ==
    LET found == Found(t, path)
        seen(i) == /\ Holds(t, found[i-1]) = DIR
                   /\ Holds(t, Append(found[i-1], path[i])) # ABSENT
        probe == Max({0} \cup {i \in DOMAIN path : seen(i)})
        holds == Holds(t, found[probe])
    IN  IF \/ holds = ABSENT
           \/ probe < Len(path) /\ holds # DIR
           \/ ~Inside(found[probe])
        THEN NULL
        ELSE Rejoin(found, path, probe)

-----------------------------------------------------------------------------
(* .gitignore                                                               *)

\* matches: an anchored rule, or one with a slash, is about the whole candidate,
\* any other about one of its components; a rule for directories is about the
\* directories above the path.
Matches(rule, path) ==
    \E i \in 1..Len(path) :
        /\ IF rule.dirOnly THEN i < Len(path) ELSE i = Len(path)
        /\ IF rule.anchored \/ rule.hasSlash
           THEN SubSeq(path, 1, i) \in rule.glob
           ELSE \E j \in 1..i : <<path[j]>> \in rule.glob

\* Match: the last rule that matches decides.
Ignored(path) ==
    LET matching == {k \in DOMAIN Rules : Matches(Rules[k], path)}
    IN  matching # {} /\ ~Rules[Max(matching)].negate

-----------------------------------------------------------------------------
\* Resolve: the place an accepted name leads to, NULL for a refused one.  A batch
\* is planned before anything is touched, so the tree is one a task may start in.
Resolve ==
    [t \in Trees |-> [name \in Name |->
        LET path == Rel[name]
        IN  IF path = NULL \/ Last(path) \in Binary \/ Ignored(path) THEN NULL
            ELSE ResolveWithin(t, path)]]

\* Loc has every place a task can reach.
ASSUME ReachAssumption ==
    \A t \in Trees, n \in Name : Resolve[t][n] \in Place \cup {NULL}

=============================================================================

---------------------------- MODULE MCExecutor ------------------------------
(***************************************************************************)
(* A worktree w with a file a at its root and a directory d two levels     *)
(* deep, next to it a directory o with a file.  The worktree has four      *)
(* links: to d/y, to the directory d/e, to o, and to the directory w       *)
(* itself lies in; the first two dangle while d/y and d/e do not exist.    *)
(***************************************************************************)
EXTENDS Executor

CONSTANTS
    w, o, a, d, e, x, y, z,            \* components: directories and files
    ly, le, lo, lup,                   \* the links
    na, nup, nd, nx, ny, nly, nlex, nlox, nout, nz, nbin,   \* the names
    old, new,
    qwen, glm

MCComponent == {w, o, a, d, e, x, y, z, ly, le, lo, lup}
MCRoot == <<w>>
MCLink == (<<w, ly>> :> <<w, d, y>>) @@ (<<w, le>> :> <<w, d, e>>)
          @@ (<<w, lo>> :> <<o>>) @@ (<<w, lup>> :> <<>>)
Outside == (<<o>> :> DIR) @@ (<<o, x>> :> old)

MCLoc == {<<w, a>>, <<w, d>>, <<w, d, e>>, <<w, d, e, x>>, <<w, d, y>>}
         \cup DOMAIN MCLink \cup DOMAIN Outside

MCRel == (na :> <<a>>) @@ (nup :> <<lup, w, a>>) @@ (nd :> <<d>>)
         @@ (nx :> <<d, e, x>>) @@ (ny :> <<d, y>>) @@ (nly :> <<ly>>)
         @@ (nlex :> <<le, x>>) @@ (nlox :> <<lo, x>>) @@ (nout :> NULL)
         @@ (nz :> <<d, e, z>>) @@ (nbin :> <<d, o>>)

MCBinary == {o}

\* /d/e/  then  !x
MCRules ==
    <<[glob |-> {<<d, e>>}, negate |-> FALSE, anchored |-> TRUE,
       dirOnly |-> TRUE, hasSlash |-> TRUE],
      [glob |-> {<<x>>}, negate |-> TRUE, anchored |-> FALSE,
       dirOnly |-> FALSE, hasSlash |-> FALSE]>>

Tree(f) == f @@ Outside @@ [l \in MCLoc |-> IF l \in DOMAIN MCLink THEN LINK
                                            ELSE ABSENT]
MCTrees ==
    {Tree(<<w, a>> :> old), Tree((<<w, a>> :> old) @@ (<<w, d>> :> DIR)),
     Tree(<<w, d>> :> old),
     Tree((<<w, d>> :> DIR) @@ (<<w, d, e>> :> DIR) @@ (<<w, d, e, x>> :> old)),
     Tree((<<w, d>> :> DIR) @@ (<<w, d, y>> :> old))}

MCNextTier == (qwen :> glm) @@ (glm :> NULL)

W(n) == [kind |-> "write", name |-> n, content |-> new, closed |-> TRUE]
D(n) == [kind |-> "delete", name |-> n, content |-> new, closed |-> TRUE]

Unusable ==
    {<<>>, <<[W(na) EXCEPT !.kind = "other"]>>, <<D(NoName)>>,
     <<W(nx), [W(na) EXCEPT !.closed = FALSE]>>, <<W(na), D(na)>>}
\* Among them a write beneath a place whose delete is skipped.
Batch2 == {<<b, c>> : b \in {W(n) : n \in {na, nd, nx, ny}} \cup {D(na), D(nx)},
                      c \in {W(n) : n \in {na, nup, nd, ny, nly, nlex}}
                              \cup {D(na), D(nd), D(nx), D(nly)}}
Refused == {<<W(nx), W(n)>> : n \in {nlox, nout, nz, nbin}}
MCResponses == Unusable \cup Batch2 \cup Refused
               \cup {<<D(na), W(nx), W(ny)>>, <<W(ny), D(nx), W(na)>>}

=============================================================================

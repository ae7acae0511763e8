CONSTANTS
    w = w
    o = o
    a = a
    d = d
    e = e
    x = x
    y = y
    z = z
    ly = ly
    le = le
    lo = lo
    lup = lup
    na = na
    nup = nup
    nd = nd
    nx = nx
    ny = ny
    nly = nly
    nlex = nlex
    nlox = nlox
    nout = nout
    nz = nz
    nbin = nbin
    old = old
    new = new
    qwen = qwen
    glm = glm
    ABSENT = ABSENT
    DIR = DIR
    LINK = LINK
    NULL = NULL
    NoName = NoName
    NoReason = NoReason
    Component <- MCComponent
    Root <- MCRoot
    Loc <- MCLoc
    Rel <- MCRel
    Link <- MCLink
    Trees <- MCTrees
    Binary <- MCBinary
    Rules <- MCRules
    Name = {na, nup, nd, nx, ny, nly, nlex, nlox, nout, nz, nbin}
    Content = {old, new}
    Tier = {qwen, glm}
    NextTier <- MCNextTier
    Responses <- MCResponses
SPECIFICATION FairSpec
INVARIANTS
    TypeOK
    AttemptsAccounted
    StagingEnds
    ChangesAreTrue
    WorktreeOnly
    ReadsBack
PROPERTIES
    DeletesLast
    Atomic
    RunEnds
CHECK_DEADLOCK FALSE

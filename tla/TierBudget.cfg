\* Three requests, one upstream 429 at a time, a window shorter than the run.
SPECIFICATION FairSpec
CONSTANTS
    r1 = r1  r2 = r2  r3 = r3  g1 = g1  sweeper = sweeper
    NULL = NULL
    Request = {r1, r2, r3}
    Restorer = {g1}
    Sweeper = sweeper
    Limit = 3
    Tokens = {2}
    Window = 1
    RetryAfter = 1
    MaxTime = 2
INVARIANTS
    TypeOK
    RecordKept
    BudgetHonest
PROPERTY
    MarkEnds
CHECK_DEADLOCK FALSE

\* Violated: a Deduct that finds the lock taken is not recorded.
SPECIFICATION Spec
CONSTANTS
    r1 = r1  r2 = r2  r3 = r3  g1 = g1  sweeper = sweeper
    NULL = NULL
    Request = {r1, r2, r3}
    Restorer = {g1}
    Sweeper = sweeper
    Limit = 3
    Tokens = {2}
    Window = 1
    RetryAfter = 1
    MaxTime = 2
INVARIANT
    DeductionsAreRecorded
CHECK_DEADLOCK FALSE

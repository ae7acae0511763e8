\* One session used by two handlers at once; a token window longer than the
\* idle TTL, as in the default configuration; the clock runs just far enough for
\* a deduction to leave its window and for an idle session to be evicted.
SPECIFICATION Spec
CONSTANTS
    s1 = s1  h1 = h1  h2 = h2  b1 = b1  b2 = b2  b3 = b3
    NULL = NULL
    Session = {s1}
    Handler = {h1, h2}
    Bucket = {b1, b2, b3}
    rateLimitPerMin = 2
    tokenLimitPerHour = 2
    Tokens = {1, 2}
    RateWindow = 1
    TokenWindow = 2
    IdleTTL = 1
    MaxTime = 2
SYMMETRY Symmetric
INVARIANTS
    TypeOK
    RateLimitHolds
    SpendIsKnown
    OvershootBounded

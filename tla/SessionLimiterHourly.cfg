\* Violated: a session idle for longer than the TTL is forgotten with its spend.
SPECIFICATION Spec
CONSTANTS
    s1 = s1  h1 = h1  h2 = h2  b1 = b1  b2 = b2  b3 = b3
    NULL = NULL
    Session = {s1}
    Handler = {h1, h2}
    Bucket = {b1, b2, b3}
    rateLimitPerMin = 2
    tokenLimitPerHour = 2
    Tokens = {1, 2}
    RateWindow = 1
    TokenWindow = 2
    IdleTTL = 1
    MaxTime = 2
INVARIANT
    HourlyBudget

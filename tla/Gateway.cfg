\* Two requests, each through MCP or REST; a tier that nobody knows among those
\* forced; budgets that one request uses up.
SPECIFICATION FairSpec
CONSTANTS
    Request = {r1, r2}
    Tokens = {2}
    maxRetries = 3
    Limit <- MCLimit
    ForceTier = {"local_ornith", "remote_glm", "remote_opus", "no_tier"}
    NULL = NULL
INVARIANTS
    TypeOK
    RetriesAccounted
    ChargedAsAnswered
    AnsweredByItsTier
PROPERTIES
    RequestEnds
CHECK_DEADLOCK FALSE

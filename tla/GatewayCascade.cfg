\* As Gateway.cfg, for what README.md says of the cascade.
SPECIFICATION FairSpec
CONSTANTS
    Request = {r1, r2}
    Tokens = {1, 2}
    maxRetries = 3
    Limit <- MCLimit
    ForceTier = {"local_ornith", "remote_glm", "remote_opus", "no_tier"}
    NULL = NULL
PROPERTY CascadeOnExhaustion
CHECK_DEADLOCK FALSE

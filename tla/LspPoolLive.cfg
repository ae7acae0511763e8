CONSTANTS
    Caller = {c1, c2}
    Session = {s1}
    Sweepers = {}
    Stopper = Stopper
    MaxCalls = 2
    MaxEdits = 1
    Foreign = Foreign
    NULL = NULL
SPECIFICATION FairSpec
PROPERTIES
    RequestReturns
    DeadLeavesPool
    AnswersAreCurrent
CHECK_DEADLOCK FALSE

CONSTANTS
    Caller = {c1, c2}
    Session = {s1, s2}
    Sweepers = {Sweeper}
    Stopper = Stopper
    MaxCalls = 2
    Foreign = Foreign
    NULL = NULL
SPECIFICATION Spec
SYMMETRY Symmetry
INVARIANTS
    TypeOK
    PendingAwaited
    AnswersMatch
    InFlightCounts
    ServersAreReachable
CHECK_DEADLOCK FALSE

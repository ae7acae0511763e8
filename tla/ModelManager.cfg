\* Safety: two callers, two processes, two models that fit and one that does not.
SPECIFICATION Spec
CONSTANTS
    c1 = c1  c2 = c2
    p1 = p1  p2 = p2
    ornith = ornith  qwen = qwen  huge = huge
    NULL = NULL
    Caller = {c1, c2}
    Proc = {p1, p2}
    TierName = {ornith, qwen, huge}
    Model = {ornith, qwen, huge}
    Need <- MCNeed
    TotalMiB = 16
SYMMETRY Symmetric
INVARIANTS
    TypeOK
    SwappingIsTransient
    SignalledIsMarked
    ShutdownStopsWhatItSaw
    ResidentWatched
    OneModelUnlessMiscleared
    HealthIsItsOwn
    RequestConserved

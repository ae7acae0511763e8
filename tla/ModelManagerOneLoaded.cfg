\* Violated: a late watcher makes the manager lose a running model.
SPECIFICATION Spec
CONSTANTS
    c1 = c1  c2 = c2
    p1 = p1  p2 = p2
    ornith = ornith  qwen = qwen  huge = huge
    NULL = NULL
    Caller = {c1, c2}
    Proc = {p1, p2}
    TierName = {ornith, qwen}
    Model = {ornith, qwen}
    Need <- MCNeed
    TotalMiB = 16
INVARIANT
    OnlyOneLoaded

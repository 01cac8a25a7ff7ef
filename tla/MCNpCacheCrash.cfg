SPECIFICATION Spec
CONSTANTS
    Procs = {p1, p2, p3}
    TensorCount = 3
    MaxCrashes = 3
INVARIANTS
    EveryLoadSucceeds
CHECK_DEADLOCK FALSE

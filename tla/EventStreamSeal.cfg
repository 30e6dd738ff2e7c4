SPECIFICATION Spec
CONSTANTS
    run = run
    r1 = r1
    r2 = r2
    cancel = cancel
    Producers = {run, cancel}
    Enders = {run, cancel}
    Notifying = {run}
    Overlap = FALSE
    Conns = {r1}
    Following = {r1}
    MaxBatch = 1
    MaxEvents = 2
    MaxConnects = 1
    MaxRestarts = 0
INVARIANT SealedStreamIsWhole
CHECK_DEADLOCK FALSE

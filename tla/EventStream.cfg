SPECIFICATION LiveSpec
CONSTANTS
    run = run
    cancel = cancel
    r1 = r1
    r2 = r2
    Producers = {run}
    Enders = {run}
    Notifying = {run}
    Overlap = FALSE
    Conns = {r1, r2}
    Following = {r1}
    MaxBatch = 2
    MaxEvents = 2
    MaxConnects = 2
    MaxRestarts = 1
INVARIANTS
    StreamTypeOK
    ReceivedInOrder
PROPERTIES
    EventsReachFollowers
    FinishedStreamsEnd
CHECK_DEADLOCK FALSE

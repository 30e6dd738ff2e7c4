SPECIFICATION LiveSpec
CONSTANTS
    Tasks = {t1, t2}
    NoTask = NoTask
    Items = {i1}
    MaxInterrupts = 1
    MaxDeliveries = 2
    MaxRestarts = 0
    Overlap = FALSE
    Budgets = TRUE
    SettleBlocks = FALSE
INVARIANT ResumedOnceWithEveryDecision
PROPERTIES
    CancelTakesEffect
    TerminalIsAnnounced
CHECK_DEADLOCK FALSE

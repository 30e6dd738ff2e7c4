SPECIFICATION Spec
CONSTANTS
    Tasks = {t1, t2, t3}
    NoTask = NoTask
    Items = {}
    MaxInterrupts = 0
    MaxDeliveries = 2
    MaxRestarts = 0
    Overlap = TRUE
    Budgets = FALSE
    SettleBlocks = FALSE
PROPERTY CancelledRunIsFinal
CHECK_DEADLOCK FALSE

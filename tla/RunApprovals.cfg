SPECIFICATION Spec
CONSTANTS
    Tasks = {t1}
    NoTask = NoTask
    Items = {i1, i2}
    MaxInterrupts = 1
    MaxDeliveries = 1
    MaxRestarts = 1
    Overlap = FALSE
    Budgets = TRUE
    SettleBlocks = TRUE
SYMMETRY LifecycleSymmetry
INVARIANTS
    LifecycleTypeOK
    ResumedOnceWithEveryDecision
PROPERTY DecisionsFrozen
CHECK_DEADLOCK FALSE

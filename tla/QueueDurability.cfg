SPECIFICATION Spec
CONSTANTS
    RunCmds = {}
    ControlCmds = {ctl1}
    CommitCmds = {commit1}
    ReconcileCmds = {}
    ArtifactCmds = {}
    Slots = {s1, s2}
    MaxParallel = 1
    MaxRetries = 1
    MaxEnqueues = 2
    MaxCrashes = 1
    NoCommand = NoCommand
SYMMETRY SlotSymmetry
INVARIANTS TypeOK RetryBudget
PROPERTIES RestartKeepsWork ImplementsDurableQueue

SPECIFICATION LiveSpec
CONSTANTS
    RunCmds = {}
    ControlCmds = {}
    CommitCmds = {}
    ReconcileCmds = {rec1}
    ArtifactCmds = {art1}
    Slots = {s1, s2}
    MaxParallel = 1
    MaxRetries = 1
    MaxEnqueues = 1
    MaxCrashes = 1
    NoCommand = NoCommand
INVARIANT AckedOnlyIfHandled
PROPERTIES EventuallySettled EventuallyAcked

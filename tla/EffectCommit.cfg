SPECIFICATION Spec
CONSTANTS
    Clients = {c1, c2}
    UserLanes = {route1}
    PolicyLane = policy
    MaxRevision = 1
    NoDecision = NoDecision
    Workers = {w1, w2}
    Reconcilers = {r1}
    Executors = {"browser", "builtin"}
    SharedProducer = TRUE
    MaxRestarts = 1
SYMMETRY CommitSymmetry
INVARIANTS
    CommitTypeOK
    AtMostOneApply
    
    LedgerAgreesWithClaims
    OneEffectPerRevision
    AppliedOnlyIfApprovedAndClaimed
 
CHECK_DEADLOCK FALSE

SPECIFICATION StageSpec
CONSTANTS
    Clients = {c1, c2, c3}
    UserLanes = {route1}
    PolicyLane = policy
    MaxRevision = 2
    NoDecision = NoDecision
SYMMETRY StageSymmetry
INVARIANTS
    StageTypeOK
    OneAuthorityPerRevision
    ApprovalPinned
PROPERTIES
    CancelledIsFinal
CHECK_DEADLOCK FALSE

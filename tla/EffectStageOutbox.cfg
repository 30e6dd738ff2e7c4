SPECIFICATION StageLiveSpec
CONSTANTS
    Clients = {c1}
    UserLanes = {route1}
    PolicyLane = policy
    MaxRevision = 2
    NoDecision = NoDecision
PROPERTY ApprovalReachesOutbox
CHECK_DEADLOCK FALSE

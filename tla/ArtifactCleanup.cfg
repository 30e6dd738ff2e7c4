SPECIFICATION Spec
CONSTANTS
    p1 = p1
    p2 = p2
    o1 = o1
    o2 = o2
    None = None
    Procs = {p1, p2}
    Inventory <- OneOrg
    Execs = {1, 2, 3}
    MaxActive = 2
    MaxOrgs = 1
    MaxMishaps = 2
SYMMETRY WorkerSymmetry
INVARIANTS
    TenantExclusive
    RunningIsAdmitted
PROPERTY
    CursorFollowsWork

SPECIFICATION LiveSpec
CONSTANTS
    p1 = p1
    p2 = p2
    o1 = o1
    o2 = o2
    None = None
    Procs = {p1, p2}
    Inventory <- TwoOrgs
    Execs = {1, 2}
    MaxActive = 1
    MaxOrgs = 1
    MaxMishaps = 1
INVARIANT CleanupTypeOK
PROPERTY EveryTenantComesUp

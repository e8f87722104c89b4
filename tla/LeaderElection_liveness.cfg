SPECIFICATION FairSpec
CONSTANTS
    Node = {n1, n2}
    LeaseId = {l1, l2, l3}
    NoLease = NoLease
    MaxExits = 1
    MaxDrops = 0
    MaxSteps = 1
PROPERTIES StaleLeaderReleases DeadLeaderKeyExpires
CHECK_DEADLOCK FALSE

SPECIFICATION Spec
CONSTANTS
    Node = {n1, n2}
    LeaseId = {l1, l2, l3, l4}
    NoLease = NoLease
    MaxExits = 1
    MaxDrops = 2
    MaxSteps = 1
SYMMETRY Symmetry
INVARIANTS TypeOK FencedLeader KeyIsLive
PROPERTIES HandoverThroughExpiry ImplementsLock
CHECK_DEADLOCK FALSE

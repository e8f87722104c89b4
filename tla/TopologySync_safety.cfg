\* A join, a removal or a change of leadership, with three faults.
SPECIFICATION Spec
CONSTANTS
    Node = {1, 2, 3}
    Founders = {1, 2}
    MaxEvents = 1
    MaxFaults = 3
INVARIANTS TypeOK OwnPeerIsListed
CHECK_DEADLOCK FALSE

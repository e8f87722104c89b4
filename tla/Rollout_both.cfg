\* Three peers; two rotations while the upgrade is run until it succeeds, with a
\* handover and two faults.
SPECIFICATION FairSpec
CONSTANTS
    Node = {1, 2, 3}
    MaxMoves = 1
    MaxFaults = 2
    MaxRotations = 2
INVARIANTS TypeOK AnchorIsTruth
PROPERTIES UpgradeConverges
CHECK_DEADLOCK FALSE

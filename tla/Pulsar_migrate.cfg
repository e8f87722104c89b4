\* Three peers, an outage, one manual migration, one handover.
SPECIFICATION FairSpec
CONSTANTS
    Node = {1, 2, 3}
    Job = {1, 2}
    Threshold = 2
    MaxOutages = 1
    MaxMoves = 1
    MaxManual = 1
INVARIANTS TypeOK BrokerFirst
PROPERTIES OutageIsMigrated
CHECK_DEADLOCK FALSE

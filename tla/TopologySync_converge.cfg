\* Two changes of the topology, or one and a second leader; nothing fails.
SPECIFICATION FairSpec
CONSTANTS
    Node = {1, 2, 3}
    Founders = {1, 2}
    MaxEvents = 2
    MaxFaults = 0
INVARIANTS OneMinioAtATime
PROPERTIES WatchersConverge HandlersFinish
CHECK_DEADLOCK FALSE

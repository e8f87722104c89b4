\* Two containers, a failed docker ps or a daemon restart, a failed restart.
SPECIFICATION FairSpec
CONSTANTS
    Container = {c1, c2}
    NoContainer = NoContainer
    Threshold = 2
    LoopMax = 1
    MaxLapses = 1
    MaxRefusals = 1
INVARIANTS TypeOK NoRestartStorm
PROPERTIES SickIsHandled
CHECK_DEADLOCK FALSE

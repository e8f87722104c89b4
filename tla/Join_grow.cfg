\* Two joiners, two terms, an exit or a lost request or reply, a removal, and a
\* removed host whose daemon restarts.
SPECIFICATION FairSpec
CONSTANTS
    Node = {n1, n2}
    Joiner = {j1, j2}
    NoIp = NoIp
    MaxName = 5
    MaxTerms = 2
    MaxFaults = 1
    MaxRemovals = 1
    MaxReturns = 1
INVARIANTS TypeOK NamesUniqueInOneTerm OneNamePerIp TopologyIsMembership
PROPERTIES EntryNeverOverwritten EveryJoinerGetsIn
CHECK_DEADLOCK FALSE

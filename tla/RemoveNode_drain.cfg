\* Two removals in a cluster of three and one fault: a change of leadership, an mc
\* or a handler that fails, a removal that is broken off or a peer that comes back.
\* n3 hosts Pulsar and always survives.
SPECIFICATION FairSpec
CONSTANTS
    Node = {n1, n2, n3}
    Boot = n1
    PulsarHost = n3
    NoNode = NoNode
    Job = {1, 2}
    Heirs = {n3}
    MaxFaults = 1
INVARIANTS TypeOK DrainedBeforeDeleted
 
CHECK_DEADLOCK FALSE

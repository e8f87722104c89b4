\* Exits, lost puts, stalls and changes of leadership around one job.
SPECIFICATION FairSpec
CONSTANTS
    Node = {n1, n2}
    Job = {j1}
    NoNode = NoNode
    MaxExits = 2
    MaxDrops = 3
INVARIANTS TypeOK OutcomeIsTrue
PROPERTIES TerminalIsFinalUnlessDrops RetentionSparesActive OrphanIsSwept FinishedIsPruned
CHECK_DEADLOCK FALSE

\* The two writers under the lock, and the leader's own upgrade, which takes none.
SPECIFICATION EnvFairSpec
CONSTANTS
    Writer = {"topology", "upgrade", "lead"}
    NoWriter = NoWriter
    NoFile = NoFile
    MaxRounds = 2
    MaxFails = 2
INVARIANTS EnvTypeOK FileIsWhole
PROPERTIES LockedWritesAreKept EveryWriterGetsItsTurn
CHECK_DEADLOCK FALSE

CONSTANTS
    self = self
    a = a
    b = b
    Tuple <- MCTuple
    Self <- self
    Message <- MCMessage
    MaxMsg = 2
    WorkerThreads = 2
    Line <- MCLine
    EnvFaults = {"sigint", "eof", "thread", "reset", "boot", "memory"}
SPECIFICATION FairSpec
INVARIANTS
    TypeOK
PROPERTIES
    FollowsServer
    LogOffTerminates
    WorkersEndWithServer
CHECK_DEADLOCK FALSE

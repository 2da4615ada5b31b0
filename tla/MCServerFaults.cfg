CONSTANTS
    w1 = w1
    w2 = w2
    w3 = w3
    Client = {w1, w2}
    MaxConn = 2
    MaxThread = 2
    MaxFd = 2
    MAX_CLIENTS_SIZE = 2
    EnvFaults = {"sigint", "accept", "lookup", "memory"}
    Askers = {2}
    Leavers = {1, 2}
SPECIFICATION Spec
SYMMETRY Identities
INVARIANTS
    TypeOK
    Forward
    WalkMissesNobody
    CountedAreAwaited
PROPERTIES
    NoWayBack
CHECK_DEADLOCK FALSE

CONSTANTS
    w1 = w1
    w2 = w2
    w3 = w3
    Client = {w1, w2}
    MaxConn = 2
    MaxThread = 2
    MaxFd = 2
    MAX_CLIENTS_SIZE = 3
    EnvFaults = {}
    Askers = {1}
    Leavers = {}
SPECIFICATION Spec
INVARIANTS
    ReplyToRequester
CHECK_DEADLOCK FALSE

CONSTANTS
    w1 = w1
    w2 = w2
    w3 = w3
    Client = {w1, w2}
    MaxConn = 2
    MaxThread = 2
    MaxFd = 2
    MAX_CLIENTS_SIZE = 3
    EnvFaults = {"die"}
    Askers = {}
    Leavers = {1, 2}
SPECIFICATION FairSpec
PROPERTIES
    NewestServed
CHECK_DEADLOCK FALSE

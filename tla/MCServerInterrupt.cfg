CONSTANTS
    w1 = w1
    w2 = w2
    w3 = w3
    Client = {w1}
    MaxConn = 1
    MaxThread = 1
    MaxFd = 1
    MAX_CLIENTS_SIZE = 3
    EnvFaults = {"sigint"}
    Askers = {}
    Leavers = {}
SPECIFICATION NoStdinSpec
PROPERTIES
    InterruptTerminates
CHECK_DEADLOCK FALSE

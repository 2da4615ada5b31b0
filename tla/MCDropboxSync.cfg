CONSTANTS
    w1 = w1
    w2 = w2
    w3 = w3
    Client = {w1, w2, w3}
    MaxConn = 3
    MaxThread = 3
    MaxFd = 3
    MAX_CLIENTS_SIZE = 4
    EnvFaults = {}
    Askers = {1, 2, 3}
    Leavers = {1, 2, 3}
SPECIFICATION PacedSpec
CONSTRAINT InOrder
INVARIANTS
    ClientsAgree
    OneAtATimeIsSafe
PROPERTIES
    LeaverIsReleased
CHECK_DEADLOCK FALSE

CONSTANTS
    w1 = w1
    w2 = w2
    w3 = w3
    Client = {w1, w2, w3}
    MaxConn = 3
    MaxThread = 2
    MaxFd = 2
    MAX_CLIENTS_SIZE = 4
    EnvFaults = {"thread", "twins"}
    Askers = {}
    Leavers = {1, 2, 3}
SPECIFICATION Spec
SYMMETRY Identities
VIEW ButThreads
INVARIANTS
    NeverBackwards
    NullOnlyWhenOvertaken
    LoneHandlerIsSafe
PROPERTIES
    NoWayBack
CHECK_DEADLOCK FALSE

CONSTANTS
    Writer = {1, 2}
    Text <- MCText
    MaxSend = 2
    MAX_BUFFER_SIZE = 5
SPECIFICATION FairSpec
INVARIANTS
    ReadAsWritten
    NeverPastTheBuffer
PROPERTIES
    EverythingIsRead
CHECK_DEADLOCK FALSE

CONSTANTS
    Party <- MCParty
    MAX_BUFFER_SIZE = 63
SPECIFICATION Spec
INVARIANTS
    ListedAsSent
    KnownAsListed
    OnlyTwinsCrash
    TextsFit
CHECK_DEADLOCK FALSE

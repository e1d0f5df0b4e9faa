SPECIFICATION SemanticSpec
CONSTANTS
    N = 3
    MaxDeliveries = 4
    Word = 8
    Clients <- AllClients
INVARIANTS SemanticTypeOK AcquiredHasOneOwner WindowExact
CHECK_DEADLOCK FALSE

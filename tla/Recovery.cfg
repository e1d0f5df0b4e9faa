CONSTANTS
    Brokers = {a, b, c}
    NoBroker = NoBroker
    MaxMessages = 1
    MaxFaults = 2
    MaxInFlight = 1
SPECIFICATION Spec
PROPERTIES PublishersAreAnswered RecoveryEnds
CHECK_DEADLOCK FALSE

CONSTANTS
    Brokers = {a, b, c}
    NoBroker = NoBroker
    MaxMessages = 2
    MaxFaults = 1
    MaxInFlight = 1
SPECIFICATION Spec
INVARIANTS ReadyIsSafe GhostsAreListed SameOrder
CHECK_DEADLOCK FALSE
SYMMETRY Symmetry

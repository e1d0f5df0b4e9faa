SPECIFICATION Spec
CONSTANTS
    Sessions = {"s1", "s2"}
    Settings <- AllSettings
    MaxQueues = 2
    MaxDepth = 1
    MaxTasks = 3
INVARIANTS NoLateStoreCall LiveIsRegistered
PROPERTIES EligibleIsDeleted
CHECK_DEADLOCK FALSE

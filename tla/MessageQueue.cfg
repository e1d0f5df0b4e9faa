SPECIFICATION Spec
CONSTANTS
    Kinds = {"a", "b"}
    Perishable = {"b"}
    CleanLimit = 1
    Subscriptions = {"choosy", "any"}
    TypeOf <- TypeOfConsumers
    Selector <- SelectorConsumers
    Publishers = {"p1"}
    MaxDepth = 3
    Ring = FALSE
    Replicated = TRUE
    MaxSequence = 4
    MaxVersion = 1
INVARIANTS TypeOK Contiguous InSequence AcquiredIsOwned DepthExact
PROPERTIES NoResurrection ImplementsFifo
CHECK_DEADLOCK FALSE

SPECIFICATION Spec
CONSTANTS
    Kinds = {"a"}
    Perishable = {}
    CleanLimit = 1
    Subscriptions = {"any", "replica"}
    TypeOf <- TypeOfReplica
    Selector <- SelectorReplica
    Publishers = {"p1", "p2"}
    MaxDepth = 2
    Ring = TRUE
    Replicated = FALSE
    MaxSequence = 3
    MaxVersion = 1
INVARIANTS NextByPosition NoSkipped
CHECK_DEADLOCK FALSE

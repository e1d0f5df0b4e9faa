SPECIFICATION DispatchSpec
CONSTANTS
    Kinds = {"s", "l"}
    Perishable = {"l"}
    CleanLimit = 10
    Subscriptions = {"c1", "c2"}
    TypeOf <- TypeOfTwo
    Selector <- SelectorChoosy
    Size <- SizeTwo
    Grants = {2}
    MaxCredit = 2
    Publishers = {"p1"}
    MaxDepth = 2
    Ring = TRUE
    Replicated = FALSE
    MaxSequence = 2
    MaxVersion = 5
CONSTRAINT Unstopped
INVARIANTS DispatchTypeOK QuietMeansServed
PROPERTIES EventuallyServed
CHECK_DEADLOCK FALSE

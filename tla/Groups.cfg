CONSTANTS
    c1 = c1
    c2 = c2
    b1 = b1
    Kinds = {"A", "B"}
    CleanLimit = 1
    Subscriptions = {c1, c2, b1}
    TypeOf <- TypeOfThree
    AcquiresAs <- OwnNames
    Perishable = {"B"}
    MaxSequence = 3
    MaxVersion = 1
SPECIFICATION Spec
INVARIANTS OneConsumerPerGroup BooksAreExact NoGroupSkipped
CHECK_DEADLOCK FALSE
SYMMETRY Symmetry

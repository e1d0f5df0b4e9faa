CONSTANTS
    Sessions = {s1, s2, s3}
    Recovered = Recovered
    MaxOps = 2
    MaxCrashes = 2
SPECIFICATION Spec
INVARIANTS AllOrNothing OutcomeIsAsTold NothingForgotten
CHECK_DEADLOCK FALSE
SYMMETRY Symmetry

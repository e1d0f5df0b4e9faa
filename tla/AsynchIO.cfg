CONSTANTS
    Threads = {t1, t2}
    Handles = {h1}
    None = None
    BufferCount = 1
    Units = 2
    MaxEvents = 2
    Faults = {"eof", "reset", "abort"}
SPECIFICATION Spec
INVARIANTS OneAtATime NoUseAfterFree
PROPERTIES EventuallyWritten EventuallyDeleted
CHECK_DEADLOCK FALSE

CONSTANTS
    m1 = m1
    m2 = m2
    x1 = x1
    None = None
    Messages = {m1, m2}
    Xids = {x1}
    EnqDblks = 2
    SblkDblks = 2
    PageDblks = 4
    FileDblks = 4
    CachePages = 2
    PurgeInterval = 1
    MaxCrashes = 2
SPECIFICATION Spec
SYMMETRY Symmetry
CHECK_DEADLOCK FALSE
INVARIANTS TypeOK CountsExact JournalIsMemory ConfirmedSurvives

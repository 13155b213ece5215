CONSTANTS
    Procs = 2
    QUEUESIZE = 3
    Paths <- LongPaths
    MAXPROCPAGES = 3
    PHYSICALPAGES = 2
    PAGEWAIT = 2
SPECIFICATION LRUSpec
INVARIANTS ResidentStamped FirstHasFrame
PROPERTY AllFinish

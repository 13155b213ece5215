CONSTANTS
    Procs = 2
    QUEUESIZE = 3
    Paths <- SmallPaths
    MAXPROCPAGES = 2
    PHYSICALPAGES = 2
    PAGEWAIT = 3
    MAXITERATIONS = 5
SPECIFICATION LinkedSpec
INVARIANTS ServesOne NeverSwaps FlagsTell
PROPERTIES BasicFinishes TestFinishes

CONSTANTS
    Procs = 2
    QUEUESIZE = 3
    Paths <- JobPaths
    Places <- JobPlaces
    MAXPROCPAGES = 3
    PHYSICALPAGES = 3
    PAGEWAIT = 2
SPECIFICATION PredictSpec
INVARIANTS CountsRight FramesSuffice
PROPERTIES NeededStays AllFinish

CONSTANTS
    Procs = 2
    QUEUESIZE = 3
    Paths <- FewPaths
    MAXPROCPAGES = 2
    PHYSICALPAGES = 2
    PAGEWAIT = 2
SPECIFICATION AnySpec
INVARIANTS SimTypeOK FrameInv QueueInv ActiveUntilEmpty AllRun
PROPERTY PagesFollowProtocol

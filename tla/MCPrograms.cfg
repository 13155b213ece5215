CONSTANTS
    Programs <- AllShapes
    MAXBRINGS = 4
    MaxRun = 2
SPECIFICATION Spec
INVARIANTS TypesKept GotoJumps
PROPERTIES TablesFollowed LoopCount AllEnd

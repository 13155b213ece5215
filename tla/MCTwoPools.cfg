CONSTANTS
    MaxSize = 2
    a = a
    b = b
    c = c
    Names = {a, b, c}
    NULL = NULL
    NumReq = 2
    NumRes = 2
    Input <- TwoFiles
    Address <- Addresses
SPECIFICATION Spec
INVARIANTS TypeOK LockInv ReaderInv Exclusion NameConservation LossBounded FileOrder
PROPERTY SharedIsQueue

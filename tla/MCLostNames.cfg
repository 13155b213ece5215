CONSTANTS
    MaxSize = 2
    a = a
    b = b
    c = c
    Names = {a, b, c}
    NULL = NULL
    NumReq = 1
    NumRes = 1
    Input <- OneFile
    Address <- Addresses
SPECIFICATION Spec
INVARIANT AllResolved

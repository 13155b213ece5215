CONSTANTS
    MaxSize = 1
    a = a
    b = b
    c = c
    Names = {a, b, c}
    NULL = NULL
    NumReq = 1
    NumRes = 2
    Input <- OneFile
    Address <- Addresses
SPECIFICATION FairSpec
PROPERTIES Termination TakenIsWritten

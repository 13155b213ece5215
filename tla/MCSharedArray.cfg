CONSTANTS
    MaxSize = 4
    Names = {n1, n2}
    NULL = NULL
SPECIFICATION RingSpec
INVARIANT RingInv
PROPERTY IsQueue

CONSTANTS
    Files = {f1, f2}
    Bytes = {x, zero}
    ZERO = zero
    BUFF_SIZE = 2
    Lengths = {0, 1, 3}
    Offsets <- SeekOffsets
    IntBits = 3
    SizeBits = 4
    MaxBefore = 1
    MaxBehind = 5
    MaxOpens = 3
SPECIFICATION Spec
SYMMETRY Alike
INVARIANT OnlySeekLeaves
PROPERTY IsByteFile
CHECK_DEADLOCK FALSE

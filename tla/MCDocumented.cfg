CONSTANTS
    Argcs = {6}
    Requested = {2}
SPECIFICATION Spec
INVARIANT ReadsInputs

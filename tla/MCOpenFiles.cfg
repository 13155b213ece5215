CONSTANTS
    Argcs <- AllArgcs
    Requested <- AllCounts
SPECIFICATION Spec
INVARIANTS NoFileTwice ListFits CoversInputs

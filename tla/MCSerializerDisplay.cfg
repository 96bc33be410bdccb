SPECIFICATION MCSpec
CONSTANTS
    Names = {"a", "b"}
    Rank <- MCRank
    Scalars = {"0", "null", "quote", "escape", "n", "run", "f0", "9d", "84", "9e"}
    Quote = "quote"
    Null = "null"
    Text0 = "0"
    MaxBytes = 16
    MaxOffset = 16
    Containers = {"Array", "Object", "Wrapper"}
    Types <- MCTypes
    SerdeValues <- Ignoring
    Subjects = {"values"}
CHECK_DEADLOCK FALSE
INVARIANTS
    SuccessIsWhole

SPECIFICATION MCSpec
CONSTANTS
    Names = {"a", "b"}
    Rank <- MCRank
    Scalars = {"0", "null", "quote", "escape", "n", "run", "f0", "9d", "84", "9e"}
    Quote = "quote"
    Null = "null"
    Text0 = "0"
    MaxBytes = 21
    MaxOffset = 21
    Containers = {"Array", "Object", "Wrapper"}
    Types <- MCTypes
    SerdeValues <- MCSerdeValues
    Subjects = {"values", "names", "identities"}
CHECK_DEADLOCK FALSE
INVARIANTS
    EncodesTheValue
    RefusedForCause
    DamageIsContained
    DepthBounds
    NamesSpellKeys
    ComparedByWholeKey

SPECIFICATION Spec
CONSTANTS
    Names = {"a", "b"}
    Rank <- MCRank
    Scalars = {"0"}
    MaxBytes = 10
    MaxOffset = 10
    Containers = {"Array", "Object", "Wrapper"}
CHECK_DEADLOCK FALSE
INVARIANTS
    TypeOK
    EveryByteCountedOnce
    NothingLeftBehind
PROPERTIES
    RefusalIsFinal
    ImplementsCanonicalWriter

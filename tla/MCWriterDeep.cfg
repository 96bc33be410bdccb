SPECIFICATION Spec
CONSTANTS
    Names = {"a", "b"}
    Rank <- MCRank
    Scalars = {"0"}
    MaxBytes = 17
    MaxOffset = 17
    Containers = {"Object"}
CHECK_DEADLOCK FALSE
INVARIANTS
    RecordsStandForBytes
    RecordsInWrittenOrder
PROPERTIES
    ImplementsCanonicalWriter

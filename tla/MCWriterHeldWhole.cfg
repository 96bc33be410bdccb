SPECIFICATION Spec
CONSTANTS
    Names = {"a", "b"}
    Rank <- MCRank
    Scalars = {"0"}
    MaxBytes = 6
    MaxOffset = 6
    Containers = {"Object"}
CHECK_DEADLOCK FALSE
INVARIANTS
    TopLevelObjectHeldWhole

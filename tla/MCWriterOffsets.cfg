SPECIFICATION FairSpec
CONSTANTS
    Names = {"a", "b"}
    Rank <- MCRank
    Scalars = {"0"}
    MaxBytes = 12
    MaxOffset = 6
    Containers = {"Array", "Object", "Wrapper"}
CHECK_DEADLOCK FALSE
INVARIANTS
    NoInternalFault
PROPERTIES
    EventReturns

SPECIFICATION MCSpec
CONSTANTS
    Names = {"a", "b"}
    Rank <- MCRank
    Scalars = {"0"}
    Documents <- MCDocuments
    Values <- MCValues
    MaxBytes = 20
    MaxOffset = 28
    Containers = {"Array", "Object"}
    Count = 3
    Kind <- MCKind
    Bytes = {0, 1, 2, 3}
    Writes <- MCWrites
    Labels <- MCLabels
    MaxText = 5
CHECK_DEADLOCK FALSE
INVARIANTS
    EncodesTheTree
    NeverOutOfTurn
    StackBounded
    NothingIsRounded
    EveryNodeOnce
    RowInStep
    OnlyTheWholeIsReturned
    SplitIsUnambiguous

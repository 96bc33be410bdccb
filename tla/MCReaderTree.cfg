SPECIFICATION Spec
CONSTANTS
    Names = {"a", "b"}
    Rank <- MCRank
    Plain = {}
    Huge = {"1e400"}
    Space = {}
    Torn = {}
    Crooked = {}
    Stray = {}
    MaxInputBytes = 13
CHECK_DEADLOCK FALSE
INVARIANTS
    TreeSpellsInput
    EveryNodeHeldOnce
    ChildrenComeFirst
    PointerIsPath
    DuplicateAtLaterName

SPECIFICATION FairSpec
CONSTANTS
    Names = {"a"}
    Rank <- MCRank
    Plain = {"0"}
    Huge = {"1e400"}
    Space = {" "}
    Torn = {"torn"}
    Crooked = {"1."}
    Stray = {"?"}
    MaxInputBytes = 9
CHECK_DEADLOCK FALSE
INVARIANTS
    TypeOK
PROPERTIES
    ImplementsGrammar
    ReadReturns

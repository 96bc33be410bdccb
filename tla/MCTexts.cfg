SPECIFICATION MCSpec
CONSTANTS
    Inputs <- MCInputs
    Infinite <- MCInfinite
CHECK_DEADLOCK FALSE
INVARIANTS
    DecodesCodeUnits
    RefusedAtItsFault
    TextFitsInput
    ScansNumbers
    ReadsCanonicalText
    SlicesSpellTheText
    SlicesKeepCharacters
    ComparesNames

SPECIFICATION Spec
CONSTANTS
    Blocks <- MCBlocks
    Dtors <- MCDtors
    Names <- MCNames
    Selects = FALSE
INVARIANTS
    IteratorValid
    MeaningKept
    StaysCanonical
PROPERTY
    PassesEnd

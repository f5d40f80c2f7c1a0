SPECIFICATION Spec
CONSTANTS
    Blocks <- MCBlocks
    Dtors <- MCDtors
    Names <- MCNames
    Selects = TRUE
INVARIANT MeaningKept

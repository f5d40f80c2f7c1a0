CONSTANTS
    PointerSize = 8
    Thread = {t1, t2}
    Block = {b1, b2, b3}
    KnownBytes <- KnownSizes
    DynamicBytes <- ClassSizes
SPECIFICATION AllocSpec
SYMMETRY Symmetry
INVARIANTS
    OneHolder
    BigEnough
PROPERTIES
    KeepsMemoryPastLink
CHECK_DEADLOCK FALSE

CONSTANTS
    PointerSize = 8
    Thread = {t1}
    Block = {b1, b2}
    KnownBytes <- ClassSizes
    DynamicBytes <- AnySizes
SPECIFICATION AllocSpec
INVARIANTS
    BigEnough
CHECK_DEADLOCK FALSE

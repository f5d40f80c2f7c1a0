CONSTANTS
    PointerSize = 8
    Thread = {t1}
    Block = {b1, b2}
    KnownBytes <- KnownSizes
    DynamicBytes <- ClassSizes
SPECIFICATION AllocSpec
PROPERTIES
    ReturnsZeroed
CHECK_DEADLOCK FALSE

CONSTANTS
    MaxBlock = 40
    MaxLabel = 12
    NoName <- None
    NoStmt <- NoElse
    Program <- Programs
    Object <- Objects
SPECIFICATION Spec
INVARIANTS
    TypeOK
    WellFormed
    SameObservations
    MemoryDiscipline
    LiveIsInScope
    OtherAssertionsHold
PROPERTY CodeAnswers

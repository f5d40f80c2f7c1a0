CONSTANTS
    MaxBlock = 11
    Name <- Names
    Var <- Vars
    Declares <- LoweredDeclarations
    NoName <- None
    NoStmt <- NoElse
    LoopStmt <- LoweredStatements
    FreeStmt <- LoweredFree
    Program <- Programs
SPECIFICATION Spec
INVARIANTS
    BuilderTypeOK
    WellTerminated
    NoDanglingBranch
    FunctionComplete
    NeverLost
    SameObservations
    MemoryDiscipline
    LiveIsInScope
    AssertionsTripExactly
PROPERTY GenerationEnds

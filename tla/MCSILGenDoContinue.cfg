CONSTANTS
    MaxBlock = 10
    Name <- Names
    Var <- Vars
    Declares <- Declarations
    NoName <- None
    NoStmt <- NoElse
    LoopStmt <- Statements
    FreeStmt <- FreeStatements
    Program <- DoContinuePrograms
SPECIFICATION Spec
INVARIANT SameObservations

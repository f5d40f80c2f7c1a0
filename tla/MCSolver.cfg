SPECIFICATION Spec
CONSTANTS
    Shape <- MCShape
    SuperClass <- MCSuperClass
    ProtocolsOf <- MCProtocolsOf
    ArchProtocols <- MCArchProtocols
    LiteralTypes <- MCLiteralTypes
    GenericParams <- MCGenericParams
    DefaultLiteral <- MCDefaultLiteral
    Decl <- MCDecl
    Members <- MCMembers
    Expressions <- MCExpressions
INVARIANTS TypeOK SolutionsSatisfy BindingsRestored ChildrenAccounted ResolvesAsTested AssertionsTripExactly
PROPERTY SolverStops

SPECIFICATION Spec
CONSTANTS
    Trees <- Expressions
    MaxIters = 2
CHECK_DEADLOCK FALSE
INVARIANTS
    OperandsIntact
    AnnotationsAgree
    WorkspaceCovers
    NamesLexical
    AbortsExactly

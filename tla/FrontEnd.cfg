\* All short modules of several menus of statements.
SPECIFICATION Spec
CONSTANTS
    Programs <- MCPrograms
    Statements <- MCStatements
    ArgTypes <- MCArgTypes
    ExprResult <- checkExpr
    RequestsOf <- Requests
    IsConstant <- isConstantExpr
    ConstantValue <- evalConstInt
    Assignable <- isAssignCompatible
    FieldOf <- findFieldInChain
    SuffixOf <- typeManglingSuffix
    TypesOf <- StructTable
    TypeErrors <- collectTypes
    OperatorsOf <- collectOperators
    ExternFaults <- ExternErrors
    TypesAfter <- genTypeDecl
    BoundsIn <- boundsAsked
INVARIANTS
    ScopesEnd
    VerdictIsLexical
    GlobalsAreGlobal
    JumpsLand
    BoundsAreArrays
    OnlyInstancesThrow
    TypesInOrder

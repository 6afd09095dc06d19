\* The generator relies on Sema for every EXIT.
SPECIFICATION Spec
CONSTANTS
    Programs <- GenericPrograms
    Statements <- MCStatements
    ArgTypes <- MCArgTypes
    ExprResult <- checkExpr
    RequestsOf <- Requests
    IsConstant <- isConstantExpr
    ConstantValue <- evalConstInt
    Assignable <- isAssignCompatible
    FieldOf <- findFieldInChain
    SuffixOf <- typeManglingSuffix
    TypesOf <- StructTable
    TypeErrors <- collectTypes
    OperatorsOf <- collectOperators
    ExternFaults <- ExternErrors
    TypesAfter <- genTypeDecl
    BoundsIn <- boundsAsked
INVARIANT SemaCaughtIt

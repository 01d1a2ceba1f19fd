SPECIFICATION Spec
CONSTANTS
    Scripts <- MCScripts
    CommandsOf <- visitScript
    CommandsIn <- MCCommandsIn
    ExpressionType <- InferExpressionType
    ExpressionText <- GenerateExpressionCode
    MaxInt = 20
INVARIANTS
    UsesAreBound
    WaitsCloseMain
    VariablesAgree
    CodeReadsAsScript
    CodeIsTyped
    ArgumentsAreNumbers
CHECK_DEADLOCK FALSE

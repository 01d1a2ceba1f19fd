SPECIFICATION Spec
CONSTANTS
    Kind <- NestedKind
    Parent <- NestedParent
    IfOf <- NestedIf
    Iterations <- NestedIterations
    None = None
INVARIANTS
    NoUseAfterDestroy
    ExitIsClean
    TimersAllRun
CHECK_DEADLOCK FALSE

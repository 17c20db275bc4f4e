SPECIFICATION Spec
CONSTANTS
    NoFail = FALSE
    Disabling = FALSE
    Nets <- MCShapes
    FireList <- GetAmpleSet
INVARIANTS SameAnswer
CHECK_DEADLOCK FALSE

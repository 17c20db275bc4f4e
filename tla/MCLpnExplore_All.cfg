SPECIFICATION FairSpec
CONSTANTS
    NoFail = FALSE
    Disabling = FALSE
    Nets <- MCNets
    FireList <- AllEnabled
INVARIANTS TypeOK NumbersExact TracesExist ExploredOnce GraphComplete
PROPERTIES AbstractSpec Terminates
CHECK_DEADLOCK FALSE

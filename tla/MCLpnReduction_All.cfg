SPECIFICATION Spec
CONSTANTS
    NoFail = FALSE
    Disabling = FALSE
    Nets <- MCNets
    FireList <- GetAmpleSet
INVARIANTS AmpleProper ThievesConflict DeadlocksKept
CHECK_DEADLOCK FALSE

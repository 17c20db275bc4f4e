SPECIFICATION Spec
CONSTANTS
    NoFail = FALSE
    Disabling = FALSE
    Nets <- MCNets
INVARIANTS TypeOK PlaceUniform CodesMatchEnablings EnablingsCurrent
PROPERTIES OutputsPersist OutputsChangeByFiring AbstractSpec
CHECK_DEADLOCK FALSE

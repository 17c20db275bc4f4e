CONSTANTS
    Instances <- MCAll
SPECIFICATION Spec
INVARIANTS TypeOK GrowExact EGExact ComponentsExact ResultExact
PROPERTIES Terminates
CHECK_DEADLOCK FALSE

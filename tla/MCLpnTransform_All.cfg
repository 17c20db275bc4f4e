SPECIFICATION Spec
CONSTANTS
  NoFail = FALSE
  Disabling = FALSE
  Nets <- MCNets
INVARIANTS TypeOK NothingHidden
PROPERTIES Terminates
CHECK_DEADLOCK FALSE

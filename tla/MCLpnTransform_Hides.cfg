SPECIFICATION Spec
CONSTANTS
  NoFail = FALSE
  Disabling = FALSE
  Nets <- MCTwice
INVARIANTS NothingHidden
CHECK_DEADLOCK FALSE

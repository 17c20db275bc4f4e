CONSTANTS
    Instances <- MCSilent
SPECIFICATION Spec
INVARIANTS PredsKnown
CHECK_DEADLOCK FALSE

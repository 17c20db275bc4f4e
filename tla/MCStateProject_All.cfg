CONSTANTS
    Instances <- MCAll
SPECIFICATION Spec
INVARIANTS FiringsKept LinksSound MergedExactly
PROPERTIES Ends
CHECK_DEADLOCK FALSE

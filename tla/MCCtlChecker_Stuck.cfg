CONSTANTS
    Instances <- MCStuck
SPECIFICATION Spec
INVARIANTS StuckStatesLoop
CHECK_DEADLOCK FALSE

SPECIFICATION Spec
CONSTANTS
    NoFail = FALSE
    Disabling = FALSE
    Nets <- MCNets
    MaxBound = 2
    MaxDelay = 3
    MaxFirings = 4
INVARIANTS TypeOK TimesInZone FireableInTime ZoneCanonical CausesRight
CHECK_DEADLOCK FALSE

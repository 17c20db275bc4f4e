SPECIFICATION FairSpec
CONSTANTS
    a = a
    b = b
    Dims = {a, b}
    Bounds <- MCBounds
    Options <- MCOptions
    MaxAdds = 4
INVARIANTS TypeOK RegionsExact NoneRedundant
PROPERTIES NothingLost ScanEnds
CHECK_DEADLOCK FALSE

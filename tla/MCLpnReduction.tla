--------------------------- MODULE MCLpnReduction ---------------------------
EXTENDS LpnReduction, LpnSamples

MCNets   == ReductionNets
MCShapes == ShapeNets
=============================================================================

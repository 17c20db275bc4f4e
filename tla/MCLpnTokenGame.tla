---------------------------- MODULE MCLpnTokenGame ---------------------------
EXTENDS LpnTokenGame, LpnSamples

MCNets == GameNets
=============================================================================

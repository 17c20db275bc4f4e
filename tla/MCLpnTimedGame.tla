--------------------------- MODULE MCLpnTimedGame ---------------------------
EXTENDS LpnTimedGame, TimedSamples

MCNets == TimedNets
=============================================================================

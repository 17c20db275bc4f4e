---------------------------- MODULE MCLpnExplore ----------------------------
EXTENDS LpnExplore, LpnSamples

MCNets == ExploreNets

(* Without partial-order reduction the fire list is the enabled events.    *)
AllEnabled(N, m) == m.enablings
=============================================================================

--------------------------- MODULE MCStateProject ---------------------------
(* Names for the configurations of StateProject.                           *)
EXTENDS ProjectSamples

MCAll    == AllGraphs
MCSilent == SilentGraphs

=============================================================================

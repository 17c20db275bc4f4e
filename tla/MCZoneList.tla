----------------------------- MODULE MCZoneList -----------------------------
EXTENDS ZoneList

CONSTANTS a, b

MCOptions == [subsets : BOOLEAN, supersets : BOOLEAN, bap : BOOLEAN]
MCBounds  == 0 .. 1
=============================================================================

---------------------------- MODULE MCCtlChecker ----------------------------
(* Names for the configurations of CtlChecker.                             *)
EXTENDS CtlSamples

MCAll   == AllChecks
MCStuck == StuckChecks

=============================================================================

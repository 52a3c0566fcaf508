--------------------------- MODULE MCLiveMonitor ---------------------------
(* LiveMonitor, for TLC: an interval of 0 and one above MaxRate can only   *)
(* come from the settings.                                                 *)
EXTENDS LiveMonitor

MCStartRates == {0, 2, 4}
=============================================================================

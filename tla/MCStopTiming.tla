---------------------------- MODULE MCStopTiming ----------------------------
(* An instance of StopTiming for TLC: half seconds, settings of 1 to 4 seconds. *)
EXTENDS StopTiming

Times == {2, 4, 6, 8}
SmallSettings == [pause : {2, 4}, timeout : Times, startup : Times]
=============================================================================

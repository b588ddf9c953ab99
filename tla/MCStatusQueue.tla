--------------------------- MODULE MCStatusQueue ---------------------------
(* An instance of StatusQueue for TLC.  The reports are bounded, and the thread may *)
(* have nothing more to say, so the run does not ask for the absence of deadlock.  *)
EXTENDS StatusQueue
=============================================================================

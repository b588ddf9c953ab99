----------------------------- MODULE Supervisor -----------------------------
(***************************************************************************)
(* What starting, stopping and monitoring promise about one server, as     *)
(* long as its monitor is the only one, is not terminated and is not told  *)
(* to leave the process running: one process at a time, never without a    *)
(* monitor; a new one only when the old one is gone; a stop request that   *)
(* stands; and UP/OK on the display only while a process is watched.       *)
(***************************************************************************)

VARIABLES
  mode,     \* off, starting, watching, error (a message box), lost (nothing is promised)
  child,    \* the process whose handle is open: none, running, exited
  wanted,   \* the monitor has not been asked to stop
  shown     \* the display says UP/OK

Init == mode = "off" /\ child = "none" /\ ~wanted /\ ~shown

\* A request to run can only be made while nothing runs; one to stop, at any time.
Request == wanted' \in {FALSE, wanted, mode = "off"} /\ UNCHANGED <<mode, child, shown>>

Start == mode = "off" /\ mode' = "starting" /\ ~shown' /\ UNCHANGED <<child, wanted>>

Spawn ==
  /\ mode = "starting" /\ mode' = "watching"
  /\ child = "none" /\ child' = "running"
  /\ UNCHANGED <<wanted, shown>>

Fail ==
  /\ mode = "starting" /\ mode' = "error"
  /\ ~shown' /\ UNCHANGED <<child, wanted>>

Report == mode = "watching" /\ shown' \in BOOLEAN /\ UNCHANGED <<mode, child, wanted>>

Exit == child = "running" /\ child' = "exited" /\ UNCHANGED <<mode, wanted, shown>>

Replace ==
  /\ mode = "watching" /\ mode' = "starting"
  /\ child' = "none" /\ ~shown' /\ UNCHANGED wanted

Stop ==
  /\ mode = "watching" /\ ~wanted /\ mode' = "off"
  /\ child' = "none" /\ ~shown' /\ UNCHANGED wanted

Confirm == mode = "error" /\ mode' = "off" /\ UNCHANGED <<child, wanted, shown>>

Lose == mode' = "lost"

Next ==
  \/ Request \/ Start \/ Spawn \/ Fail \/ Report \/ Exit
  \/ Replace \/ Stop \/ Confirm \/ Lose

Spec == Init /\ [][Next]_<<mode, child, wanted, shown>>
=============================================================================

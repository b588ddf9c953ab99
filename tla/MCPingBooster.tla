--------------------------- MODULE MCPingBooster ---------------------------
(* An instance of PingBooster for TLC. *)
EXTENDS PingBooster

\* 0 stands for text that is no number, 1 is the constructor's value.
MCValues == {0, 1, 5}
=============================================================================

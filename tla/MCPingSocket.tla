---------------------------- MODULE MCPingSocket ----------------------------
(* An instance of PingSocket for TLC: the constants are small as they are. *)
EXTENDS PingSocket
=============================================================================

--------------------------- MODULE MCPersistence ---------------------------
(* An instance of Persistence for TLC. *)
EXTENDS Persistence, TLC

CONSTANTS s1, s2, s3

MCNames == {s1, s2, s3}
=============================================================================

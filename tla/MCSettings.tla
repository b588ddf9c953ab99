----------------------------- MODULE MCSettings -----------------------------
(* An instance of Settings for TLC: what a user types into the fields. *)
EXTENDS Settings

\* Hosts that are addresses, that resolve, and that do not.
MCAddress == [h \in {"a1", "a2", "dns", "unknown"} |->
                IF h = "dns" THEN "a2" ELSE IF h = "unknown" THEN "" ELSE h]

\* Ports around USHRT_MAX = 7, games and programs, a pause that overflows an int of
\* 16 values when it is turned into milliseconds (of which a second has 3), no pause.
MCTexts ==
  [ip |-> {"a1", "dns", "unknown"}, port |-> {-1, 0, 2, 7}, game |-> {"game", Program},
   executable |-> {"exe"}, timeout |-> {1}, pause |-> {0, 1, 5}, startup |-> {2},
   name |-> {"a name"}, times |-> {"day", "night"}]
=============================================================================

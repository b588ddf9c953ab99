---------------------------- MODULE ServerStore ----------------------------
(***************************************************************************)
(* What ServerChecker promises about its list of servers between two runs: *)
(* a list comes back as it is, or it is lost as a whole; it never comes    *)
(* back in part, mixed with an older one, or with settings exchanged.      *)
(***************************************************************************)
EXTENDS Sequences

CONSTANT Lists   \* every list of servers the user can make

VARIABLES
  up,       \* the program runs
  list,     \* its servers
  stored    \* the servers a start of the program would find

Init == ~up /\ list = <<>> /\ stored \in Lists

Start == ~up /\ up' /\ list' = stored /\ UNCHANGED stored

\* The user changes the list; a save that begins at once loses what was stored.
Change == up /\ up' /\ list' \in Lists /\ stored' \in {stored, <<>>}

\* A save is complete.
Save == up /\ up' = up /\ stored' = list /\ UNCHANGED list

\* The program ends, by itself or not.
End == up /\ ~up' /\ list' = <<>> /\ UNCHANGED stored

Next == Start \/ Change \/ Save \/ End

Spec == Init /\ [][Next]_<<up, list, stored>>
=============================================================================

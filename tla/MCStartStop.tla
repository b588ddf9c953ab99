---------------------------- MODULE MCStartStop ----------------------------
(* Instances of StartStop for TLC. *)
EXTENDS StartStop, TLC

\* Slots are interchangeable; used by runs without liveness properties only.
Symmetry == Permutations(Threads) \cup Permutations(Procs)

\* Bound of the run with two threads: from a state where a thread has been doubled
\* it goes no further once another was killed, a setting is saved or the program is closed.
Doubled ==
  overlap => ~terminated /\ ~asking
             /\ ui \notin {"setting", "closing", "closed", "destroying", "exited"}
=============================================================================

---------------------------- MODULE MCServerList ----------------------------
(***************************************************************************)
(* An instance of ServerList for TLC: three addresses, so that a list has  *)
(* a middle and a freed address may be given out again.                    *)
(***************************************************************************)
EXTENDS ServerList, TLC

CONSTANTS a1, a2, a3, t1

MCAddr == {a1, a2, a3}
MCThreads == {t1}
Symmetry == Permutations(MCAddr)
=============================================================================

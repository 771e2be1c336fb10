------------------------------- MODULE MCBeat -------------------------------
(***************************************************************************)
(* Beat with two members: enough for two of them to pick one task, for one *)
(* to be carried over while the other decides.  Two voters make a quorum,  *)
(* and a tie.                                                              *)
(***************************************************************************)
EXTENDS Beat, TLC

CONSTANTS a1, a2, v1, v2, wipe, poll

Symmetry == Permutations(Members) \cup Permutations(Voters)
=============================================================================

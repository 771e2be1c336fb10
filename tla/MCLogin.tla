------------------------------ MODULE MCLogin ------------------------------
(* Instance of Login for TLC. *)
EXTENDS Login, TLC

CONSTANTS r1, r2, t1, t2, k1, k2

Symmetry == Permutations({r1, r2}) \cup Permutations({k1, k2})

=============================================================================

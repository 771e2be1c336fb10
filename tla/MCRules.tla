------------------------------ MODULE MCRules ------------------------------
(***************************************************************************)
(* Rules with two rules on one event of one connector: enough for them to  *)
(* share the handler wired at boot, for one rule's subscription id to be   *)
(* issued again by a new host, and for two calls to meet on one rule.      *)
(***************************************************************************)
EXTENDS Rules, TLC

CONSTANTS r1, r2, kick, live, p1, p2

MCListensTo == [r \in Rules |-> <<kick, live>>]

Symmetry == Permutations(Rules) \cup Permutations(Callers)
=============================================================================

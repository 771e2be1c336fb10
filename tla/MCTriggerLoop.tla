-------------------------- MODULE MCTriggerLoop ---------------------------
(***************************************************************************)
(* The instances of TriggerLoop that TLC checks: one permit and channels   *)
(* of one place, so that full channels are the normal case.                *)
(***************************************************************************)
EXTENDS TriggerLoop, TLC

CONSTANTS k1, k2, f1, dir, w1, w2, s1

MCPathOf == [r \in WatchRules |-> dir]
=============================================================================

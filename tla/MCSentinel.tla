----------------------------- MODULE MCSentinel -----------------------------
(***************************************************************************)
(* The instances of Sentinel that TLC checks.                              *)
(***************************************************************************)
EXTENDS Sentinel, TLC

CONSTANTS c1, f1, f2, f3

MCConnectors == {c1, "system"}
MCNames == {"purge"}
MCTiers == {"Cold", "Hot"}

\* In throttle_tier.rs the window of Cold is half as long as that of the others.
MCBudget == [t \in MCTiers |->
                IF t = "Cold" THEN [limit |-> 1, window |-> 1]
                                 ELSE [limit |-> 2, window |-> 2]]

Connector(h) == [kind |-> "RunConnector", connector |-> c1, name |-> "purge",
                 hints |-> h, steps |-> {}]
Builtin(k, s) == [kind |-> k, connector |-> "system", name |-> "purge",
                  hints |-> "none", steps |-> s]
Req(a, t, p, au) == [action |-> a, tier |-> t, policy |-> p, autonomy |-> au]

\* A destructive connector action under ApproveOnce, one that must always be
\* approved, and a chain that its RunConnector step makes destructive.
MCRequests ==
    {Req(Connector("unknown"), "Hot", "ApproveOnce", "ActAutonomously"),
     Req(Connector("destructive"), "Cold", "AlwaysRequire", "ActAutonomously"),
     Req(Builtin("Chain", {"Dedupe", "RunConnector"}), "Hot", "AutoApprove", "ActAutonomously")}

\* The request of the throttle run: a connector action that must be approved.
MCDestructive ==
    {Req(Connector("destructive"), "Cold", "AlwaysRequire", "ActAutonomously")}

Symmetry == Permutations(Fires)
=============================================================================

------------------------------- MODULE Consent -------------------------------
(***************************************************************************)
(* What the formation's vote promises about a destructive task             *)
(* (springtale-bot/src/cooperation/formation.rs, consensus_approved: "an   *)
(* approval authorizes exactly one execution"; resolve_consensus.rs: a     *)
(* task whose vote is denied or times out is dropped): a task is cleared   *)
(* to run at most once per approval, and never after a refusal.            *)
(***************************************************************************)
EXTENDS Naturals

CONSTANT Subjects   \* the tasks that need a vote

VARIABLES
    approvals,  \* [Subjects -> Nat]: approvals given so far
    cleared,    \* [Subjects -> Nat]: times the task was cleared to run
    refused     \* tasks that some vote refused

ConsentInit ==
    /\ approvals = [t \in Subjects |-> 0]
    /\ cleared = [t \in Subjects |-> 0]
    /\ refused = {}

\* The formation decides on some tasks. One that has votes both ways open can
\* be approved and refused.
Decide ==
    \E A, R \in SUBSET Subjects :
        /\ approvals' = [t \in Subjects |->
                            IF t \in A THEN approvals[t] + 1 ELSE approvals[t]]
        /\ refused' = refused \cup R
        /\ UNCHANGED cleared

Clear(t) ==
    /\ t \notin refused
    /\ cleared[t] < approvals[t]
    /\ cleared' = [cleared EXCEPT ![t] = @ + 1]
    /\ UNCHANGED <<approvals, refused>>

ConsentNext == Decide \/ \E t \in Subjects : Clear(t)

ConsentSpec == ConsentInit /\ [][ConsentNext]_<<approvals, cleared, refused>>
=============================================================================

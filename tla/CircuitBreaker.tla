--------------------------- MODULE CircuitBreaker ---------------------------
(***************************************************************************)
(* The per-connector circuit breaker of                                    *)
(* springtale-sentinel/src/circuit_breaker.rs, as operators on one entry   *)
(* of its map. Both methods that open or half-open a breaker drop the      *)
(* map's guard and insert the new state afterwards, so the decision and    *)
(* the insertion are separate operators here and separate actions of the   *)
(* specification that uses them.                                           *)
(*                                                                         *)
(* An Open entry carries its age (opened_at.elapsed()).                    *)
(***************************************************************************)
EXTENDS Naturals

BreakerStates ==
    [st : {"Closed"}, n : Nat, age : {0}]
      \cup [st : {"Open"}, n : {0}, age : Nat]
      \cup [st : {"HalfOpen"}, n : {0}, age : {0}]

Closed(k)  == [st |-> "Closed", n |-> k, age |-> 0]
Opened     == [st |-> "Open", n |-> 0, age |-> 0]
HalfOpened == [st |-> "HalfOpen", n |-> 0, age |-> 0]

\* is_allowed, under the guard: the fire may go on at once ...
is_allowed_now(b) == b.st \in {"Closed", "HalfOpen"}

\* ... or it is refused, or (Open and cooled down) it drops the guard and will
\* insert HalfOpen.
cooled_down(b, cooldown) == b.st = "Open" /\ b.age >= cooldown

\* report_failure, under the guard: only a Closed entry changes.
count_failure(b) == IF b.st = "Closed" THEN Closed(b.n + 1) ELSE b

failure_opens_PriorCount(b, threshold) ==
    (b.st = "Closed" /\ b.n >= threshold) \/ b.st = "HalfOpen"

failure_opens_OneEarly(b, threshold) ==
    (b.st = "Closed" /\ b.n + 2 >= threshold) \/ b.st = "HalfOpen"

\* report_failure goes on to insert Open after dropping the guard.
failure_opens(b, threshold) ==
    \/ b.st = "Closed" /\ b.n + 1 >= threshold
    \/ b.st = "HalfOpen"
=============================================================================

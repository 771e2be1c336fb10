----------------------------- MODULE RateLimiter -----------------------------
(***************************************************************************)
(* The sliding-window limiter of springtale-sentinel/src/rate_limiter.rs   *)
(* (check_with_budget) as operators on one connector's deque. An entry is  *)
(* the age of a recorded action, oldest first; "timestamp < cutoff" is     *)
(* "age > window". The clock is read just before the guard is taken: the   *)
(* model's unit of time does not tell the two instants apart.              *)
(***************************************************************************)
EXTENDS Naturals, Sequences

\* The index of the first entry that the pop_front loop leaves in place.
FirstKept(deque, window) ==
    CHOOSE i \in 1..(Len(deque) + 1) :
        /\ i <= Len(deque) => deque[i] <= window
        /\ \A j \in 1..(i - 1) : deque[j] > window

pruned(deque, window) == SubSeq(deque, FirstKept(deque, window), Len(deque))

over_budget_OffByOne(deque, budget) == Len(pruned(deque, budget.window)) > budget.limit

\* check_with_budget returned Some(delay).
over_budget(deque, budget) == Len(pruned(deque, budget.window)) >= budget.limit

delay_BeforePruning(deque, budget) == budget.window - Head(deque)

\* The delay: how long until the oldest entry left expires.
delay(deque, budget) == budget.window - Head(pruned(deque, budget.window))

\* The deque after the call. A refused action is not recorded.
recorded(deque, budget) ==
    IF over_budget(deque, budget)
    THEN pruned(deque, budget.window)
    ELSE Append(pruned(deque, budget.window), 0)
=============================================================================

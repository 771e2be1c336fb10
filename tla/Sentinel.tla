------------------------------ MODULE Sentinel ------------------------------
(***************************************************************************)
(* Concurrent dispatch through the sentinel: run_step_inner of             *)
(* springtale-runtime/src/dispatch/step.rs around Sentinel::evaluate of    *)
(* springtale-sentinel/src/sentinel.rs, its circuit breaker, rate limiter, *)
(* dead-man switch and approval gate.                                      *)
(*                                                                         *)
(* A fire is one call of run_step. Fires run as concurrent tasks and share *)
(* the sentinel; a fire is split where another task can get in: at every   *)
(* await, and between two accesses to the sentinel's maps. The time of     *)
(* the code is relative (elapsed(), sleep), so the model keeps ages, which *)
(* saturate at Horizon, and remaining sleeps instead of a clock.           *)
(***************************************************************************)
EXTENDS Impact, CircuitBreaker, RateLimiter

CONSTANTS
    Fires,              \* calls of run_step
    Connectors,         \* connector names, System included
    System,             \* the name used for every built-in action
    Names,              \* connector action names
    Tiers,              \* throttle tiers
    Budget,             \* ThrottleTier::rate_budget
    Requests,           \* the evaluate requests that can be dispatched
    Threshold,          \* circuit_breaker_threshold
    Cooldown,           \* circuit_breaker_cooldown_secs
    DeadManThreshold,   \* dead_man_threshold
    Horizon             \* the age at which ages stop growing

Policies   == {"AutoApprove", "ApproveOnce", "AlwaysRequire", "RequireConsensus"}
Autonomies == {"Observe", "Suggest", "ActWithApproval", "ActAutonomously"}

Actions == [kind : Kinds, connector : Connectors, name : Names,
            hints : Hints, steps : SUBSET LeafKinds]

ASSUME SentinelAssumption ==
    /\ System \in Connectors
    /\ Budget \in [Tiers -> [limit : Nat \ {0}, window : Nat]]
    /\ Requests \subseteq [action : Actions, tier : Tiers,
                           policy : Policies, autonomy : Autonomies]
    /\ Threshold \in Nat \ {0}
    /\ Cooldown \in Nat
    /\ DeadManThreshold \in Nat
    /\ Horizon \in Nat /\ Horizon >= Cooldown
    /\ \A t \in Tiers : Horizon > Budget[t].window

VARIABLES
    \* The sentinel.
    breaker,    \* [Connectors -> BreakerStates]: CircuitBreaker.states
    window,     \* [Connectors -> Seq(Nat)]: RateLimiter.windows
    deadman,    \* DeadManSwitch.actions_since_interaction
    session,    \* session_approvals: keys of ApproveOnce
    \* Each fire.
    pc,         \* where it is
    req,        \* its request, fixed by the rule or task that fires
    sleep,      \* what is left of its throttle sleep
    verdict,    \* what evaluate returned
    ticket,     \* the count its record_action reached, 0 before
    \* History.
    fresh,      \* fires counted since the last user interaction
    approved,   \* fires the gate answered yes to
    failed,     \* fires that reported a failure
    admitted    \* [Connectors -> Seq([age, tier])]: what the limiter let through

sentinelVars == <<breaker, window, deadman, session>>
historyVars  == <<fresh, approved, failed, admitted>>
vars == <<sentinelVars, pc, req, sleep, verdict, ticket, historyVars>>

PCs == {"idle", "half_open", "rate", "dead_man", "gate", "awaiting",
        "throttled", "running", "opening", "done"}
Verdicts == {"none", "Go", "Throttle", "Pause", "Quarantine"}

ConnectorOf(r) ==
    IF r.action.kind = "RunConnector" THEN r.action.connector ELSE System

Conn(f) == ConnectorOf(req[f])

\* approval_key: the connector and the action name, or for a built-in action
\* its enum discriminant (the same whatever delete_source says).
approval_key(r) ==
    <<ConnectorOf(r),
      IF r.action.kind = "RunConnector" THEN r.action.name
      ELSE IF r.action.kind = "WriteFileDelete" THEN "WriteFile"
      ELSE r.action.kind>>

needs_human_Trusting(r) ==
    \/ r.autonomy = "ActWithApproval"
    \/ /\ classify_impact(r.action) = Destructive
       /\ r.policy # "RequireConsensus"
       /\ approval_key(r) \notin session

needs_human(r) ==
    \/ r.autonomy = "ActWithApproval"
    \/ /\ classify_impact(r.action) = Destructive
       /\ \/ r.policy \in {"AutoApprove", "AlwaysRequire"}
          \/ r.policy = "ApproveOnce" /\ approval_key(r) \notin session

----------------------------------------------------------------------------
Init ==
    /\ breaker = [c \in Connectors |-> Closed(0)]
    /\ window = [c \in Connectors |-> <<>>]
    /\ deadman = 0
    /\ session = {}
    /\ pc = [f \in Fires |-> "idle"]
    /\ req \in [Fires -> Requests]
    /\ sleep = [f \in Fires |-> 0]
    /\ verdict = [f \in Fires |-> "none"]
    /\ ticket = [f \in Fires |-> 0]
    /\ fresh = {}
    /\ approved = {}
    /\ failed = {}
    /\ admitted = [c \in Connectors |-> <<>>]

Goto(f, from, to) == pc[f] = from /\ pc' = [pc EXCEPT ![f] = to]

\* The step is dispatched: the connector's hints are read and evaluate begins
\* with check 1, is_allowed: go on, refuse, or (cooled down) drop the guard.
CheckBreaker(f) ==
    LET b == breaker[Conn(f)] IN
    /\ \/ /\ is_allowed_now(b)
          /\ Goto(f, "idle", "rate")
          /\ UNCHANGED verdict
       \/ /\ cooled_down(b, Cooldown)
          /\ Goto(f, "idle", "half_open")
          /\ UNCHANGED verdict
       \/ /\ ~is_allowed_now(b) /\ ~cooled_down(b, Cooldown)
          /\ Goto(f, "idle", "done")
          /\ verdict' = [verdict EXCEPT ![f] = "Quarantine"]
    /\ UNCHANGED <<sentinelVars, req, sleep, ticket, fresh, approved, failed, admitted>>

\* is_allowed inserts HalfOpen, whatever the entry has become meanwhile.
InsertHalfOpen(f) ==
    /\ Goto(f, "half_open", "rate")
    /\ breaker' = [breaker EXCEPT ![Conn(f)] = HalfOpened]
    /\ UNCHANGED <<window, deadman, session, req, sleep, verdict, ticket, historyVars>>

\* Check 2, check_at_tier: record the action, or return Throttle at once,
\* before the dead-man switch and the approval gate are consulted.
CheckRate(f) ==
    LET c == Conn(f)
        t == req[f].tier
        b == Budget[t]
    IN
    /\ window' = [window EXCEPT ![c] = recorded(@, b)]
    /\ IF over_budget(window[c], b)
       THEN /\ Goto(f, "rate", "throttled")
            /\ sleep' = [sleep EXCEPT ![f] = delay(window[c], b)]
            /\ verdict' = [verdict EXCEPT ![f] = "Throttle"]
            /\ UNCHANGED admitted
       ELSE /\ Goto(f, "rate", "dead_man")
            /\ admitted' = [admitted EXCEPT ![c] = Append(@, [age |-> 0, tier |-> t])]
            /\ UNCHANGED <<sleep, verdict>>
    /\ UNCHANGED <<breaker, deadman, session, req, ticket, fresh, approved, failed>>

CheckDeadMan_LateCount(f) ==
    /\ deadman' = deadman + 1
    /\ ticket' = [ticket EXCEPT ![f] = deadman + 1]
    /\ fresh' = fresh \cup {f}
    /\ IF deadman > DeadManThreshold
       THEN /\ Goto(f, "dead_man", "done")
            /\ verdict' = [verdict EXCEPT ![f] = "Pause"]
       ELSE /\ Goto(f, "dead_man", "gate")
            /\ UNCHANGED verdict
    /\ UNCHANGED <<breaker, window, session, req, sleep, approved, failed, admitted>>

\* Check 3, record_action: one atomic fetch_add, even past the threshold.
CheckDeadMan(f) ==
    /\ deadman' = deadman + 1
    /\ ticket' = [ticket EXCEPT ![f] = deadman + 1]
    /\ fresh' = fresh \cup {f}
    /\ IF deadman + 1 > DeadManThreshold
       THEN /\ Goto(f, "dead_man", "done")
            /\ verdict' = [verdict EXCEPT ![f] = "Pause"]
       ELSE /\ Goto(f, "dead_man", "gate")
            /\ UNCHANGED verdict
    /\ UNCHANGED <<breaker, window, session, req, sleep, approved, failed, admitted>>

\* Check 4: ask the gate, or return Go.
CheckApproval(f) ==
    /\ IF needs_human(req[f])
       THEN /\ Goto(f, "gate", "awaiting")
            /\ UNCHANGED verdict
       ELSE /\ Goto(f, "gate", "running")
            /\ verdict' = [verdict EXCEPT ![f] = "Go"]
    /\ UNCHANGED <<sentinelVars, req, sleep, ticket, historyVars>>

\* request_approval returned true: remember it under ApproveOnce, return Go.
Approve(f) ==
    /\ Goto(f, "awaiting", "running")
    /\ verdict' = [verdict EXCEPT ![f] = "Go"]
    /\ approved' = approved \cup {f}
    /\ session' = IF req[f].policy = "ApproveOnce"
                  THEN session \cup {approval_key(req[f])}
                  ELSE session
    /\ UNCHANGED <<breaker, window, deadman, req, sleep, ticket, fresh, failed, admitted>>

\* request_approval returned false: a refusal, a timeout, a lost responder.
Deny(f) ==
    /\ Goto(f, "awaiting", "done")
    /\ verdict' = [verdict EXCEPT ![f] = "Quarantine"]
    /\ UNCHANGED <<sentinelVars, req, sleep, ticket, historyVars>>

\* The throttle sleep is over: run_step_inner falls through to the action.
Wake(f) ==
    /\ sleep[f] = 0
    /\ Goto(f, "throttled", "running")
    /\ UNCHANGED <<sentinelVars, req, sleep, verdict, ticket, historyVars>>

\* The arm's value was an Ok, or a chain is through: report_success.
Succeed(f) ==
    /\ Goto(f, "running", "done")
    /\ breaker' = [breaker EXCEPT ![Conn(f)] = Closed(0)]
    /\ UNCHANGED <<window, deadman, session, req, sleep, verdict, ticket, historyVars>>

\* The arm's value was an Err: report_failure, up to the drop of the guard.
Fail(f) ==
    LET b == breaker[Conn(f)] IN
    /\ req[f].action.kind \in {"RunConnector", "AiComplete", "Extract"}
    /\ breaker' = [breaker EXCEPT ![Conn(f)] = count_failure(@)]
    /\ failed' = failed \cup {f}
    /\ IF failure_opens(b, Threshold)
       THEN Goto(f, "running", "opening")
       ELSE Goto(f, "running", "done")
    /\ UNCHANGED <<window, deadman, session, req, sleep, verdict, ticket,
                   fresh, approved, admitted>>

\* The arms that can return early with an Err, past the report: a file write
\* that is refused or fails, a dedupe store error or suppression, a chain that
\* one of its steps cut short.
WriteReturns(a)  == a.kind \in {"WriteFile", "WriteFileDelete"}
DedupeReturns(a) == a.kind = "Dedupe"
ChainReturns(a)  == a.kind = "Chain"

ReturnEarly(f) ==
    /\ LET a == req[f].action IN WriteReturns(a) \/ DedupeReturns(a) \/ ChainReturns(a)
    /\ Goto(f, "running", "done")
    /\ UNCHANGED <<sentinelVars, req, sleep, verdict, ticket, historyVars>>

\* report_failure inserts Open, whatever the entry has become meanwhile.
InsertOpen(f) ==
    /\ Goto(f, "opening", "done")
    /\ breaker' = [breaker EXCEPT ![Conn(f)] = Opened]
    /\ UNCHANGED <<window, deadman, session, req, sleep, verdict, ticket, historyVars>>

record_user_interaction ==
    /\ deadman' = 0
    /\ fresh' = {}
    /\ UNCHANGED <<breaker, window, session, pc, req, sleep, verdict, ticket,
                   approved, failed, admitted>>

Older(age) == IF age < Horizon THEN age + 1 ELSE age

\* One unit of time passes.
Tick ==
    /\ breaker' = [c \in Connectors |->
                      IF breaker[c].st = "Open"
                      THEN [breaker[c] EXCEPT !.age = Older(@)] ELSE breaker[c]]
    /\ window' = [c \in Connectors |-> [i \in DOMAIN window[c] |-> Older(window[c][i])]]
    /\ admitted' = [c \in Connectors |->
                      [i \in DOMAIN admitted[c] |->
                          [admitted[c][i] EXCEPT !.age = Older(@)]]]
    /\ sleep' = [f \in Fires |-> IF sleep[f] > 0 THEN sleep[f] - 1 ELSE 0]
    /\ UNCHANGED <<deadman, session, pc, req, verdict, ticket, fresh, approved, failed>>

Evaluate(f) ==
    InsertHalfOpen(f) \/ CheckRate(f) \/ CheckDeadMan(f) \/ CheckApproval(f)

Answer(f) == Approve(f) \/ Deny(f)

Run(f) == Succeed(f) \/ Fail(f) \/ ReturnEarly(f) \/ InsertOpen(f)

Next ==
    \/ \E f \in Fires : CheckBreaker(f) \/ Evaluate(f) \/ Answer(f) \/ Wake(f) \/ Run(f)
    \/ record_user_interaction
    \/ Tick

Spec == Init /\ [][Next]_vars

----------------------------------------------------------------------------
TypeOK ==
    /\ breaker \in [Connectors -> BreakerStates]
    /\ window \in [Connectors -> Seq(Nat)]
    /\ deadman \in Nat
    /\ session \subseteq Connectors \X (Names \cup Kinds)
    /\ pc \in [Fires -> PCs]
    /\ req \in [Fires -> Requests]
    /\ sleep \in [Fires -> Nat]
    /\ verdict \in [Fires -> Verdicts]
    /\ ticket \in [Fires -> Nat]
    /\ fresh \subseteq Fires
    /\ approved \subseteq Fires
    /\ failed \subseteq Fires
    /\ admitted \in [Connectors -> Seq([age : Nat, tier : Tiers])]

\* An action ran, or is about to: it got past evaluate's verdict.
Ran(f) ==
    \/ pc[f] \in {"running", "opening"}
    \/ pc[f] = "done" /\ verdict[f] \in {"Go", "Throttle"}

\* A destructive action let through by a Go verdict outside a formation vote
\* was approved by the gate: itself, or under ApproveOnce some earlier fire
\* of the same connector action (sentinel.rs, check 4).
GoWasApproved ==
    \A f \in Fires :
        (/\ Ran(f) /\ verdict[f] = "Go"
         /\ classify_impact(req[f].action) = Destructive
         /\ req[f].policy # "RequireConsensus")
        => \/ f \in approved
           \/ /\ req[f].policy = "ApproveOnce"
              /\ \E g \in approved : approval_key(req[g]) = approval_key(req[f])

\* However many fires race on the counter, at most DeadManThreshold actions
\* get a Go verdict on a count taken since the last user interaction
\* (dead_man.rs, record_action).
DeadManBound ==
    Cardinality({f \in fresh : verdict[f] = "Go"}) <= DeadManThreshold

\* A breaker whose failures reached the threshold is not left Closed: between
\* the count and the insertion of Open the fire that counted is on its way
\* (circuit_breaker.rs, report_failure drops the guard in between).
OverThresholdIsOpening ==
    \A c \in Connectors :
        breaker[c].st = "Closed" /\ breaker[c].n >= Threshold
        => \E f \in Fires : pc[f] = "opening" /\ Conn(f) = c

\* A breaker is Open or HalfOpen only if Threshold actions of its connector
\* failed: another connector's failures, refused fires and early returns
\* never open it (circuit_breaker.rs, report_failure).
OpenedByFailures ==
    \A c \in Connectors :
        breaker[c].st # "Closed"
        => Cardinality({f \in failed : Conn(f) = c}) >= Threshold

\* All tiers of a connector share one deque, and a call of a tier with a short
\* window prunes it for the others.  So whoever was admitted found fewer than
\* its tier's limit admitted within the shortest of the windows before it
\* (rate_limiter.rs, check_with_budget), which is its own when they are equal.
AdmittedWithinBudget ==
    \A c \in Connectors :
        \A i \in DOMAIN admitted[c] :
            LET b == Budget[admitted[c][i].tier] IN
            \A w \in 0..b.window :
                admitted[c][i].age = 0 /\ (\A t \in Tiers : w <= Budget[t].window)
                => Cardinality({j \in 1..(i - 1) : admitted[c][j].age <= w}) < b.limit

\* A destructive action that ran had its own human approval unless the policy
\* says otherwise (sentinel/src/approval.rs: "a destructive action without a
\* human on the other end never runs").
DestructiveNeedsHuman ==
    \A f \in Fires :
        (/\ Ran(f)
         /\ classify_impact(req[f].action) = Destructive
         /\ req[f].policy \in {"AutoApprove", "AlwaysRequire"})
        => f \in approved
=============================================================================

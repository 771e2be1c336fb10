--------------------------- MODULE Sentinel_proofs ---------------------------
(***************************************************************************)
(* Proofs about Sentinel, for every set of fires, connectors, tiers and    *)
(* requests and every threshold, cooldown and budget.                      *)
(***************************************************************************)
EXTENDS Sentinel, SequenceTheorems, FiniteSetTheorems, TLAPS

(***************************************************************************)
(* The limiter's deque                                                     *)
(***************************************************************************)
\* The pop_front loop stops: at the first young entry or past the end.
LEMMA FirstKeptExists ==
    ASSUME NEW d \in Seq(Nat), NEW w \in Nat
    PROVE  /\ FirstKept(d, w) \in 1..(Len(d) + 1)
           /\ FirstKept(d, w) <= Len(d) => d[FirstKept(d, w)] <= w
           /\ \A j \in 1..(FirstKept(d, w) - 1) : d[j] > w
<1> DEFINE T == {i \in 1..(Len(d) + 1) : i <= Len(d) => d[i] <= w}
<1>1. Len(d) \in Nat /\ \A i \in 1..Len(d) : d[i] \in Nat
  BY LenProperties, ElementOfSeq
<1>2. T \subseteq Nat /\ Len(d) + 1 \in T
  BY <1>1
<1>3. PICK x \in T : \A y \in T : ~ (<<y, x>> \in OpToRel(<, Nat))
  BY <1>2, WFMin, NatLessThanWellFounded
<1>4. \A y \in T : ~ (y < x)
  BY <1>2, <1>3 DEF OpToRel
<1>5. ASSUME NEW j \in 1..(x - 1) PROVE d[j] > w
  <2>1. j \in 1..(Len(d) + 1) /\ j <= Len(d) /\ j < x
    BY <1>1
  <2>2. j \notin T
    BY <1>4, <2>1
  <2> QED
    BY <1>1, <2>1, <2>2
<1> QED
  BY <1>5 DEF FirstKept

\* Pruning leaves a deque of ages; its head, if any, is within the window.
LEMMA PrunedType ==
    ASSUME NEW d \in Seq(Nat), NEW w \in Nat
    PROVE  /\ pruned(d, w) \in Seq(Nat)
           /\ Len(pruned(d, w)) > 0 => Head(pruned(d, w)) \in 0..w
<1> DEFINE k == FirstKept(d, w)
<1>1. k \in 1..(Len(d) + 1) /\ (k <= Len(d) => d[k] <= w)
  BY FirstKeptExists
<1>2. Len(d) \in Nat /\ \A i \in 1..Len(d) : d[i] \in Nat
  BY LenProperties, ElementOfSeq
<1> HIDE DEF k
<1>3. /\ SubSeq(d, k, Len(d)) \in Seq(Nat)
      /\ Len(SubSeq(d, k, Len(d))) = IF k <= Len(d) THEN Len(d) - k + 1 ELSE 0
  <2>1. k \in Int /\ Len(d) \in Int /\ \A i \in k..Len(d) : d[i] \in Nat
    BY <1>1, <1>2
  <2> QED
    BY <2>1, SubSeqProperties
<1>4. ASSUME k <= Len(d) PROVE Head(SubSeq(d, k, Len(d))) \in 0..w
  <2>1. k \in 1..Len(d) /\ Len(d) \in k..Len(d)
    BY <1>1, <1>2, <1>4
  <2>2. Head(SubSeq(d, k, Len(d))) = d[k]
    BY <2>1, HeadTailOfSubSeq
  <2> QED
    BY <1>1, <1>2, <2>1, <2>2
<1> QED
  BY <1>1, <1>2, <1>3, <1>4 DEF pruned, k

\* A call records one more age or none, and a refused call is told to sleep for
\* a time that is not negative.
LEMMA LimiterType ==
    ASSUME NEW d \in Seq(Nat), NEW b \in [limit : Nat \ {0}, window : Nat]
    PROVE  /\ recorded(d, b) \in Seq(Nat)
           /\ over_budget(d, b) => delay(d, b) \in Nat
<1>1. b.window \in Nat /\ b.limit \in Nat \ {0}
  OBVIOUS
<1> DEFINE p == pruned(d, b.window)
<1>2. p \in Seq(Nat) /\ Len(p) \in Nat /\ (Len(p) > 0 => Head(p) \in 0..b.window)
  BY <1>1, PrunedType, LenProperties
<1>3. Append(p, 0) \in Seq(Nat)
  BY <1>2, AppendProperties
<1>4. over_budget(d, b) => Len(p) > 0
  BY <1>1, <1>2 DEF over_budget
<1> QED
  BY <1>1, <1>2, <1>3, <1>4 DEF recorded, delay

(***************************************************************************)
(* Types                                                                   *)
(***************************************************************************)
\* The parts of the assumption on the constants that the proofs use.
LEMMA Constants ==
    /\ \A r \in Requests : /\ r \in [action : Actions, tier : Tiers, policy : Policies,
                                    autonomy : Autonomies]
                           /\ r.action \in Actions /\ r.tier \in Tiers
                           /\ r.policy \in Policies
                           /\ ConnectorOf(r) \in Connectors
                           /\ approval_key(r) \in Connectors \X (Names \cup Kinds)
    /\ \A t \in Tiers : Budget[t] \in [limit : Nat \ {0}, window : Nat]
    /\ Threshold \in Nat \ {0} /\ DeadManThreshold \in Nat /\ Horizon \in Nat
<1>1. ASSUME NEW r \in Requests
      PROVE  /\ r \in [action : Actions, tier : Tiers, policy : Policies,
                       autonomy : Autonomies]
             /\ r.action \in Actions /\ r.tier \in Tiers /\ r.policy \in Policies
  BY SentinelAssumption
<1>2. ASSUME NEW r \in Requests
      PROVE  /\ ConnectorOf(r) \in Connectors
             /\ approval_key(r) \in Connectors \X (Names \cup Kinds)
  <2>1. /\ r.action.connector \in Connectors /\ r.action.name \in Names
        /\ r.action.kind \in Kinds
    BY <1>1 DEF Actions
  <2>2. ConnectorOf(r) \in Connectors
    BY <2>1, SentinelAssumption DEF ConnectorOf
  <2>3. "WriteFile" \in Kinds
    BY DEF Kinds, LeafKinds
  <2> QED
    BY <2>1, <2>2, <2>3 DEF approval_key
<1> QED
  BY <1>1, <1>2, SentinelAssumption

\* The initial state is typed.
LEMMA TypeInit == Init => TypeOK
<1> SUFFICES ASSUME Init PROVE TypeOK
  OBVIOUS
<1>1. breaker \in [Connectors -> BreakerStates]
  BY DEF Init, Closed, BreakerStates
<1>2. <<>> \in Seq(Nat) /\ <<>> \in Seq([age : Nat, tier : Tiers])
  BY EmptySeq
<1> QED
  BY <1>1, <1>2 DEF Init, TypeOK, PCs, Verdicts

USE DEF sentinelVars, historyVars

\* Each fire names a connector of the breaker's and the limiter's maps.
LEMMA ConnType == TypeOK => \A f \in Fires : Conn(f) \in Connectors
BY Constants DEF TypeOK, Conn

\* Aging keeps a sequence of ages a sequence of ages.
LEMMA OlderType == \A a \in Nat : Older(a) \in Nat
BY Constants DEF Older

\* A function on 1..m is a sequence.
LEMMA FunctionIsSeq ==
    ASSUME NEW S, NEW m \in Nat
    PROVE  [1..m -> S] \subseteq Seq(S)
OBVIOUS

\* Time passing leaves a deque of ages.
LEMMA AgedWindow ==
    ASSUME NEW d \in Seq(Nat)
    PROVE  [i \in DOMAIN d |-> Older(d[i])] \in Seq(Nat)
<1>1. Len(d) \in Nat /\ DOMAIN d = 1..Len(d) /\ \A i \in 1..Len(d) : d[i] \in Nat
  BY LenProperties, ElementOfSeq
<1>2. [i \in 1..Len(d) |-> Older(d[i])] \in [1..Len(d) -> Nat]
  BY <1>1, OlderType
<1> QED
  BY <1>1, <1>2, FunctionIsSeq

\* Time passing leaves the history of admissions typed.
LEMMA AgedAdmitted ==
    ASSUME NEW d \in Seq([age : Nat, tier : Tiers])
    PROVE  [i \in DOMAIN d |-> [d[i] EXCEPT !.age = Older(@)]]
              \in Seq([age : Nat, tier : Tiers])
<1> DEFINE R == [age : Nat, tier : Tiers]
<1>1. Len(d) \in Nat /\ DOMAIN d = 1..Len(d) /\ \A i \in 1..Len(d) : d[i] \in R
  BY LenProperties, ElementOfSeq
<1>2. \A i \in 1..Len(d) : [d[i] EXCEPT !.age = Older(@)] \in R
  BY <1>1, OlderType
<1>3. [i \in 1..Len(d) |-> [d[i] EXCEPT !.age = Older(@)]] \in [1..Len(d) -> R]
  BY <1>2
<1> HIDE DEF R
<1>4. [1..Len(d) -> R] \subseteq Seq(R)
  BY <1>1, FunctionIsSeq
<1>5. [i \in DOMAIN d |-> [d[i] EXCEPT !.age = Older(@)]] \in Seq(R)
  BY <1>1, <1>3, <1>4
<1> QED
  BY <1>5 DEF R

\* Every step of a fire, a user interaction and the passing of time keep the
\* types of the sentinel's state and of the fires.
LEMMA TypeStep == TypeOK /\ [Next]_vars => TypeOK'
<1> SUFFICES ASSUME TypeOK, [Next]_vars
             PROVE  TypeOK'
  OBVIOUS
<1>a. \A f \in Fires : Conn(f) \in Connectors
  BY ConnType
<1>b. \A f \in Fires : req[f] \in Requests
  BY DEF TypeOK
<1>1. ASSUME NEW f \in Fires, CheckBreaker(f) PROVE TypeOK'
  BY <1>1 DEF CheckBreaker, Goto, TypeOK, PCs, Verdicts
<1>2. ASSUME NEW f \in Fires, InsertHalfOpen(f) PROVE TypeOK'
  <2>1. HalfOpened \in BreakerStates
    BY DEF HalfOpened, BreakerStates
  <2> QED
    BY <1>2, <2>1 DEF InsertHalfOpen, Goto, TypeOK, PCs
<1>3. ASSUME NEW f \in Fires, CheckRate(f) PROVE TypeOK'
  <2> DEFINE c == Conn(f)
             b == Budget[req[f].tier]
             R == [age : Nat, tier : Tiers]
  <2>1. c \in Connectors /\ req[f].tier \in Tiers /\ b \in [limit : Nat \ {0}, window : Nat]
    BY <1>a, <1>b, Constants
  <2>2. window[c] \in Seq(Nat) /\ admitted[c] \in Seq(R)
    BY <2>1 DEF TypeOK
  <2>3. recorded(window[c], b) \in Seq(Nat)
    BY <2>1, <2>2, LimiterType
  <2>4. over_budget(window[c], b) => delay(window[c], b) \in Nat
    BY <2>1, <2>2, LimiterType
  <2>5. [age |-> 0, tier |-> req[f].tier] \in R
    BY <2>1
  <2>6. Append(admitted[c], [age |-> 0, tier |-> req[f].tier]) \in Seq(R)
    BY <2>2, <2>5, AppendProperties
  <2>7. /\ window' = [window EXCEPT ![c] = recorded(window[c], b)]
        /\ \/ /\ over_budget(window[c], b)
              /\ pc' = [pc EXCEPT ![f] = "throttled"]
              /\ sleep' = [sleep EXCEPT ![f] = delay(window[c], b)]
              /\ verdict' = [verdict EXCEPT ![f] = "Throttle"]
              /\ UNCHANGED admitted
           \/ /\ pc' = [pc EXCEPT ![f] = "dead_man"]
              /\ admitted' = [admitted EXCEPT ![c] =
                                 Append(admitted[c], [age |-> 0, tier |-> req[f].tier])]
              /\ UNCHANGED <<sleep, verdict>>
        /\ UNCHANGED <<breaker, deadman, session, req, ticket, fresh, approved, failed>>
    BY <1>3 DEF CheckRate, Goto
  <2> HIDE DEF c, b, R
  <2>8. window' \in [Connectors -> Seq(Nat)]
    BY <2>1, <2>3, <2>7 DEF TypeOK
  <2>9. admitted' \in [Connectors -> Seq(R)]
    BY <2>1, <2>6, <2>7 DEF TypeOK, R
  <2>10. pc' \in [Fires -> PCs] /\ verdict' \in [Fires -> Verdicts]
    BY <2>7 DEF TypeOK, PCs, Verdicts
  <2>11. sleep' \in [Fires -> Nat]
    BY <2>4, <2>7 DEF TypeOK
  <2> QED
    BY <2>7, <2>8, <2>9, <2>10, <2>11 DEF TypeOK, R
<1>4. ASSUME NEW f \in Fires, CheckDeadMan(f) PROVE TypeOK'
  <2>1. deadman + 1 \in Nat
    BY DEF TypeOK
  <2> QED
    BY <1>4, <2>1 DEF CheckDeadMan, Goto, TypeOK, PCs, Verdicts
<1>5. ASSUME NEW f \in Fires, CheckApproval(f) PROVE TypeOK'
  BY <1>5 DEF CheckApproval, Goto, TypeOK, PCs, Verdicts
<1>6. ASSUME NEW f \in Fires, Approve(f) PROVE TypeOK'
  <2>1. approval_key(req[f]) \in Connectors \X (Names \cup Kinds)
    BY <1>b, Constants
  <2> QED
    BY <1>6, <2>1 DEF Approve, Goto, TypeOK, PCs, Verdicts
<1>7. ASSUME NEW f \in Fires, Deny(f) \/ Wake(f) PROVE TypeOK'
  BY <1>7 DEF Deny, Wake, Goto, TypeOK, PCs, Verdicts
<1>8. ASSUME NEW f \in Fires, Succeed(f) PROVE TypeOK'
  <2>1. Closed(0) \in BreakerStates
    BY DEF Closed, BreakerStates
  <2> QED
    BY <1>8, <2>1 DEF Succeed, Goto, TypeOK, PCs
<1>9. ASSUME NEW f \in Fires, Fail(f) PROVE TypeOK'
  <2>1. \A b \in BreakerStates : count_failure(b) \in BreakerStates
    BY DEF count_failure, Closed, BreakerStates
  <2>2. breaker' \in [Connectors -> BreakerStates]
    BY <1>9, <1>a, <2>1 DEF Fail, TypeOK
  <2> QED
    BY <1>9, <2>2 DEF Fail, Goto, TypeOK, PCs
<1>10. ASSUME NEW f \in Fires, ReturnEarly(f) PROVE TypeOK'
  BY <1>10 DEF ReturnEarly, Goto, TypeOK, PCs
<1>11. ASSUME NEW f \in Fires, InsertOpen(f) PROVE TypeOK'
  <2>1. Opened \in BreakerStates
    BY DEF Opened, BreakerStates
  <2> QED
    BY <1>11, <2>1 DEF InsertOpen, Goto, TypeOK, PCs
<1>12. CASE record_user_interaction
  BY <1>12 DEF record_user_interaction, TypeOK
<1>13. CASE Tick
  <2>1. breaker' \in [Connectors -> BreakerStates]
    <3>1. \A b \in BreakerStates : b.st = "Open" => [b EXCEPT !.age = Older(@)] \in BreakerStates
      BY OlderType DEF BreakerStates
    <3> QED
      BY <1>13, <3>1 DEF Tick, TypeOK
  <2>2. window' \in [Connectors -> Seq(Nat)]
    BY <1>13, AgedWindow DEF Tick, TypeOK
  <2>3. admitted' \in [Connectors -> Seq([age : Nat, tier : Tiers])]
    BY <1>13, AgedAdmitted DEF Tick, TypeOK
  <2>4. sleep' \in [Fires -> Nat]
    BY <1>13 DEF Tick, TypeOK
  <2> QED
    BY <1>13, <2>1, <2>2, <2>3, <2>4 DEF Tick, TypeOK
<1>14. CASE UNCHANGED vars
  BY <1>14 DEF vars, TypeOK
<1> QED
  BY <1>1, <1>2, <1>3, <1>4, <1>5, <1>6, <1>7, <1>8, <1>9, <1>10, <1>11, <1>12, <1>13,
     <1>14 DEF Next, Evaluate, Answer, Run

\* The sentinel's maps, counters and deques and the fires keep their types; in
\* particular no throttle sleep is ever negative.
THEOREM TypeCorrect == Spec => []TypeOK
BY TypeInit, TypeStep, PTL DEF Spec

(***************************************************************************)
(* Go verdicts on destructive actions                                      *)
(***************************************************************************)
\* The keys of session_approvals stem from approved fires of that key.
KeysApproved == \A k \in session : \E g \in approved : approval_key(req[g]) = k

\* What GoWasApproved says of a fire, from the moment it has its verdict.
Backed(f) ==
    (/\ verdict[f] = "Go"
     /\ classify_impact(req[f].action) = Destructive
     /\ req[f].policy # "RequireConsensus")
    => \/ f \in approved
       \/ /\ req[f].policy = "ApproveOnce"
          /\ \E g \in approved : approval_key(req[g]) = approval_key(req[f])

ApprovalInv == TypeOK /\ KeysApproved /\ \A f \in Fires : Backed(f)

\* Every step keeps the approvals behind the keys and the Go verdicts.
LEMMA ApprovalStep == ApprovalInv /\ [Next]_vars => ApprovalInv'
<1> SUFFICES ASSUME ApprovalInv, [Next]_vars
             PROVE  KeysApproved' /\ \A f \in Fires : Backed(f)'
  BY TypeStep DEF ApprovalInv
<1> USE DEF ApprovalInv, KeysApproved, Backed
<1>a. approved \subseteq approved' /\ req' = req
  BY DEF Next, Evaluate, Answer, Run, vars, CheckBreaker, InsertHalfOpen, CheckRate,
         CheckDeadMan, CheckApproval, Approve, Deny, Wake, Succeed, Fail, ReturnEarly,
         InsertOpen, record_user_interaction, Tick
<1>1. ASSUME NEW f \in Fires, CheckApproval(f)
      PROVE  KeysApproved' /\ \A g \in Fires : Backed(g)'
  <2>1. session' = session /\ approved' = approved
    BY <1>1 DEF CheckApproval
  <2>2. \A g \in Fires : g # f => verdict'[g] = verdict[g]
    BY <1>1 DEF CheckApproval, TypeOK
  <2>3. Backed(f)'
    <3>1. CASE needs_human(req[f])
      BY <1>1, <1>a, <2>1, <3>1 DEF CheckApproval
    <3>2. CASE ~ needs_human(req[f])
      <4>1. req[f].policy \in Policies
        BY Constants DEF TypeOK
      <4>2. classify_impact(req[f].action) = Destructive /\ req[f].policy # "RequireConsensus"
            => req[f].policy = "ApproveOnce" /\ approval_key(req[f]) \in session
        BY <3>2, <4>1 DEF needs_human, Policies
      <4> QED
        BY <1>a, <2>1, <4>2
    <3> QED
      BY <3>1, <3>2
  <2> QED
    BY <1>a, <2>1, <2>2, <2>3
<1>2. ASSUME NEW f \in Fires, Approve(f)
      PROVE  KeysApproved' /\ \A g \in Fires : Backed(g)'
  <2>1. f \in approved' /\ session' \subseteq session \cup {approval_key(req[f])}
    BY <1>2 DEF Approve
  <2>2. \A g \in Fires : g # f => verdict'[g] = verdict[g]
    BY <1>2 DEF Approve, TypeOK
  <2> QED
    BY <1>a, <2>1, <2>2
<1>3. ASSUME UNCHANGED <<session, approved>>,
             \A g \in Fires : verdict'[g] = "Go" => verdict[g] = "Go"
      PROVE  KeysApproved' /\ \A g \in Fires : Backed(g)'
  BY <1>a, <1>3
<1>4. ASSUME NEW f \in Fires, CheckBreaker(f) \/ CheckRate(f) \/ CheckDeadMan(f) \/ Deny(f)
      PROVE  \A g \in Fires : verdict'[g] = "Go" => verdict[g] = "Go"
  BY <1>4 DEF CheckBreaker, CheckRate, CheckDeadMan, Deny, TypeOK
<1> QED
  BY <1>1, <1>2, <1>3, <1>4
     DEF Next, Evaluate, Answer, Run, vars, CheckBreaker, InsertHalfOpen, CheckRate,
         CheckDeadMan, Deny, Wake, Succeed, Fail, ReturnEarly, InsertOpen,
         record_user_interaction, Tick

\* A Go verdict on a destructive action rests on a human's approval (or on a
\* formation vote), however many fires share the session's approvals.
THEOREM GoIsApproved == Spec => []GoWasApproved
<1>1. Init => ApprovalInv
  BY TypeInit DEF Init, ApprovalInv, KeysApproved, Backed
<1>2. ApprovalInv => GoWasApproved
  BY DEF ApprovalInv, Backed, GoWasApproved
<1> QED
  BY <1>1, <1>2, ApprovalStep, PTL DEF Spec

(***************************************************************************)
(* The dead-man switch                                                     *)
(***************************************************************************)
\* Fires counted since the last interaction hold distinct tickets.
Tickets ==
    /\ \A f \in fresh : ticket[f] \in 1..deadman
    /\ \A f, g \in fresh : ticket[f] = ticket[g] => f = g

\* A fire has no verdict while it is evaluated, and only a ticket up to the
\* threshold leads to the approval gate and to a Go.
Counted(f) ==
    /\ pc[f] \in {"idle", "half_open", "rate", "dead_man", "gate", "awaiting"}
       => verdict[f] = "none"
    /\ pc[f] \in {"gate", "awaiting"} \/ verdict[f] = "Go"
       => ticket[f] <= DeadManThreshold

DeadManInv == TypeOK /\ Tickets /\ \A f \in Fires : Counted(f)

\* Every step keeps the tickets distinct and the Go verdicts under the threshold.
LEMMA DeadManStep == DeadManInv /\ [Next]_vars => DeadManInv'
<1> SUFFICES ASSUME DeadManInv, [Next]_vars
             PROVE  Tickets' /\ \A f \in Fires : Counted(f)'
  BY TypeStep DEF DeadManInv
<1> USE DEF DeadManInv, Counted
<1>1. ASSUME NEW f \in Fires, CheckDeadMan(f)
      PROVE  Tickets' /\ \A g \in Fires : Counted(g)'
  <2>1. deadman \in Nat /\ fresh \subseteq Fires /\ ticket \in [Fires -> Nat]
    BY DEF TypeOK
  <2>2. /\ deadman' = deadman + 1 /\ fresh' = fresh \cup {f}
        /\ ticket' = [ticket EXCEPT ![f] = deadman + 1]
    BY <1>1 DEF CheckDeadMan
  <2>3. Tickets'
    BY <2>1, <2>2 DEF Tickets
  <2>4. \A g \in Fires : g # f => /\ pc'[g] = pc[g] /\ verdict'[g] = verdict[g]
                                  /\ ticket'[g] = ticket[g]
    BY <1>1 DEF CheckDeadMan, Goto, TypeOK
  <2>5. Counted(f)'
    BY <1>1, <2>1, <2>2, Constants DEF CheckDeadMan, Goto, TypeOK
  <2> QED
    BY <2>3, <2>4, <2>5
<1>2. ASSUME ~ \E f \in Fires : CheckDeadMan(f)
      PROVE  Tickets'
  <2>1. UNCHANGED <<deadman, fresh, ticket>> \/ (fresh' = {})
    BY <1>2
       DEF Next, Evaluate, Answer, Run, vars, CheckBreaker, InsertHalfOpen, CheckRate,
           CheckApproval, Approve, Deny, Wake, Succeed, Fail, ReturnEarly, InsertOpen,
           record_user_interaction, Tick
  <2> QED
    BY <2>1 DEF Tickets
<1>3. ASSUME NEW f \in Fires,
             \/ CheckBreaker(f) \/ InsertHalfOpen(f) \/ CheckRate(f)
             \/ CheckApproval(f) \/ Approve(f) \/ Deny(f) \/ Wake(f)
             \/ Succeed(f) \/ Fail(f) \/ ReturnEarly(f) \/ InsertOpen(f)
      PROVE  \A g \in Fires : Counted(g)'
  <2>1. ticket' = ticket
    BY <1>3 DEF CheckBreaker, InsertHalfOpen, CheckRate, CheckApproval, Approve, Deny, Wake,
                Succeed, Fail, ReturnEarly, InsertOpen
  <2>2. \A g \in Fires : g # f => pc'[g] = pc[g] /\ verdict'[g] = verdict[g]
    BY <1>3 DEF CheckBreaker, InsertHalfOpen, CheckRate, CheckApproval, Approve, Deny, Wake,
                Succeed, Fail, ReturnEarly, InsertOpen, Goto, TypeOK
  <2>3. Counted(f)'
    <3>1. CASE CheckBreaker(f) \/ InsertHalfOpen(f) \/ CheckRate(f)
      BY <2>1, <3>1 DEF CheckBreaker, InsertHalfOpen, CheckRate, Goto, TypeOK
    <3>2. CASE CheckApproval(f) \/ Approve(f) \/ Deny(f) \/ Wake(f)
      BY <2>1, <3>2 DEF CheckApproval, Approve, Deny, Wake, Goto, TypeOK
    <3>3. CASE Succeed(f) \/ Fail(f) \/ ReturnEarly(f) \/ InsertOpen(f)
      BY <2>1, <3>3 DEF Succeed, Fail, ReturnEarly, InsertOpen, Goto, TypeOK
    <3> QED
      BY <1>3, <3>1, <3>2, <3>3
  <2> QED
    BY <2>1, <2>2, <2>3
<1>4. ASSUME UNCHANGED <<pc, verdict, ticket>>
      PROVE  \A g \in Fires : Counted(g)'
  BY <1>4
<1> HIDE DEF DeadManInv, Counted
<1>5. CASE \E f \in Fires : CheckDeadMan(f)
  BY <1>1, <1>5
<1>6. ASSUME ~ \E f \in Fires : CheckDeadMan(f)
      PROVE  \A g \in Fires : Counted(g)'
  BY <1>3, <1>4, <1>6
     DEF Next, Evaluate, Answer, Run, vars, record_user_interaction, Tick
<1> QED
  BY <1>2, <1>5, <1>6

\* Distinct tickets up to the threshold: at most that many fires.
LEMMA TicketsBound == DeadManInv => DeadManBound
<1> SUFFICES ASSUME DeadManInv PROVE DeadManBound
  OBVIOUS
<1> DEFINE S == {f \in fresh : verdict[f] = "Go"}
           T == 1..DeadManThreshold
           h == [f \in S |-> ticket[f]]
<1>1. DeadManThreshold \in Nat /\ fresh \subseteq Fires /\ ticket \in [Fires -> Nat]
      /\ deadman \in Nat
  BY Constants DEF DeadManInv, TypeOK
<1>2. \A f \in S : ticket[f] \in T
  BY <1>1 DEF DeadManInv, Tickets, Counted
<1>3. h \in Injection(S, T)
  BY <1>2 DEF Injection, IsInjective, DeadManInv, Tickets
<1>4. IsFiniteSet(T) /\ Cardinality(T) = DeadManThreshold
  BY <1>1, FS_Interval
<1> HIDE DEF S, T, h
<1>5. Cardinality(S) <= Cardinality(T)
  BY <1>3, <1>4, FS_Injection
<1> QED
  BY <1>4, <1>5 DEF DeadManBound, S

\* Racing fires never get more Go verdicts out of the counter than its
\* threshold between two user interactions.
THEOREM DeadManHolds == Spec => []DeadManBound
<1>1. Init => DeadManInv
  BY TypeInit, Constants DEF Init, DeadManInv, Tickets, Counted
<1> QED
  BY <1>1, DeadManStep, TicketsBound, PTL DEF Spec

(***************************************************************************)
(* The circuit breaker                                                     *)
(***************************************************************************)
\* Only these steps touch the breaker of a connector or leave "opening".
LEMMA OpeningStep ==
    TypeOK /\ OverThresholdIsOpening /\ [Next]_vars => OverThresholdIsOpening'
<1> SUFFICES ASSUME TypeOK, OverThresholdIsOpening, [Next]_vars,
                    NEW c \in Connectors,
                    breaker'[c].st = "Closed", breaker'[c].n >= Threshold
             PROVE  \E f \in Fires : pc'[f] = "opening" /\ Conn(f)' = c
  BY DEF OverThresholdIsOpening
<1>a. req' = req
  BY DEF Next, Evaluate, Answer, Run, vars, CheckBreaker, InsertHalfOpen, CheckRate,
         CheckDeadMan, CheckApproval, Approve, Deny, Wake, Succeed, Fail, ReturnEarly,
         InsertOpen, record_user_interaction, Tick
<1>b. \A f \in Fires : Conn(f)' = Conn(f) /\ Conn(f) \in Connectors
  BY <1>a, ConnType DEF Conn
<1>c. Threshold \in Nat \ {0} /\ breaker \in [Connectors -> BreakerStates]
      /\ pc \in [Fires -> PCs]
  BY Constants DEF TypeOK
<1>1. ASSUME breaker'[c] = breaker[c],
             \A f \in Fires : pc[f] = "opening" /\ Conn(f) = c => pc'[f] = "opening"
      PROVE  \E f \in Fires : pc'[f] = "opening" /\ Conn(f)' = c
  <2>1. PICK f \in Fires : pc[f] = "opening" /\ Conn(f) = c
    BY <1>1 DEF OverThresholdIsOpening
  <2> QED
    BY <1>1, <1>b, <2>1
<1>2. ASSUME NEW f \in Fires, Fail(f)
      PROVE  \E g \in Fires : pc'[g] = "opening" /\ Conn(g)' = c
  <2>1. CASE Conn(f) # c
    BY <1>2, <1>1, <1>c, <2>1 DEF Fail, Goto
  <2>2. CASE Conn(f) = c /\ failure_opens(breaker[c], Threshold)
    BY <1>2, <1>b, <1>c, <2>2 DEF Fail, Goto
  <2>3. CASE Conn(f) = c /\ ~ failure_opens(breaker[c], Threshold)
    <3>1. breaker'[c] = count_failure(breaker[c])
      BY <1>2, <1>c, <2>3 DEF Fail
    <3>2. breaker[c].st # "Closed"
      BY <1>c, <2>3, <3>1 DEF failure_opens, count_failure, Closed, BreakerStates
    <3> QED
      BY <3>1, <3>2 DEF count_failure
  <2> QED
    BY <2>1, <2>2, <2>3
<1>3. ASSUME NEW f \in Fires, Succeed(f)
      PROVE  \E g \in Fires : pc'[g] = "opening" /\ Conn(g)' = c
  <2>1. Conn(f) # c
    BY <1>3, <1>c DEF Succeed, Closed
  <2> QED
    BY <1>3, <1>1, <1>c, <2>1 DEF Succeed, Goto
<1>4. ASSUME NEW f \in Fires, InsertHalfOpen(f)
      PROVE  \E g \in Fires : pc'[g] = "opening" /\ Conn(g)' = c
  <2>1. Conn(f) # c
    BY <1>4, <1>c DEF InsertHalfOpen, HalfOpened
  <2> QED
    BY <1>4, <1>1, <1>c, <2>1 DEF InsertHalfOpen, Goto
<1>5. ASSUME NEW f \in Fires, InsertOpen(f)
      PROVE  \E g \in Fires : pc'[g] = "opening" /\ Conn(g)' = c
  <2>1. Conn(f) # c
    BY <1>5, <1>c DEF InsertOpen, Opened
  <2> QED
    BY <1>5, <1>1, <1>c, <2>1 DEF InsertOpen, Goto
<1>6. ASSUME NEW f \in Fires,
             \/ CheckBreaker(f) \/ CheckRate(f) \/ CheckDeadMan(f) \/ CheckApproval(f)
             \/ Approve(f) \/ Deny(f) \/ Wake(f) \/ ReturnEarly(f)
      PROVE  \E g \in Fires : pc'[g] = "opening" /\ Conn(g)' = c
  <2>1. breaker' = breaker
    BY <1>6 DEF CheckBreaker, CheckRate, CheckDeadMan, CheckApproval, Approve, Deny, Wake,
                ReturnEarly
  <2>2. \A g \in Fires : pc[g] = "opening" => pc'[g] = "opening"
    BY <1>6, <1>c DEF CheckBreaker, CheckRate, CheckDeadMan, CheckApproval, Approve, Deny,
                Wake, ReturnEarly, Goto
  <2> QED
    BY <1>1, <2>1, <2>2
<1>7. CASE Tick
  <2>1. breaker'[c] = breaker[c]
    BY <1>7, <1>c DEF Tick, BreakerStates
  <2> QED
    BY <1>7, <1>1, <2>1 DEF Tick
<1>8. CASE UNCHANGED <<breaker, pc>>
  BY <1>8, <1>1
<1> QED
  BY <1>2, <1>3, <1>4, <1>5, <1>6, <1>7, <1>8
     DEF Next, Evaluate, Answer, Run, vars, record_user_interaction

\* The guard that report_failure drops between counting and opening loses no
\* threshold crossing: somebody is always on the way to insert Open.
THEOREM CrossingIsOpening == Spec => []OverThresholdIsOpening
<1>1. Init => TypeOK /\ OverThresholdIsOpening
  BY TypeInit, Constants DEF Init, OverThresholdIsOpening, Closed
<1>2. TypeOK /\ OverThresholdIsOpening /\ [Next]_vars => (TypeOK /\ OverThresholdIsOpening)'
  BY TypeStep, OpeningStep
<1> QED
  BY <1>1, <1>2, PTL DEF Spec

\* The fires of a connector that reported a failure.
FailedOf(c) == {f \in failed : Conn(f) = c}

\* A fire reports once; the count of a Closed entry never runs ahead of the
\* failures reported, and to insert HalfOpen or Open takes Threshold of them.
FailuresInv ==
    /\ TypeOK /\ OpenedByFailures
    /\ IsFiniteSet(failed)
    /\ \A f \in failed : pc[f] \in {"opening", "done"}
    /\ \A c \in Connectors :
          breaker[c].st = "Closed" => Cardinality(FailedOf(c)) >= breaker[c].n
    /\ \A f \in Fires :
          pc[f] \in {"half_open", "opening"} => Cardinality(FailedOf(Conn(f))) >= Threshold

\* A report adds one failure to its connector and none to the others.
LEMMA OneMoreFailure ==
    ASSUME FailuresInv, NEW f \in Fires, f \notin failed,
           failed' = failed \cup {f}, req' = req
    PROVE  /\ IsFiniteSet(failed')
           /\ \A c \in Connectors : /\ Cardinality(FailedOf(c)) \in Nat
                                    /\ Cardinality(FailedOf(c)') \in Nat
                                    /\ Cardinality(FailedOf(c)') >= Cardinality(FailedOf(c))
           /\ Cardinality(FailedOf(Conn(f))') = Cardinality(FailedOf(Conn(f))) + 1
<1>1. IsFiniteSet(failed) /\ IsFiniteSet(failed')
  BY FS_AddElement DEF FailuresInv
<1>2. \A g \in Fires : Conn(g)' = Conn(g)
  BY DEF Conn
<1>3. failed \subseteq Fires
  BY DEF FailuresInv, TypeOK
<1>4. ASSUME NEW c \in Connectors
      PROVE  /\ Cardinality(FailedOf(c)) \in Nat /\ Cardinality(FailedOf(c)') \in Nat
             /\ Cardinality(FailedOf(c)') >= Cardinality(FailedOf(c))
  <2>1. IsFiniteSet(FailedOf(c)) /\ IsFiniteSet(FailedOf(c)')
    <3>1. FailedOf(c) \subseteq failed /\ FailedOf(c)' \subseteq failed'
      BY DEF FailedOf
    <3> QED
      BY <1>1, <3>1, FS_Subset
  <2>2. FailedOf(c) \subseteq FailedOf(c)'
    BY <1>2, <1>3 DEF FailedOf
  <2> QED
    BY <2>1, <2>2, FS_Subset, FS_CardinalityType
<1>5. Cardinality(FailedOf(Conn(f))') = Cardinality(FailedOf(Conn(f))) + 1
  <2>1. FailedOf(Conn(f))' = FailedOf(Conn(f)) \cup {f} /\ f \notin FailedOf(Conn(f))
    BY <1>2, <1>3 DEF FailedOf
  <2>2. IsFiniteSet(FailedOf(Conn(f)))
    BY <1>1, FS_Subset DEF FailedOf
  <2> QED
    BY <2>1, <2>2, FS_AddElement
<1> QED
  BY <1>1, <1>4, <1>5

\* Every step keeps the failures behind the breakers.
LEMMA FailuresStep == FailuresInv /\ [Next]_vars => FailuresInv'
<1> SUFFICES ASSUME FailuresInv, [Next]_vars PROVE FailuresInv'
  OBVIOUS
<1>a. req' = req
  BY DEF Next, Evaluate, Answer, Run, vars, CheckBreaker, InsertHalfOpen, CheckRate,
         CheckDeadMan, CheckApproval, Approve, Deny, Wake, Succeed, Fail, ReturnEarly,
         InsertOpen, record_user_interaction, Tick
<1>b. \A f \in Fires : Conn(f)' = Conn(f) /\ Conn(f) \in Connectors
  BY <1>a, ConnType DEF Conn, FailuresInv
<1>c. TypeOK /\ TypeOK'
  BY TypeStep DEF FailuresInv
<1>d. /\ Threshold \in Nat \ {0} /\ breaker \in [Connectors -> BreakerStates]
      /\ pc \in [Fires -> PCs] /\ failed \subseteq Fires
  BY <1>c, Constants DEF TypeOK
<1>e. \A c \in Connectors : Cardinality(FailedOf(c)) \in Nat
  <2>1. \A c \in Connectors : IsFiniteSet(FailedOf(c))
    BY FS_Subset DEF FailedOf, FailuresInv
  <2> QED
    BY <2>1, FS_CardinalityType
\* The steps that report no failure: what they may do to the breakers and to
\* the fires on their way to an insertion.
<1>1. ASSUME failed' = failed,
             \A f \in failed : pc'[f] \in {"opening", "done"},
             \A c \in Connectors :
                \/ breaker'[c].st = breaker[c].st /\ breaker'[c].n = breaker[c].n
                \/ breaker'[c].st = "Closed" /\ breaker'[c].n = 0
                \/ Cardinality(FailedOf(c)) >= Threshold /\ breaker'[c].st # "Closed",
             \A f \in Fires :
                pc'[f] \in {"half_open", "opening"} =>
                   Cardinality(FailedOf(Conn(f))) >= Threshold
      PROVE  FailuresInv'
  <2>1. \A c \in Connectors : FailedOf(c)' = FailedOf(c)
    BY <1>1, <1>b, <1>d DEF FailedOf
  <2>2. OpenedByFailures'
    <3>1. \A c \in Connectors : breaker'[c].st # "Closed" => Cardinality(FailedOf(c)) >= Threshold
      BY <1>1 DEF FailuresInv, OpenedByFailures, FailedOf
    <3> QED
      BY <2>1, <3>1 DEF OpenedByFailures, FailedOf
  <2>3. \A c \in Connectors :
           breaker'[c].st = "Closed" => Cardinality(FailedOf(c)') >= breaker'[c].n
    BY <1>1, <1>e, <2>1 DEF FailuresInv
  <2>4. \A f \in Fires :
           pc'[f] \in {"half_open", "opening"} => Cardinality(FailedOf(Conn(f))') >= Threshold
    BY <1>1, <1>b, <2>1
  <2>5. IsFiniteSet(failed')
    BY <1>1 DEF FailuresInv
  <2> QED
    BY <1>1, <1>b, <1>c, <2>2, <2>3, <2>4, <2>5 DEF FailuresInv
<1>2. ASSUME NEW f \in Fires, Fail(f) PROVE FailuresInv'
  <2>1. f \notin failed
    BY <1>2 DEF Fail, Goto, FailuresInv
  <2>2. failed' = failed \cup {f}
    BY <1>2 DEF Fail
  <2>3. /\ IsFiniteSet(failed')
        /\ \A c \in Connectors : /\ Cardinality(FailedOf(c)') \in Nat
                                 /\ Cardinality(FailedOf(c)') >= Cardinality(FailedOf(c))
        /\ Cardinality(FailedOf(Conn(f))') = Cardinality(FailedOf(Conn(f))) + 1
    BY <1>a, <2>1, <2>2, OneMoreFailure
  <2>4. breaker' = [breaker EXCEPT ![Conn(f)] = count_failure(breaker[Conn(f)])]
    BY <1>2 DEF Fail
  <2>5. /\ \A g \in Fires : g # f => pc'[g] = pc[g]
        /\ pc'[f] = IF failure_opens(breaker[Conn(f)], Threshold) THEN "opening" ELSE "done"
    BY <1>2, <1>d DEF Fail, Goto
  <2>6. ASSUME NEW c \in Connectors
        PROVE  /\ breaker'[c].st = "Closed" => Cardinality(FailedOf(c)') >= breaker'[c].n
               /\ breaker'[c].st # "Closed" => Cardinality(FailedOf(c)') >= Threshold
    <3>1. /\ breaker[c].st = "Closed" => Cardinality(FailedOf(c)) >= breaker[c].n
          /\ breaker[c].st # "Closed" => Cardinality(FailedOf(c)) >= Threshold
      BY DEF FailuresInv, OpenedByFailures, FailedOf
    <3>2. breaker[c].n \in Nat
      BY <1>d DEF BreakerStates
    <3>3. CASE c = Conn(f)
      <4>1. breaker'[c] = count_failure(breaker[c])
        BY <1>d, <2>4, <3>3
      <4>2. CASE breaker[c].st = "Closed"
        <5>1. breaker'[c].st = "Closed" /\ breaker'[c].n = breaker[c].n + 1
          BY <4>1, <4>2 DEF count_failure, Closed
        <5> QED
          BY <1>b, <1>e, <2>3, <3>1, <3>2, <3>3, <4>2, <5>1
      <4>3. CASE breaker[c].st # "Closed"
        <5>1. breaker'[c] = breaker[c]
          BY <4>1, <4>3 DEF count_failure
        <5> QED
          BY <1>d, <1>e, <2>3, <3>1, <4>3, <5>1
      <4> QED
        BY <4>2, <4>3
    <3>4. CASE c # Conn(f)
      <4>1. breaker'[c] = breaker[c]
        BY <1>d, <2>4, <3>4
      <4> QED
        BY <1>d, <1>e, <2>3, <3>1, <3>2, <4>1
    <3> QED
      BY <3>3, <3>4
  <2>7. ASSUME NEW g \in Fires, pc'[g] \in {"half_open", "opening"}
        PROVE  Cardinality(FailedOf(Conn(g))') >= Threshold
    <3>1. CASE g # f
      <4>1. Cardinality(FailedOf(Conn(g))) >= Threshold
        BY <2>5, <2>7, <3>1 DEF FailuresInv
      <4> QED
        BY <1>b, <1>d, <1>e, <2>3, <4>1
    <3>2. CASE g = f
      <4>1. failure_opens(breaker[Conn(f)], Threshold)
        BY <2>5, <2>7, <3>2
      <4>2. CASE breaker[Conn(f)].st = "Closed"
        <5>1. breaker[Conn(f)].n + 1 >= Threshold /\ breaker[Conn(f)].n \in Nat
          BY <1>b, <1>d, <4>1, <4>2 DEF failure_opens, BreakerStates
        <5>2. Cardinality(FailedOf(Conn(f))) >= breaker[Conn(f)].n
          BY <1>b, <4>2 DEF FailuresInv
        <5> QED
          BY <1>b, <1>d, <1>e, <2>3, <3>2, <5>1, <5>2
      <4>3. CASE breaker[Conn(f)].st # "Closed"
        <5>1. Cardinality(FailedOf(Conn(f))) >= Threshold
          BY <1>b, <4>3 DEF FailuresInv, OpenedByFailures, FailedOf
        <5> QED
          BY <1>b, <1>d, <1>e, <2>3, <3>2, <5>1
      <4> QED
        BY <4>2, <4>3
    <3> QED
      BY <3>1, <3>2
  <2>8. \A g \in failed' : pc'[g] \in {"opening", "done"}
    BY <1>d, <2>2, <2>5 DEF FailuresInv
  <2>9. OpenedByFailures'
    BY <2>6 DEF OpenedByFailures, FailedOf
  <2>10. \A g \in Fires :
            pc'[g] \in {"half_open", "opening"} => Cardinality(FailedOf(Conn(g))') >= Threshold
    BY <2>7
  <2> QED
    BY <1>b, <1>c, <2>3, <2>6, <2>8, <2>9, <2>10 DEF FailuresInv
<1>3. ASSUME NEW f \in Fires,
             \/ CheckBreaker(f) \/ CheckRate(f) \/ CheckDeadMan(f) \/ CheckApproval(f)
             \/ Approve(f) \/ Deny(f) \/ Wake(f) \/ ReturnEarly(f)
      PROVE  FailuresInv'
  <2>1. breaker' = breaker /\ failed' = failed
    BY <1>3 DEF CheckBreaker, CheckRate, CheckDeadMan, CheckApproval, Approve, Deny, Wake,
                ReturnEarly
  <2>2. /\ pc[f] \notin {"opening", "done"}
        /\ \A g \in Fires : g # f => pc'[g] = pc[g]
        /\ pc'[f] # "opening"
        /\ pc'[f] = "half_open" => breaker[Conn(f)].st = "Open"
    <3>1. CASE CheckBreaker(f)
      BY <1>d, <3>1 DEF CheckBreaker, Goto, cooled_down
    <3>2. CASE CheckRate(f) \/ CheckDeadMan(f) \/ CheckApproval(f)
      BY <1>d, <3>2 DEF CheckRate, CheckDeadMan, CheckApproval, Goto
    <3>3. CASE Approve(f) \/ Deny(f) \/ Wake(f) \/ ReturnEarly(f)
      BY <1>d, <3>3 DEF Approve, Deny, Wake, ReturnEarly, Goto
    <3> QED
      BY <1>3, <3>1, <3>2, <3>3
  <2>3. \A g \in failed : pc'[g] \in {"opening", "done"}
    BY <1>d, <2>2 DEF FailuresInv
  <2>4. ASSUME NEW g \in Fires, pc'[g] \in {"half_open", "opening"}
        PROVE  Cardinality(FailedOf(Conn(g))) >= Threshold
    BY <1>b, <2>2, <2>4 DEF FailuresInv, OpenedByFailures, FailedOf
  <2> QED
    BY <1>1, <2>1, <2>3, <2>4
<1>4. ASSUME NEW f \in Fires, Succeed(f) \/ InsertHalfOpen(f) \/ InsertOpen(f)
      PROVE  FailuresInv'
  <2>1. failed' = failed
    BY <1>4 DEF Succeed, InsertHalfOpen, InsertOpen
  <2>2. /\ \A g \in Fires : g # f => pc'[g] = pc[g]
        /\ pc'[f] \in {"rate", "done"}
        /\ pc[f] = "opening" => pc'[f] = "done"
        /\ pc[f] # "done"
    BY <1>4, <1>d DEF Succeed, InsertHalfOpen, InsertOpen, Goto
  <2>3. \A c \in Connectors :
           \/ breaker'[c] = breaker[c]
           \/ breaker'[c].st = "Closed" /\ breaker'[c].n = 0
           \/ Cardinality(FailedOf(c)) >= Threshold /\ breaker'[c].st # "Closed"
    <3>1. CASE Succeed(f)
      BY <1>d, <3>1 DEF Succeed, Closed
    <3>2. CASE InsertHalfOpen(f)
      <4>1. Cardinality(FailedOf(Conn(f))) >= Threshold
        BY <3>2 DEF InsertHalfOpen, Goto, FailuresInv
      <4> QED
        BY <1>d, <3>2, <4>1 DEF InsertHalfOpen, HalfOpened
    <3>3. CASE InsertOpen(f)
      <4>1. Cardinality(FailedOf(Conn(f))) >= Threshold
        BY <3>3 DEF InsertOpen, Goto, FailuresInv
      <4> QED
        BY <1>d, <3>3, <4>1 DEF InsertOpen, Opened
    <3> QED
      BY <1>4, <3>1, <3>2, <3>3
  <2>4. \A g \in failed : pc'[g] \in {"opening", "done"}
    BY <1>d, <2>2 DEF FailuresInv
  <2>5. \A g \in Fires :
           pc'[g] \in {"half_open", "opening"} => Cardinality(FailedOf(Conn(g))) >= Threshold
    BY <2>2 DEF FailuresInv
  <2> QED
    BY <1>1, <2>1, <2>3, <2>4, <2>5
<1>5. CASE Tick
  <2>1. failed' = failed /\ pc' = pc
    BY <1>5 DEF Tick
  <2>2. \A c \in Connectors : breaker'[c].st = breaker[c].st /\ breaker'[c].n = breaker[c].n
    BY <1>5, <1>d DEF Tick, BreakerStates
  <2> QED
    BY <1>1, <2>1, <2>2 DEF FailuresInv
<1>6. CASE UNCHANGED <<breaker, pc, failed>>
  BY <1>1, <1>6 DEF FailuresInv
<1> QED
  BY <1>2, <1>3, <1>4, <1>5, <1>6
     DEF Next, Evaluate, Answer, Run, vars, record_user_interaction

\* No breaker opens on less than Threshold failures of its own connector.
THEOREM OpenedByOwnFailures == Spec => []OpenedByFailures
<1>1. Init => FailuresInv
  <2> SUFFICES ASSUME Init PROVE FailuresInv
    OBVIOUS
  <2>1. IsFiniteSet(failed) /\ \A c \in Connectors : Cardinality(FailedOf(c)) = 0
    <3>1. failed = {} /\ \A c \in Connectors : FailedOf(c) = {}
      BY DEF Init, FailedOf
    <3> QED
      BY <3>1, FS_EmptySet
  <2>2. \A c \in Connectors : breaker[c].st = "Closed" /\ breaker[c].n = 0
    BY DEF Init, Closed
  <2>3. OpenedByFailures
    BY <2>2 DEF OpenedByFailures
  <2> QED
    BY <2>1, <2>2, <2>3, TypeInit DEF Init, FailuresInv
<1>2. FailuresInv => OpenedByFailures
  BY DEF FailuresInv
<1> QED
  BY <1>1, <1>2, FailuresStep, PTL DEF Spec

(***************************************************************************)
(* The rate limiter                                                        *)
(***************************************************************************)
\* What is left of a deque is its end, and what was popped is too old.
LEMMA PrunedEntries ==
    ASSUME NEW d \in Seq(Nat), NEW w \in Nat
    PROVE  \E k \in 1..(Len(d) + 1) :
              /\ Len(pruned(d, w)) = Len(d) - k + 1
              /\ \A i \in 1..(Len(d) - k + 1) : pruned(d, w)[i] = d[k + i - 1]
              /\ \A j \in 1..(k - 1) : d[j] > w
<1> DEFINE k == FirstKept(d, w)
<1>1. k \in 1..(Len(d) + 1) /\ \A j \in 1..(k - 1) : d[j] > w
  BY FirstKeptExists
<1> HIDE DEF k
<1>2. Len(d) \in Nat /\ \A i \in 1..Len(d) : d[i] \in Nat
  BY LenProperties, ElementOfSeq
<1>3. /\ Len(SubSeq(d, k, Len(d))) = IF k <= Len(d) THEN Len(d) - k + 1 ELSE 0
      /\ \A i \in 1..(Len(d) - k + 1) : SubSeq(d, k, Len(d))[i] = d[k + i - 1]
  <2>1. k \in Int /\ Len(d) \in Int /\ \A i \in k..Len(d) : d[i] \in Nat
    BY <1>1, <1>2
  <2> QED
    BY <2>1, SubSeqProperties
<1>4. Len(pruned(d, w)) = Len(d) - k + 1
  BY <1>1, <1>2, <1>3 DEF pruned, k
<1>5. \A i \in 1..(Len(d) - k + 1) : pruned(d, w)[i] = d[k + i - 1]
  BY <1>3 DEF pruned, k
<1> QED
  BY <1>1, <1>4, <1>5

\* The deque d holds the ages of the last admissions in h, and what it has lost
\* of them is older than some tier's window.
Mirrors(d, h) ==
    /\ Len(d) <= Len(h)
    /\ \A k \in 1..Len(d) : h[Len(h) - Len(d) + k].age = d[k]
    /\ \A j \in 1..(Len(h) - Len(d)) : \E t \in Tiers : h[j].age > Budget[t].window

\* AdmittedWithinBudget for the i-th admission in h.
Within(h, i) ==
    LET b == Budget[h[i].tier] IN
    \A w \in 0..b.window :
        h[i].age = 0 /\ (\A t \in Tiers : w <= Budget[t].window)
        => Cardinality({j \in 1..(i - 1) : h[j].age <= w}) < b.limit

WindowInv ==
    /\ TypeOK
    /\ \A c \in Connectors : Mirrors(window[c], admitted[c])
    /\ AdmittedWithinBudget

Admission == [age : Nat, tier : Tiers]

\* Pruning with a tier's window keeps the deque a mirror of the history.
LEMMA PruningMirrors ==
    ASSUME NEW d \in Seq(Nat), NEW h \in Seq(Admission), Mirrors(d, h), NEW t \in Tiers
    PROVE  Mirrors(pruned(d, Budget[t].window), h)
<1> DEFINE w == Budget[t].window
           p == pruned(d, w)
<1>1. w \in Nat
  BY Constants
<1>2. Len(d) \in Nat /\ Len(h) \in Nat
  BY LenProperties
<1>3. PICK k \in 1..(Len(d) + 1) :
         /\ Len(p) = Len(d) - k + 1
         /\ \A i \in 1..(Len(d) - k + 1) : p[i] = d[k + i - 1]
         /\ \A j \in 1..(k - 1) : d[j] > w
  BY <1>1, PrunedEntries
<1> HIDE DEF p
<1>4. Len(p) \in Nat /\ Len(p) <= Len(d) /\ Len(d) <= Len(h)
  BY <1>2, <1>3 DEF Mirrors
<1>5. ASSUME NEW i \in 1..Len(p) PROVE h[Len(h) - Len(p) + i].age = p[i]
  <2>1. k + i - 1 \in 1..Len(d) /\ Len(h) - Len(d) + (k + i - 1) = Len(h) - Len(p) + i
    BY <1>2, <1>3, <1>4
  <2>2. h[Len(h) - Len(d) + (k + i - 1)].age = d[k + i - 1]
    BY <2>1 DEF Mirrors
  <2>3. p[i] = d[k + i - 1]
    BY <1>2, <1>3
  <2> QED
    BY <2>1, <2>2, <2>3
<1>6. ASSUME NEW j \in 1..(Len(h) - Len(p)) PROVE \E s \in Tiers : h[j].age > Budget[s].window
  <2>1. CASE j <= Len(h) - Len(d)
    <3>1. j \in 1..(Len(h) - Len(d))
      BY <1>2, <2>1
    <3> QED
      BY <3>1 DEF Mirrors
  <2>2. CASE j > Len(h) - Len(d)
    <3> DEFINE i == j - (Len(h) - Len(d))
    <3>1. i \in 1..Len(d) /\ i \in 1..(k - 1) /\ Len(h) - Len(d) + i = j
      BY <1>2, <1>3, <1>4, <2>2
    <3> HIDE DEF i
    <3>2. h[Len(h) - Len(d) + i].age = d[i]
      BY <3>1 DEF Mirrors
    <3>3. d[i] > w
      BY <1>3, <3>1
    <3> QED
      BY <3>1, <3>2, <3>3
  <2> QED
    BY <1>2, <1>4, <2>1, <2>2
<1> QED
  BY <1>4, <1>5, <1>6 DEF Mirrors, p

\* An admission is recorded in both.
LEMMA AdmissionMirrors ==
    ASSUME NEW d \in Seq(Nat), NEW h \in Seq(Admission), Mirrors(d, h), NEW t \in Tiers
    PROVE  Mirrors(Append(d, 0), Append(h, [age |-> 0, tier |-> t]))
<1> DEFINE a == [age |-> 0, tier |-> t]
           d2 == Append(d, 0)
           h2 == Append(h, a)
<1>1. a \in Admission /\ a.age = 0
  BY DEF Admission
<1> HIDE DEF a
<1>2. /\ Len(d) \in Nat /\ Len(h) \in Nat
      /\ Len(d2) = Len(d) + 1 /\ Len(h2) = Len(h) + 1
      /\ \A i \in 1..Len(d) : d2[i] = d[i]
      /\ \A i \in 1..Len(h) : h2[i] = h[i]
      /\ d2[Len(d) + 1] = 0 /\ h2[Len(h) + 1] = a
  BY <1>1, LenProperties, AppendProperties
<1> HIDE DEF d2, h2
<1>3. Len(d) <= Len(h)
  BY DEF Mirrors
<1>4. ASSUME NEW k \in 1..Len(d2) PROVE h2[Len(h2) - Len(d2) + k].age = d2[k]
  <2>1. CASE k = Len(d) + 1
    <3>1. Len(h2) - Len(d2) + k = Len(h) + 1
      BY <1>2, <1>3, <2>1
    <3> QED
      BY <1>1, <1>2, <2>1, <3>1
  <2>2. CASE k \in 1..Len(d)
    <3>1. /\ Len(h2) - Len(d2) + k = Len(h) - Len(d) + k
          /\ Len(h) - Len(d) + k \in 1..Len(h)
      BY <1>2, <1>3, <2>2
    <3>2. h[Len(h) - Len(d) + k].age = d[k]
      BY <2>2 DEF Mirrors
    <3> QED
      BY <1>2, <2>2, <3>1, <3>2
  <2> QED
    BY <1>2, <2>1, <2>2
<1>5. ASSUME NEW j \in 1..(Len(h2) - Len(d2)) PROVE \E s \in Tiers : h2[j].age > Budget[s].window
  <2>1. j \in 1..(Len(h) - Len(d)) /\ j \in 1..Len(h)
    BY <1>2, <1>3
  <2> QED
    BY <1>2, <2>1 DEF Mirrors
<1>6. Mirrors(d2, h2)
  BY <1>2, <1>3, <1>4, <1>5 DEF Mirrors
<1> QED
  BY <1>6 DEF d2, h2, a

\* The limit is kept when an action is admitted: what the deque still holds
\* after pruning is fewer, and the rest of the history is too old to count.
LEMMA AdmissionWithin ==
    ASSUME NEW d \in Seq(Nat), NEW h \in Seq(Admission), Mirrors(d, h), NEW t \in Tiers,
           ~ over_budget(d, Budget[t])
    PROVE  Within(Append(h, [age |-> 0, tier |-> t]), Len(h) + 1)
<1> DEFINE b == Budget[t]
           p == pruned(d, b.window)
           n == Len(h) - Len(p)
           h2 == Append(h, [age |-> 0, tier |-> t])
<1>1. b.window \in Nat /\ b.limit \in Nat
  BY Constants
<1>2. Mirrors(p, h) /\ p \in Seq(Nat)
  BY <1>1, PruningMirrors, PrunedType
<1>3. Len(p) < b.limit
  BY <1>1, <1>2, LenProperties DEF over_budget
<1>4. [age |-> 0, tier |-> t] \in Admission
  BY DEF Admission
<1> HIDE DEF p, h2
<1>5. /\ Len(p) \in Nat /\ Len(h) \in Nat /\ n \in Nat /\ Len(p) <= Len(h)
  BY <1>2, LenProperties DEF Mirrors
<1>6. /\ \A j \in 1..Len(h) : h2[j] = h[j] /\ h[j].age \in Nat
      /\ h2[Len(h) + 1].tier = t
  <2>1. \A j \in 1..Len(h) : h[j] \in Admission
    BY ElementOfSeq
  <2> QED
    BY <1>4, <1>5, <2>1, AppendProperties DEF h2, Admission
<1> HIDE DEF n
<1>7. ASSUME NEW w \in 0..b.window, \A s \in Tiers : w <= Budget[s].window
      PROVE  Cardinality({j \in 1..(Len(h) + 1 - 1) : h2[j].age <= w}) < b.limit
  <2> DEFINE S == {j \in 1..(Len(h) + 1 - 1) : h2[j].age <= w}
  <2>1. ASSUME NEW j \in S PROVE j \in (n + 1)..Len(h)
    <3>1. j \in 1..Len(h) /\ h[j].age <= w /\ h[j].age \in Nat
      BY <1>5, <1>6
    <3>2. ASSUME j <= n PROVE FALSE
      <4>1. PICK s \in Tiers : h[j].age > Budget[s].window
        BY <1>2, <1>5, <3>1, <3>2 DEF Mirrors, n
      <4>2. Budget[s].window \in Nat /\ w <= Budget[s].window /\ w \in Nat
        BY <1>1, <1>7, Constants
      <4> QED
        BY <3>1, <4>1, <4>2
    <3> QED
      BY <1>5, <3>1, <3>2
  <2>2. /\ IsFiniteSet((n + 1)..Len(h))
        /\ Cardinality((n + 1)..Len(h)) = Len(p)
    <3>1. n + 1 \in Int /\ Len(h) \in Int
      BY <1>5
    <3>2. /\ IsFiniteSet((n + 1)..Len(h))
          /\ Cardinality((n + 1)..Len(h)) = IF n + 1 > Len(h) THEN 0 ELSE Len(h) - (n + 1) + 1
      BY <3>1, FS_Interval
    <3> QED
      BY <1>5, <3>2 DEF n
  <2> HIDE DEF S
  <2>3. Cardinality(S) <= Len(p) /\ Cardinality(S) \in Nat
    BY <2>1, <2>2, FS_Subset, FS_CardinalityType
  <2>4. Cardinality(S) < b.limit
    BY <1>1, <1>3, <1>5, <2>3
  <2> QED
    BY <2>4 DEF S
<1>8. Within(h2, Len(h) + 1)
  BY <1>6, <1>7 DEF Within
<1> QED
  BY <1>8 DEF h2

\* Time passing ages the deque and the history alike, and nothing stays new.
LEMMA AgeingMirrors ==
    ASSUME NEW d \in Seq(Nat), NEW h \in Seq(Admission), Mirrors(d, h),
           NEW d2 \in Seq(Nat), Len(d2) = Len(d), \A i \in 1..Len(d) : d2[i] = Older(d[i]),
           NEW h2 \in Seq(Admission), Len(h2) = Len(h),
           \A i \in 1..Len(h) : h2[i].age = Older(h[i].age)
    PROVE  Mirrors(d2, h2) /\ \A i \in 1..Len(h) : h2[i].age # 0
<1>1. /\ Len(d) \in Nat /\ Len(h) \in Nat
      /\ \A i \in 1..Len(h) : h[i].age \in Nat /\ h[i].tier \in Tiers
  <2>1. Len(d) \in Nat /\ Len(h) \in Nat /\ \A i \in 1..Len(h) : h[i] \in Admission
    BY LenProperties, ElementOfSeq
  <2> QED
    BY <2>1 DEF Admission
<1>2. Horizon \in Nat /\ \A t \in Tiers : Budget[t].window \in Nat /\ Horizon > Budget[t].window
  BY Constants, SentinelAssumption
<1>3. \A a \in Nat : Older(a) \in Nat /\ Older(a) >= a /\ (Horizon > 0 => Older(a) > 0)
  BY <1>2 DEF Older
<1>4. ASSUME NEW i \in 1..Len(h) PROVE h2[i].age # 0
  <2>1. Budget[h[i].tier].window \in Nat /\ Horizon > Budget[h[i].tier].window
    BY <1>1, <1>2
  <2>2. Horizon > 0
    BY <1>2, <2>1
  <2>3. Older(h[i].age) \in Nat /\ Older(h[i].age) > 0
    BY <1>1, <1>3, <2>2
  <2>4. h2[i].age = Older(h[i].age)
    OBVIOUS
  <2> QED
    BY <2>3, <2>4
<1>5. Len(d) <= Len(h)
  BY DEF Mirrors
<1>6. ASSUME NEW k \in 1..Len(d) PROVE h2[Len(h) - Len(d) + k].age = d2[k]
  <2>1. h[Len(h) - Len(d) + k].age = d[k] /\ Len(h) - Len(d) + k \in 1..Len(h)
    BY <1>1, <1>5 DEF Mirrors
  <2> QED
    BY <2>1
<1>7. ASSUME NEW j \in 1..(Len(h) - Len(d)) PROVE \E t \in Tiers : h2[j].age > Budget[t].window
  <2>1. j \in 1..Len(h)
    BY <1>1, <1>5
  <2>2. PICK t \in Tiers : h[j].age > Budget[t].window
    BY DEF Mirrors
  <2>3. h2[j].age >= h[j].age /\ h2[j].age \in Nat /\ h[j].age \in Nat
    BY <1>1, <1>3, <2>1
  <2>4. Budget[t].window \in Nat
    BY <1>2
  <2> QED
    BY <2>2, <2>3, <2>4
<1> QED
  BY <1>4, <1>5, <1>6, <1>7 DEF Mirrors

\* An admission, a refusal and the passing of time keep the limit.
LEMMA WindowStep == WindowInv /\ [Next]_vars => WindowInv'
<1> SUFFICES ASSUME WindowInv, [Next]_vars
             PROVE  /\ \A c \in Connectors : Mirrors(window[c], admitted[c])'
                    /\ AdmittedWithinBudget'
  BY TypeStep DEF WindowInv
<1>a. TypeOK /\ TypeOK'
  BY TypeStep DEF WindowInv
<1>b. /\ window \in [Connectors -> Seq(Nat)] /\ admitted \in [Connectors -> Seq(Admission)]
      /\ window' \in [Connectors -> Seq(Nat)] /\ admitted' \in [Connectors -> Seq(Admission)]
  BY <1>a DEF TypeOK, Admission
<1>c. \A c \in Connectors : Mirrors(window[c], admitted[c])
  BY DEF WindowInv
<1>d. \A c \in Connectors : \A i \in DOMAIN admitted[c] : Within(admitted[c], i)
  BY DEF WindowInv, AdmittedWithinBudget, Within
<1>e. (\A c \in Connectors : \A i \in DOMAIN admitted'[c] : Within(admitted'[c], i))
      => AdmittedWithinBudget'
  BY DEF AdmittedWithinBudget, Within
<1>1. ASSUME NEW f \in Fires, CheckRate(f)
      PROVE  \A c \in Connectors : /\ Mirrors(window'[c], admitted'[c])
                                   /\ \A i \in DOMAIN admitted'[c] : Within(admitted'[c], i)
  <2> SUFFICES ASSUME NEW c \in Connectors
               PROVE  /\ Mirrors(window'[c], admitted'[c])
                      /\ \A i \in DOMAIN admitted'[c] : Within(admitted'[c], i)
    OBVIOUS
  <2>1. req[f].tier \in Tiers /\ Conn(f) \in Connectors
    BY <1>a, Constants, ConnType DEF TypeOK
  <2> DEFINE t == req[f].tier
             d == window[c]
             h == admitted[c]
             a == [age |-> 0, tier |-> t]
  <2>2. CASE c # Conn(f)
    <3>1. window'[c] = window[c] /\ admitted'[c] = admitted[c]
      BY <1>1, <1>b, <2>2 DEF CheckRate
    <3> QED
      BY <1>c, <1>d, <3>1
  <2>3. CASE c = Conn(f)
    <3>1. /\ window'[c] = recorded(d, Budget[t])
          /\ admitted'[c] = IF over_budget(d, Budget[t]) THEN h ELSE Append(h, a)
      BY <1>1, <1>b, <2>3 DEF CheckRate
    <3>2. d \in Seq(Nat) /\ h \in Seq(Admission) /\ Mirrors(d, h) /\ a \in Admission
      BY <1>b, <1>c, <2>1 DEF Admission
    <3>3. \A i \in DOMAIN h : Within(h, i)
      BY <1>d
    <3> HIDE DEF t, d, h, a
    <3>4. t \in Tiers
      BY <2>1 DEF t
    <3>5. Mirrors(pruned(d, Budget[t].window), h) /\ pruned(d, Budget[t].window) \in Seq(Nat)
      BY <3>2, <3>4, PruningMirrors, PrunedType, Constants
    <3>6. CASE over_budget(d, Budget[t])
      BY <3>1, <3>3, <3>5, <3>6 DEF recorded
    <3>7. CASE ~ over_budget(d, Budget[t])
      <4>1. Mirrors(Append(pruned(d, Budget[t].window), 0), Append(h, a))
        BY <3>2, <3>4, <3>5, AdmissionMirrors DEF a
      <4>2. Within(Append(h, a), Len(h) + 1)
        BY <3>2, <3>4, <3>7, AdmissionWithin DEF a
      <4>3. /\ Len(h) \in Nat /\ DOMAIN h = 1..Len(h) /\ DOMAIN Append(h, a) = 1..(Len(h) + 1)
            /\ \A i \in 1..Len(h) : Append(h, a)[i] = h[i]
        BY <3>2, LenProperties, AppendProperties
      <4>4. ASSUME NEW i \in 1..Len(h) PROVE Within(Append(h, a), i)
        <5>1. Within(h, i)
          BY <3>3, <4>3
        <5>2. \A w : {j \in 1..(i - 1) : Append(h, a)[j].age <= w} = {j \in 1..(i - 1) : h[j].age <= w}
          BY <4>3
        <5> QED
          BY <4>3, <5>1, <5>2 DEF Within
      <4>5. \A i \in DOMAIN Append(h, a) : i \in 1..Len(h) \/ i = Len(h) + 1
        BY <4>3
      <4> QED
        BY <3>1, <3>7, <4>1, <4>2, <4>4, <4>5 DEF recorded
    <3> QED
      BY <3>6, <3>7
  <2> QED
    BY <2>2, <2>3
<1>2. CASE Tick
  <2> SUFFICES ASSUME NEW c \in Connectors
               PROVE  /\ Mirrors(window'[c], admitted'[c])
                      /\ \A i \in DOMAIN admitted'[c] : Within(admitted'[c], i)
    BY <1>e
  <2> DEFINE d == window[c]
             h == admitted[c]
             d2 == window'[c]
             h2 == admitted'[c]
  <2>1. d2 = [i \in DOMAIN d |-> Older(d[i])] /\ h2 = [i \in DOMAIN h |-> [h[i] EXCEPT !.age = Older(@)]]
    BY <1>2 DEF Tick
  <2>2. /\ d \in Seq(Nat) /\ h \in Seq(Admission) /\ d2 \in Seq(Nat) /\ h2 \in Seq(Admission)
        /\ Mirrors(d, h)
    BY <1>b, <1>c
  <2>3. DOMAIN d = 1..Len(d) /\ DOMAIN h = 1..Len(h) /\ Len(d) \in Nat /\ Len(h) \in Nat
    BY <2>2, LenProperties
  <2>4. Len(d2) = Len(d) /\ Len(h2) = Len(h)
    BY <2>1, <2>3
  <2>5. \A i \in 1..Len(d) : d2[i] = Older(d[i])
    BY <2>1, <2>3
  <2>6. \A i \in 1..Len(h) : h2[i].age = Older(h[i].age)
    <3>1. \A i \in 1..Len(h) : h[i] \in Admission
      BY <2>2, ElementOfSeq
    <3> QED
      BY <2>1, <2>3, <3>1 DEF Admission
  <2> HIDE DEF d, h, d2, h2
  <2>7. Mirrors(d2, h2) /\ \A i \in 1..Len(h) : h2[i].age # 0
    BY <2>2, <2>4, <2>5, <2>6, AgeingMirrors
  <2>8. \A i \in DOMAIN h2 : Within(h2, i)
    BY <2>2, <2>4, <2>7, LenProperties DEF Within
  <2> QED
    BY <2>7, <2>8 DEF d2, h2
<1>3. ASSUME UNCHANGED <<window, admitted>>
      PROVE  /\ \A c \in Connectors : Mirrors(window[c], admitted[c])'
             /\ AdmittedWithinBudget'
  BY <1>3, <1>c, <1>d, <1>e
<1> QED
  BY <1>1, <1>2, <1>3, <1>e
     DEF Next, Evaluate, Answer, Run, vars, CheckBreaker, InsertHalfOpen, CheckDeadMan,
         CheckApproval, Approve, Deny, Wake, Succeed, Fail, ReturnEarly, InsertOpen,
         record_user_interaction

\* Racing fires of any tiers never have more admitted within the shortest
\* window than the limit of the one that is admitted.
THEOREM LimitHolds == Spec => []AdmittedWithinBudget
<1>1. Init => WindowInv
  <2> SUFFICES ASSUME Init PROVE WindowInv
    OBVIOUS
  <2>1. \A c \in Connectors : window[c] = <<>> /\ admitted[c] = <<>>
    BY DEF Init
  <2>2. Mirrors(<<>>, <<>>)
    BY DEF Mirrors
  <2>3. AdmittedWithinBudget
    BY <2>1 DEF AdmittedWithinBudget
  <2> QED
    BY <2>1, <2>2, <2>3, TypeInit DEF WindowInv
<1>2. WindowInv => AdmittedWithinBudget
  BY DEF WindowInv
<1> QED
  BY <1>1, <1>2, WindowStep, PTL DEF Spec
=============================================================================

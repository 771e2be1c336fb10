----------------------------- MODULE Beat_proofs -----------------------------
(***************************************************************************)
(* Proofs about Beat, for every finite set of members, every set of tasks, *)
(* every cap and every bound on the votes.                                 *)
(***************************************************************************)
EXTENDS Beat, FiniteSetTheorems, TLAPS

\* Counting members gives a number.
LEMMA CountType == \A S \in SUBSET Members : IsFiniteSet(S) /\ Cardinality(S) \in Nat
  BY BeatAssumption, FS_Subset, FS_CardinalityType

(***************************************************************************)
(* Types                                                                   *)
(***************************************************************************)
\* Results are collected only while a beat acts and gathers.
NothingCollected == phase \notin {"act", "gather"} => collected = {}

TypeInv == TypeOK /\ NothingCollected

\* The initial state is typed.
LEMMA TypeInit == Init => TypeInv
  BY BeatAssumption DEF Init, TypeInv, TypeOK, NothingCollected, Phases, Jobs, NoVote

\* The task of a vote that is over is one of those a vote is held on.
LEMMA TasksOfType ==
    ASSUME TypeOK, NEW V \in SUBSET {i \in VoteIds : ready(vote[i])}
    PROVE  TasksOf(V) \subseteq Destructive
  BY DEF TypeOK, TasksOf, ready, Votes

\* Every step of the tick keeps the types.
LEMMA TypeTick == TypeInv /\ Tick => TypeInv'
<1> SUFFICES ASSUME TypeInv, Tick PROVE TypeInv'
  OBVIOUS
<1> USE BeatAssumption DEF TypeInv, TypeOK, NothingCollected, Phases, boardVars, memberVars,
        voteVars, history
<1>1. CASE BeginBeat
  BY <1>1 DEF BeginBeat, scan_tasks
<1>2. CASE BeginAct
  BY <1>2 DEF BeginAct, unassigned, Jobs
<1>3. CASE CloseWindow
  BY <1>3 DEF CloseWindow, unassigned, Running, Jobs
<1>4. CASE Gather
  BY <1>4 DEF Gather, unassigned
<1>5. CASE EndBeat
  BY <1>5 DEF EndBeat
<1>6. CASE Resolve
  <2> DEFINE over == {i \in VoteIds : ready(vote[i])}
  <2>1. PICK yes \in SUBSET over :
          /\ permits' = permits \cup TasksOf(yes)
          /\ board' = after_refusal(TasksOf(over \ yes))
          /\ claimed' = claimed \ TasksOf(over \ yes)
          /\ approvals' = [t \in Destructive |-> IF t \in TasksOf(yes)
                                                THEN approvals[t] + 1 ELSE approvals[t]]
          /\ refused' = refused \cup TasksOf(over \ yes)
    BY <1>6 DEF Resolve
  <2>2. TasksOf(yes) \subseteq Destructive /\ TasksOf(over \ yes) \subseteq Destructive
    BY TasksOfType
  <2>3. vote' \in [VoteIds -> Votes \cup {NoVote}] /\ awaiting' \subseteq Destructive
    BY <1>6 DEF Resolve, still_awaiting
  <2>4. UNCHANGED <<present, up, memberVars, nvotes, posted, cleared>> /\ phase' = "orchestrate"
        /\ phase = "resolve"
    BY <1>6 DEF Resolve
  <2> HIDE DEF over
  <2>5. /\ board' \subseteq Tasks /\ claimed' \subseteq Tasks
        /\ permits' \subseteq Destructive /\ refused' \subseteq Destructive
    BY <2>1, <2>2 DEF after_refusal
  <2>6. approvals' \in [Destructive -> Nat]
    BY <2>1
  <2> QED
    BY <2>3, <2>4, <2>5, <2>6
<1>7. CASE Orchestrate
  BY <1>7 DEF Orchestrate
<1> QED
  BY <1>1, <1>2, <1>3, <1>4, <1>5, <1>6, <1>7 DEF Tick

\* Every step of one member keeps the types.
LEMMA TypeMember ==
    ASSUME TypeInv, NEW m \in Members, Claim(m) \/ Act(m) \/ Propose(m) \/ Leave(m)
    PROVE  TypeInv'
<1> USE BeatAssumption DEF TypeInv, TypeOK, NothingCollected, Phases, boardVars, memberVars,
        voteVars, history
<1>1. CASE ClaimFails(m)
  BY <1>1 DEF ClaimFails, Claiming
<1>2. CASE ClaimCleared(m)
  BY <1>2 DEF ClaimCleared, Claiming, consumed, Jobs
<1>3. CASE ClaimNeedsVote(m)
  BY <1>3 DEF ClaimNeedsVote, Claiming, lacks_permit
<1>4. CASE StartJob(m)
  BY <1>4 DEF StartJob, Jobs
<1>5. CASE Finish(m)
  BY <1>5 DEF Finish, Jobs
<1>6. CASE Receive(m)
  BY <1>6 DEF Receive, Running, Jobs
<1>7. CASE Propose(m)
  <2>1. Cardinality(up) \in Nat
    BY CountType
  <2>2. [NoVote EXCEPT !.task = proposal[m], !.required = Cardinality(up)] \in Votes
    BY <1>7, <2>1 DEF Propose, NoVote, Votes, Choices
  <2>3. vote' \in [VoteIds -> Votes \cup {NoVote}]
    BY <1>7, <2>2 DEF Propose
  <2>4. nvotes' \in Nat /\ awaiting' \subseteq Destructive
        /\ proposal' \in [Members -> Destructive \cup {NoTask}]
    BY <1>7 DEF Propose
  <2> QED
    BY <1>7, <2>3, <2>4 DEF Propose
<1>8. CASE Leave(m)
  BY <1>8 DEF Leave, unassigned
<1> QED
  BY <1>1, <1>2, <1>3, <1>4, <1>5, <1>6, <1>7, <1>8 DEF Claim, Act

\* Ballots and deadlines keep the types.
LEMMA TypeVote ==
    ASSUME TypeInv, NEW i \in VoteIds,
           \/ DeadlinePasses(i)
           \/ \E a \in Voters, choice \in {"approve", "deny"} : CastVote(i, a, choice)
    PROVE  TypeInv'
<1> USE DEF TypeInv, TypeOK, NothingCollected, boardVars, memberVars, history
<1>1. CASE DeadlinePasses(i)
  <2>1. vote[i] \in Votes
    BY <1>1 DEF DeadlinePasses
  <2>2. [vote[i] EXCEPT !.expired = TRUE] \in Votes
    BY <2>1 DEF Votes
  <2>3. vote' \in [VoteIds -> Votes \cup {NoVote}]
    BY <1>1, <2>2 DEF DeadlinePasses
  <2> QED
    BY <1>1, <2>3 DEF DeadlinePasses
<1>2. ASSUME NEW a \in Voters, NEW choice \in {"approve", "deny"}, CastVote(i, a, choice)
      PROVE  TypeInv'
  <2>1. vote[i] \in Votes
    BY <1>2 DEF CastVote
  <2>2. [vote[i] EXCEPT !.ballots[a] = choice] \in Votes
    BY <2>1 DEF Votes, Choices
  <2>3. vote' \in [VoteIds -> Votes \cup {NoVote}]
    BY <1>2, <2>2 DEF CastVote
  <2> QED
    BY <1>2, <2>3 DEF CastVote
<1> QED
  BY <1>1, <1>2

\* Every step keeps the types.
LEMMA TypeStep == TypeInv /\ [Next]_vars => TypeInv'
<1> SUFFICES ASSUME TypeInv, [Next]_vars PROVE TypeInv'
  OBVIOUS
<1>1. CASE HealthChanges
  BY <1>1 DEF HealthChanges, TypeInv, TypeOK, NothingCollected, boardVars, memberVars,
     voteVars, history
<1>2. CASE UNCHANGED vars \/ Dissolved
  BY <1>2 DEF Dissolved, vars, TypeInv, TypeOK, NothingCollected, boardVars, memberVars, voteVars, history
<1> QED
  BY <1>1, <1>2, TypeTick, TypeMember, TypeVote DEF Next

\* The beat keeps its types (Beat, TypeOK).
THEOREM TypeCorrect == Spec => []TypeOK
<1>1. Spec => []TypeInv
  BY TypeInit, TypeStep, PTL DEF Spec
<1>2. TypeInv => TypeOK
  BY DEF TypeInv
<1> QED
  BY <1>1, <1>2, PTL

(***************************************************************************)
(* A member holds a task exactly when something will take it back          *)
(***************************************************************************)
\* Decisions exist only while the beat claims, made by members with nothing to do.
ChosenAreFree ==
    /\ phase # "claim" => \A m \in Members : chosen[m] = NoTask
    /\ \A m \in Members :
          chosen[m] # NoTask => m \in present \ carried /\ job[m] = "none"

\* A queued dispatch is this beat's; outside act::run every other dispatch of a
\* present member sits in its pending slot; a collected one is over.
JobsAreOwned ==
    /\ \A m \in Members : job[m] = "queued" =>
          m \in present \ carried /\ phase \in {"claim", "act"}
    /\ \A m \in carried : job[m] # "none"
    /\ \A m \in collected : m \notin carried /\ job[m] = "none"
    /\ phase # "act" => \A m \in present :
          job[m] \notin {"none", "queued"} => m \in carried

\* A member's active_task goes with its dispatch or its uncollected result.
HoldsWhatRuns ==
    \A m \in present : active[m] # NoTask <=> (job[m] # "none" \/ m \in collected)

FlightInv == ChosenAreFree /\ JobsAreOwned /\ HoldsWhatRuns

\* Nobody works at the start.
LEMMA FlightInit == Init => FlightInv
  BY DEF Init, FlightInv, ChosenAreFree, JobsAreOwned, HoldsWhatRuns

\* The tick's own steps keep it.
LEMMA FlightTick == TypeInv /\ FlightInv /\ Tick => FlightInv'
<1> SUFFICES ASSUME TypeInv, FlightInv, Tick PROVE FlightInv'
  OBVIOUS
<1> USE BeatAssumption DEF TypeInv, TypeOK, NothingCollected, FlightInv, ChosenAreFree,
        JobsAreOwned, HoldsWhatRuns, boardVars, memberVars
<1>1. CASE BeginBeat
  BY <1>1 DEF BeginBeat
<1>2. CASE BeginAct
  BY <1>2 DEF BeginAct, unassigned
<1>3. CASE CloseWindow
  BY <1>3 DEF CloseWindow, unassigned, Running, Jobs
<1>4. CASE Gather
  BY <1>4 DEF Gather, unassigned
<1>5. CASE EndBeat
  BY <1>5 DEF EndBeat
<1>6. CASE Resolve
  BY <1>6 DEF Resolve
<1>7. CASE Orchestrate
  BY <1>7 DEF Orchestrate
<1> QED
  BY <1>1, <1>2, <1>3, <1>4, <1>5, <1>6, <1>7 DEF Tick

\* One member's steps keep it.
LEMMA FlightMember ==
    ASSUME TypeInv, FlightInv, NEW k \in Members, Claim(k) \/ Act(k) \/ Propose(k) \/ Leave(k)
    PROVE  FlightInv'
<1> USE BeatAssumption DEF TypeInv, TypeOK, NothingCollected, FlightInv, ChosenAreFree,
        JobsAreOwned, HoldsWhatRuns, boardVars, memberVars
<1>1. CASE ClaimFails(k)
  BY <1>1 DEF ClaimFails, Claiming
<1>2. CASE ClaimCleared(k)
  BY <1>2 DEF ClaimCleared, Claiming
<1>3. CASE ClaimNeedsVote(k)
  BY <1>3 DEF ClaimNeedsVote, Claiming
<1>4. CASE StartJob(k)
  BY <1>4 DEF StartJob
<1>5. CASE Finish(k)
  BY <1>5 DEF Finish
<1>6. CASE Receive(k)
  BY <1>6 DEF Receive, Running
<1>7. CASE Propose(k)
  BY <1>7 DEF Propose
<1>8. CASE Leave(k)
  BY <1>8 DEF Leave, unassigned
<1> QED
  BY <1>1, <1>2, <1>3, <1>4, <1>5, <1>6, <1>7, <1>8 DEF Claim, Act

\* Every step keeps it.
LEMMA FlightStep == TypeInv /\ FlightInv /\ [Next]_vars => FlightInv'
<1> SUFFICES ASSUME TypeInv, FlightInv, [Next]_vars PROVE FlightInv'
  OBVIOUS
<1> USE DEF FlightInv, ChosenAreFree, JobsAreOwned, HoldsWhatRuns, memberVars
<1>1. ASSUME NEW i \in VoteIds, DeadlinePasses(i) PROVE FlightInv'
  BY <1>1 DEF DeadlinePasses
<1>2. ASSUME NEW i \in VoteIds, NEW a \in Voters, NEW choice \in {"approve", "deny"},
             CastVote(i, a, choice)
      PROVE  FlightInv'
  BY <1>2 DEF CastVote
<1>3. CASE HealthChanges
  BY <1>3 DEF HealthChanges
<1>4. CASE UNCHANGED vars \/ Dissolved
  BY <1>4 DEF Dissolved, vars
<1> QED
  BY <1>1, <1>2, <1>3, <1>4, FlightTick, FlightMember DEF Next

\* Between beats members hold exactly what is in flight, and who decides holds
\* nothing (Beat, ActiveIsInFlight).
THEOREM NobodyIsStuck == Spec => []ActiveIsInFlight
<1>1. Spec => [](TypeInv /\ FlightInv)
  <2>1. Init => TypeInv /\ FlightInv
    BY TypeInit, FlightInit
  <2>2. TypeInv /\ FlightInv /\ [Next]_vars => (TypeInv /\ FlightInv)'
    BY TypeStep, FlightStep
  <2> QED
    BY <2>1, <2>2, PTL DEF Spec
<1>2. TypeInv /\ FlightInv => ActiveIsInFlight
  BY DEF TypeInv, TypeOK, NothingCollected, FlightInv, ChosenAreFree, JobsAreOwned,
     HoldsWhatRuns, ActiveIsInFlight
<1> QED
  BY <1>1, <1>2, PTL

(***************************************************************************)
(* The formation's promise: the detailed beat implements Consent           *)
(***************************************************************************)
\* Every permit is an approval that has not been used.
PermitsAreUnused ==
    \A t \in Destructive : cleared[t] + (IF t \in permits THEN 1 ELSE 0) <= approvals[t]

\* Whatever is on its way to a vote or to a dispatch was posted, so its id will
\* not come back.
OnTheWayWasPosted ==
    /\ board \cap Destructive \subseteq posted
    /\ refused \subseteq posted
    /\ \A m \in Members : chosen[m] \in Destructive => chosen[m] \in posted
    /\ \A m \in Members : proposal[m] # NoTask => proposal[m] \in posted
    /\ \A i \in VoteIds : vote[i] # NoVote => vote[i].task \in posted

\* A refused task is off the blackboard, and nobody is about to claim it.
RefusedIsGone ==
    /\ board \cap refused = {}
    /\ \A m \in Members : chosen[m] \notin refused

PromiseInv == PermitsAreUnused /\ OnTheWayWasPosted /\ RefusedIsGone

\* Nothing is posted, approved or refused at the start.
LEMMA PromiseInit == Init => PromiseInv
  BY BeatAssumption DEF Init, PromiseInv, PermitsAreUnused, OnTheWayWasPosted, RefusedIsGone

\* The steps of the tick other than the resolution keep it.
LEMMA PromiseTick ==
    ASSUME TypeInv, FlightInv, PromiseInv,
           BeginBeat \/ BeginAct \/ CloseWindow \/ Gather \/ EndBeat \/ Orchestrate
    PROVE  PromiseInv' /\ UNCHANGED <<approvals, cleared, refused>>
<1> USE BeatAssumption DEF TypeInv, TypeOK, PromiseInv, PermitsAreUnused, OnTheWayWasPosted,
        RefusedIsGone, boardVars, memberVars, voteVars, history
<1>1. CASE BeginBeat
  BY <1>1 DEF BeginBeat, scan_tasks
<1>2. CASE BeginAct
  BY <1>2 DEF BeginAct
<1>3. CASE CloseWindow
  BY <1>3 DEF CloseWindow
<1>4. CASE Gather
  BY <1>4 DEF Gather
<1>5. CASE EndBeat
  BY <1>5 DEF EndBeat
<1>6. CASE Orchestrate
  BY <1>6 DEF Orchestrate, FlightInv, ChosenAreFree
<1> QED
  BY <1>1, <1>2, <1>3, <1>4, <1>5, <1>6

\* The resolution mints a permit with every approval, and takes what it refuses
\* off the blackboard while nobody has chosen anything: it decides, nothing more.
LEMMA PromiseResolve ==
    ASSUME TypeInv, FlightInv, PromiseInv, Resolve
    PROVE  PromiseInv' /\ Promise!Decide
<1> DEFINE over == {i \in VoteIds : ready(vote[i])}
<1>1. PICK yes \in SUBSET over :
        /\ permits' = permits \cup TasksOf(yes)
        /\ board' = after_refusal(TasksOf(over \ yes))
        /\ approvals' = [t \in Destructive |-> IF t \in TasksOf(yes)
                                              THEN approvals[t] + 1 ELSE approvals[t]]
        /\ refused' = refused \cup TasksOf(over \ yes)
  BY DEF Resolve
<1>2. /\ phase = "resolve" /\ UNCHANGED <<chosen, proposal, posted, cleared>>
      /\ \A i \in VoteIds : vote'[i] = IF i \in over THEN NoVote ELSE vote[i]
  BY DEF Resolve, memberVars
<1>3. TasksOf(yes) \subseteq Destructive /\ TasksOf(over \ yes) \subseteq Destructive
  BY TasksOfType DEF TypeInv
<1>4. TasksOf(over \ yes) \subseteq posted
  BY DEF PromiseInv, OnTheWayWasPosted, TasksOf, ready
<1> HIDE DEF over
<1>5. PermitsAreUnused'
  BY <1>1, <1>2 DEF PromiseInv, PermitsAreUnused, TypeInv, TypeOK
<1>6. OnTheWayWasPosted'
  BY <1>1, <1>2, <1>4 DEF PromiseInv, OnTheWayWasPosted, after_refusal
<1>7. RefusedIsGone'
  <2>1. \A m \in Members : chosen'[m] = NoTask
    BY <1>2 DEF FlightInv, ChosenAreFree
  <2>2. NoTask \notin refused'
    BY <1>1, <1>3, BeatAssumption DEF TypeInv, TypeOK
  <2> QED
    BY <1>1, <2>1, <2>2 DEF PromiseInv, RefusedIsGone, after_refusal
<1>8. Promise!Decide
  BY <1>1, <1>2, <1>3 DEF Promise!Decide
<1> QED
  BY <1>5, <1>6, <1>7, <1>8 DEF PromiseInv

\* A destructive task goes ahead on a permit, which is used up.
LEMMA PromiseClear ==
    ASSUME TypeInv, PromiseInv, NEW m \in Members, ClaimCleared(m)
    PROVE  /\ PromiseInv'
           /\ \/ \E t \in Destructive : Promise!Clear(t)
              \/ UNCHANGED <<approvals, cleared, refused>>
<1> DEFINE t == chosen[m]
<1>1. /\ permits' = permits \ {t} /\ ~ lacks_permit(t)
      /\ cleared' = [u \in Destructive |-> IF u = t THEN cleared[u] + 1 ELSE cleared[u]]
      /\ chosen' = [chosen EXCEPT ![m] = NoTask]
      /\ UNCHANGED <<board, proposal, vote, posted, approvals, refused>>
  BY DEF ClaimCleared, consumed
<1>2. OnTheWayWasPosted' /\ RefusedIsGone'
  BY <1>1, BeatAssumption DEF PromiseInv, OnTheWayWasPosted, RefusedIsGone, TypeInv, TypeOK
<1>3. CASE t \in Destructive
  <2>1. t \in permits /\ t \notin refused
    BY <1>1, <1>3 DEF lacks_permit, PromiseInv, RefusedIsGone
  <2>2. cleared[t] < approvals[t]
    BY <1>3, <2>1 DEF PromiseInv, PermitsAreUnused, TypeInv, TypeOK
  <2>3. cleared' = [cleared EXCEPT ![t] = @ + 1]
    BY <1>1 DEF TypeInv, TypeOK
  <2>4. Promise!Clear(t)
    BY <1>1, <2>1, <2>2, <2>3 DEF Promise!Clear
  <2>5. PermitsAreUnused'
    BY <1>1, <1>3, <2>1 DEF PromiseInv, PermitsAreUnused, TypeInv, TypeOK
  <2> QED
    BY <1>2, <1>3, <2>4, <2>5 DEF PromiseInv
<1>4. CASE t \notin Destructive
  <2>1. cleared' = cleared /\ permits' = permits
    BY <1>1, <1>4 DEF TypeInv, TypeOK
  <2>2. PermitsAreUnused'
    BY <1>1, <2>1 DEF PromiseInv, PermitsAreUnused
  <2> QED
    BY <1>1, <1>2, <2>1, <2>2 DEF PromiseInv
<1> QED
  BY <1>3, <1>4

\* Nothing else a member does touches an approval, a permit or a refusal.
LEMMA PromiseMember ==
    ASSUME TypeInv, PromiseInv, NEW k \in Members,
           ClaimFails(k) \/ ClaimNeedsVote(k) \/ Act(k) \/ Propose(k) \/ Leave(k)
    PROVE  PromiseInv' /\ UNCHANGED <<approvals, cleared, refused>>
<1> USE BeatAssumption DEF TypeInv, TypeOK, PromiseInv, PermitsAreUnused, OnTheWayWasPosted,
        RefusedIsGone, boardVars, memberVars, voteVars, history
<1>1. CASE ClaimFails(k)
  BY <1>1 DEF ClaimFails
<1>2. CASE ClaimNeedsVote(k)
  BY <1>2 DEF ClaimNeedsVote, Claiming, lacks_permit
<1>3. CASE Act(k)
  BY <1>3 DEF Act, StartJob, Finish, Receive
<1>4. CASE Propose(k)
  <2>1. \A i \in VoteIds : vote'[i] # vote[i] => vote'[i].task = proposal[k]
    BY <1>4 DEF Propose, NoVote
  <2> QED
    BY <1>4, <2>1 DEF Propose
<1>5. CASE Leave(k)
  BY <1>5 DEF Leave
<1> QED
  BY <1>1, <1>2, <1>3, <1>4, <1>5

\* Every step keeps the invariant, and is a step of Consent or changes nothing
\* there.
LEMMA PromiseStep ==
    TypeInv /\ FlightInv /\ PromiseInv /\ [Next]_vars =>
        PromiseInv' /\ [Promise!ConsentNext]_<<approvals, cleared, refused>>
<1> SUFFICES ASSUME TypeInv, FlightInv, PromiseInv, [Next]_vars
             PROVE  PromiseInv' /\ [Promise!ConsentNext]_<<approvals, cleared, refused>>
  OBVIOUS
<1> DEFINE Step == PromiseInv' /\ [Promise!ConsentNext]_<<approvals, cleared, refused>>
<1>1. ASSUME NEW i \in VoteIds,
             \/ DeadlinePasses(i)
             \/ \E a \in Voters, choice \in {"approve", "deny"} : CastVote(i, a, choice)
      PROVE  Step
  <2>1. /\ UNCHANGED <<board, chosen, proposal, permits, posted, approvals, cleared, refused>>
        /\ \A j \in VoteIds : vote'[j] # NoVote => vote[j] # NoVote /\ vote'[j].task = vote[j].task
    <3>1. vote[i] \in Votes
      BY <1>1 DEF DeadlinePasses, CastVote, TypeInv, TypeOK
    <3> QED
      BY <1>1, <3>1 DEF DeadlinePasses, CastVote, TypeInv, TypeOK, Votes, boardVars, memberVars,
         history
  <2> QED
    BY <2>1 DEF PromiseInv, PermitsAreUnused, OnTheWayWasPosted, RefusedIsGone
<1>2. CASE HealthChanges
  BY <1>2 DEF HealthChanges, PromiseInv, PermitsAreUnused, OnTheWayWasPosted, RefusedIsGone,
     boardVars, memberVars, voteVars, history
<1>3. CASE UNCHANGED vars \/ Dissolved
  BY <1>3 DEF Dissolved, vars, PromiseInv, PermitsAreUnused, OnTheWayWasPosted, RefusedIsGone,
     boardVars, memberVars, voteVars, history
<1>4. CASE Resolve
  BY <1>4, PromiseResolve DEF Promise!ConsentNext
<1>5. ASSUME NEW m \in Members, ClaimCleared(m) PROVE Step
  BY <1>5, PromiseClear DEF Promise!ConsentNext
<1>6. CASE Tick
  BY <1>4, <1>6, PromiseTick DEF Tick
<1>7. ASSUME NEW m \in Members, Claim(m) \/ Act(m) \/ Propose(m) \/ Leave(m) PROVE Step
  BY <1>5, <1>7, PromiseMember DEF Claim
<1> QED
  BY <1>1, <1>2, <1>3, <1>6, <1>7 DEF Next

\* However members propose, claim, release, fail and leave, a destructive task is
\* cleared at most once per approval and never after a refusal (Beat,
\* KeepsPromise): the beat implements Consent.
THEOREM BeatKeepsPromise == Spec => KeepsPromise
<1>1. Init => TypeInv /\ FlightInv /\ PromiseInv
  BY TypeInit, FlightInit, PromiseInit
<1>2. TypeInv /\ FlightInv /\ PromiseInv /\ [Next]_vars
        => (TypeInv /\ FlightInv /\ PromiseInv)'
  BY TypeStep, FlightStep, PromiseStep
<1>3. Init => Promise!ConsentInit
  BY DEF Init, Promise!ConsentInit
<1>4. TypeInv /\ FlightInv /\ PromiseInv /\ [Next]_vars
        => [Promise!ConsentNext]_<<approvals, cleared, refused>>
  BY PromiseStep
<1> QED
  BY <1>1, <1>2, <1>3, <1>4, PTL DEF Spec, KeepsPromise, Promise!ConsentSpec

(***************************************************************************)
(* Votes                                                                   *)
(***************************************************************************)
\* The members whose decision or proposal may still open a vote this beat.
Undecided == {m \in Members : chosen[m] \in Destructive \/ proposal[m] # NoTask}

\* There is room for the votes this beat may open, vote ids are fresh, and a
\* proposal is the outcome of a decision.
RoomForVotes ==
    /\ nvotes + Cardinality(Undecided) <= MaxVotes
    /\ \A i \in VoteIds : i > nvotes => vote[i] = NoVote
    /\ phase \notin {"claim", "act", "gather", "propose"} =>
          \A m \in Members : proposal[m] = NoTask

VoteInv == RoomForVotes /\ AwaitingHasVote

\* No vote is open at the start.
LEMMA VoteInit == Init => VoteInv
<1> SUFFICES ASSUME Init PROVE VoteInv
  OBVIOUS
<1>1. Undecided = {}
  BY BeatAssumption DEF Init, Undecided
<1>2. Cardinality(Undecided) = 0
  BY <1>1, FS_EmptySet
<1> QED
  BY <1>2, BeatAssumption DEF Init, VoteInv, RoomForVotes, AwaitingHasVote

\* A step that takes no new decision and leaves the votes alone keeps VoteInv.
LEMMA VoteQuiet ==
    ASSUME TypeInv, VoteInv, Undecided' \subseteq Undecided,
           UNCHANGED <<nvotes, vote, awaiting>>,
           phase' \notin {"claim", "act", "gather", "propose"} =>
              \A m \in Members : proposal'[m] = NoTask
    PROVE  VoteInv'
<1>1. Undecided \subseteq Members /\ Undecided' \subseteq Members
  BY DEF Undecided
<1>2. Cardinality(Undecided') <= Cardinality(Undecided)
  BY <1>1, CountType, FS_Subset
<1>3. Cardinality(Undecided) \in Nat /\ Cardinality(Undecided') \in Nat
  BY <1>1, CountType
<1>4. (nvotes + Cardinality(Undecided) <= MaxVotes)'
  BY <1>2, <1>3, BeatAssumption DEF VoteInv, RoomForVotes, TypeInv, TypeOK
<1> QED
  BY <1>4 DEF VoteInv, RoomForVotes, AwaitingHasVote

\* The beat begins only with room for a vote per destructive decision.
LEMMA VoteBegin == ASSUME TypeInv, VoteInv, BeginBeat PROVE VoteInv'
<1>1. Undecided' = {m \in Members : chosen'[m] \in Destructive}
  BY DEF BeginBeat, VoteInv, RoomForVotes, Undecided
<1>2. (nvotes + Cardinality(Undecided) <= MaxVotes)'
  BY <1>1 DEF BeginBeat, voteVars
<1> QED
  BY <1>2 DEF BeginBeat, VoteInv, RoomForVotes, AwaitingHasVote, voteVars

\* A proposal opens its vote under a fresh id.
LEMMA VotePropose ==
    ASSUME TypeInv, FlightInv, VoteInv, NEW k \in Members, Propose(k) PROVE VoteInv'
<1>1. /\ phase = "propose" /\ phase' = "propose" /\ proposal[k] # NoTask
      /\ nvotes' = nvotes + 1
      /\ awaiting' = awaiting \cup {proposal[k]}
      /\ proposal' = [proposal EXCEPT ![k] = NoTask] /\ chosen' = chosen
  BY DEF Propose
<1>2. Undecided' = Undecided \ {k} /\ k \in Undecided
  <2>1. \A m \in Members : chosen[m] = NoTask
    BY <1>1 DEF FlightInv, ChosenAreFree
  <2> QED
    BY <1>1, <2>1, BeatAssumption DEF Undecided, TypeInv, TypeOK
<1>3. /\ Cardinality(Undecided') = Cardinality(Undecided) - 1
      /\ Cardinality(Undecided) \in Nat /\ Cardinality(Undecided') \in Nat
  <2>1. Undecided \in SUBSET Members /\ Undecided' \in SUBSET Members
    BY DEF Undecided
  <2> QED
    BY <1>2, <2>1, CountType, FS_RemoveElement
<1>4. nvotes + 1 \in VoteIds /\ (nvotes + Cardinality(Undecided) <= MaxVotes)'
  BY <1>1, <1>3, BeatAssumption DEF VoteInv, RoomForVotes, TypeInv, TypeOK, VoteIds
<1>5. /\ vote[nvotes + 1] = NoVote
      /\ vote'[nvotes + 1] # NoVote /\ vote'[nvotes + 1].task = proposal[k]
      /\ \A i \in VoteIds : i # nvotes + 1 => vote'[i] = vote[i]
  <2>1. vote[nvotes + 1] = NoVote
    BY <1>4 DEF VoteInv, RoomForVotes, TypeInv, TypeOK
  <2>2. vote'[nvotes + 1] = [NoVote EXCEPT !.task = proposal[k], !.required = Cardinality(up)]
    BY <1>4 DEF Propose, TypeInv, TypeOK
  <2>3. vote'[nvotes + 1].task = proposal[k] /\ NoVote.task = NoTask
    BY <2>2 DEF NoVote
  <2> QED
    BY <1>1, <1>4, <2>1, <2>3 DEF Propose, TypeInv, TypeOK
<1>6. RoomForVotes'
  BY <1>1, <1>4, <1>5 DEF VoteInv, RoomForVotes, TypeInv, TypeOK, VoteIds
<1>7. AwaitingHasVote'
  BY <1>1, <1>4, <1>5 DEF VoteInv, AwaitingHasVote
<1> QED
  BY <1>6, <1>7 DEF VoteInv

\* The resolution closes votes and forgets their tasks together.
LEMMA VoteResolve == ASSUME TypeInv, VoteInv, Resolve PROVE VoteInv'
<1> DEFINE over == {i \in VoteIds : ready(vote[i])}
<1>1. /\ phase = "resolve" /\ phase' = "orchestrate"
      /\ awaiting' = awaiting \ TasksOf(over)
      /\ vote' = [i \in VoteIds |-> IF i \in over THEN NoVote ELSE vote[i]]
      /\ UNCHANGED <<chosen, proposal, nvotes>>
  BY DEF Resolve, still_awaiting, memberVars
<1>2. Undecided' = Undecided
  BY <1>1 DEF Undecided
<1>3. \A t \in awaiting' : \E i \in VoteIds \ over : vote[i] # NoVote /\ vote[i].task = t
  BY <1>1 DEF VoteInv, AwaitingHasVote, TasksOf
<1> HIDE DEF over
<1> QED
  BY <1>1, <1>2, <1>3 DEF VoteInv, RoomForVotes, AwaitingHasVote

\* Ballots and deadlines leave a vote open and about the same task.
LEMMA VoteTouched ==
    ASSUME TypeInv, VoteInv, NEW i \in VoteIds,
           \/ DeadlinePasses(i)
           \/ \E a \in Voters, choice \in {"approve", "deny"} : CastVote(i, a, choice)
    PROVE  VoteInv'
<1>1. vote[i] # NoVote /\ vote[i] \in Votes
  BY DEF DeadlinePasses, CastVote, TypeInv, TypeOK
<1>2. UNCHANGED <<phase, chosen, proposal, nvotes, awaiting>>
  BY DEF DeadlinePasses, CastVote, memberVars
<1>3. /\ \A j \in VoteIds : j # i => vote'[j] = vote[j]
      /\ vote'[i].task = vote[i].task
  BY <1>1 DEF DeadlinePasses, CastVote, TypeInv, TypeOK, Votes
<1>4. vote'[i] # NoVote
  <2>1. vote'[i].task # NoTask
    BY <1>1, <1>3, BeatAssumption DEF Votes
  <2>2. NoVote.task = NoTask
    BY DEF NoVote
  <2> QED
    BY <2>1, <2>2
<1>5. Undecided' = Undecided
  BY <1>2 DEF Undecided
<1> QED
  BY <1>1, <1>2, <1>3, <1>4, <1>5 DEF VoteInv, RoomForVotes, AwaitingHasVote

\* Every step keeps VoteInv.
LEMMA VoteStep == TypeInv /\ FlightInv /\ VoteInv /\ [Next]_vars => VoteInv'
<1> SUFFICES ASSUME TypeInv, FlightInv, VoteInv, [Next]_vars PROVE VoteInv'
  OBVIOUS
<1> DEFINE Quiet ==
      /\ Undecided' \subseteq Undecided
      /\ UNCHANGED <<nvotes, vote, awaiting>>
      /\ phase' \notin {"claim", "act", "gather", "propose"} =>
              \A m \in Members : proposal'[m] = NoTask
<1>1. CASE BeginAct \/ CloseWindow \/ Gather \/ EndBeat \/ Orchestrate \/ HealthChanges
  <2>1. Quiet
    BY <1>1 DEF BeginAct, CloseWindow, Gather, EndBeat, Orchestrate, HealthChanges, Undecided,
       VoteInv, RoomForVotes, memberVars, voteVars
  <2> QED
    BY <2>1, VoteQuiet
<1>2. ASSUME NEW k \in Members, Claim(k) PROVE VoteInv'
  <2>1. /\ phase = "claim" /\ phase' = "claim" /\ UNCHANGED <<nvotes, vote, awaiting>>
        /\ chosen' = [chosen EXCEPT ![k] = NoTask]
    BY <1>2 DEF Claim, ClaimFails, ClaimCleared, ClaimNeedsVote, Claiming, voteVars
  <2>2. \A m \in Members : proposal'[m] # proposal[m] => chosen[m] \in Destructive
    BY <1>2 DEF Claim, ClaimFails, ClaimCleared, ClaimNeedsVote, lacks_permit, TypeInv, TypeOK
  <2>3. Quiet
    BY <2>1, <2>2, BeatAssumption DEF Undecided, TypeInv, TypeOK
  <2> QED
    BY <2>3, VoteQuiet
<1>3. ASSUME NEW k \in Members, Act(k) \/ Leave(k) PROVE VoteInv'
  <2>1. Quiet
    BY <1>3 DEF Act, StartJob, Finish, Receive, Leave, Undecided, VoteInv, RoomForVotes, voteVars
  <2> QED
    BY <2>1, VoteQuiet
<1>4. CASE UNCHANGED vars \/ Dissolved
  <2>1. Quiet
    BY <1>4 DEF Dissolved, vars, Undecided, VoteInv, RoomForVotes, memberVars, voteVars
  <2> QED
    BY <2>1, VoteQuiet
<1> QED
  BY <1>1, <1>2, <1>3, <1>4, VoteBegin, VotePropose, VoteResolve, VoteTouched DEF Next, Tick

\* A task marked as awaiting its vote has one open (Beat, AwaitingHasVote).
THEOREM WaitingIsForAVote == Spec => []AwaitingHasVote
<1>1. Init => TypeInv /\ FlightInv /\ VoteInv
  BY TypeInit, FlightInit, VoteInit
<1>2. TypeInv /\ FlightInv /\ VoteInv /\ [Next]_vars => (TypeInv /\ FlightInv /\ VoteInv)'
  BY TypeStep, FlightStep, VoteStep
<1>3. VoteInv => AwaitingHasVote
  BY DEF VoteInv
<1> QED
  BY <1>1, <1>2, <1>3, PTL DEF Spec

(***************************************************************************)
(* What is in hand was approved                                            *)
(***************************************************************************)
Holders(t) == {m \in Members : active[m] = t}

\* Whoever holds a destructive task was cleared to, once for each holder.
HoldersWereCleared == \A t \in Destructive : Cardinality(Holders(t)) <= cleared[t]

\* Nobody holds anything at the start.
LEMMA HoldersInit == Init => HoldersWereCleared
<1> SUFFICES ASSUME Init, NEW t \in Destructive PROVE Cardinality(Holders(t)) <= cleared[t]
  BY DEF HoldersWereCleared
<1>1. Holders(t) = {}
  BY BeatAssumption DEF Init, Holders
<1> QED
  BY <1>1, FS_EmptySet DEF Init

\* A step that clears nothing and hands nothing out keeps it.
LEMMA HoldersShrink ==
    ASSUME TypeInv, HoldersWereCleared, UNCHANGED cleared,
           \A m \in Members : active'[m] \in {active[m], NoTask}
    PROVE  HoldersWereCleared'
<1> SUFFICES ASSUME NEW t \in Destructive PROVE Cardinality(Holders(t)') <= cleared[t]
  BY DEF HoldersWereCleared
<1>1. Holders(t)' \subseteq Holders(t) /\ Holders(t) \in SUBSET Members
  BY BeatAssumption DEF Holders
<1>2. IsFiniteSet(Holders(t)) /\ Cardinality(Holders(t)) \in Nat /\ Cardinality(Holders(t)') \in Nat
  BY <1>1, CountType
<1>3. Cardinality(Holders(t)') <= Cardinality(Holders(t))
  BY <1>1, <1>2, FS_Subset
<1>4. Cardinality(Holders(t)) <= cleared[t] /\ cleared[t] \in Nat
  BY DEF HoldersWereCleared, TypeInv, TypeOK
<1> QED
  BY <1>2, <1>3, <1>4

\* A clearance is counted as its task is handed to one member.
LEMMA HoldersGrow ==
    ASSUME TypeInv, HoldersWereCleared, NEW m \in Members, ClaimCleared(m)
    PROVE  HoldersWereCleared'
<1> DEFINE u == chosen[m]
<1>1. /\ active' = [active EXCEPT ![m] = u]
      /\ cleared' = [v \in Destructive |-> IF v = u THEN cleared[v] + 1 ELSE cleared[v]]
  BY DEF ClaimCleared
<1> SUFFICES ASSUME NEW t \in Destructive PROVE Cardinality(Holders(t)') <= cleared'[t]
  BY DEF HoldersWereCleared
<1>2. Cardinality(Holders(t)) <= cleared[t] /\ cleared[t] \in Nat /\ active \in [Members -> Tasks \cup {NoTask}]
  BY DEF HoldersWereCleared, TypeInv, TypeOK
<1>3. IsFiniteSet(Holders(t)) /\ Cardinality(Holders(t)) \in Nat
  BY CountType DEF Holders
<1> HIDE DEF u
<1>4. CASE t = u
  <2>1. Holders(t)' \subseteq Holders(t) \cup {m} /\ cleared'[t] = cleared[t] + 1
    BY <1>1, <1>2, <1>4 DEF Holders
  <2>2. /\ IsFiniteSet(Holders(t) \cup {m})
        /\ Cardinality(Holders(t) \cup {m}) \in Nat
        /\ Cardinality(Holders(t) \cup {m}) <= Cardinality(Holders(t)) + 1
    <3>1. /\ IsFiniteSet(Holders(t) \cup {m})
          /\ Cardinality(Holders(t) \cup {m}) =
               IF m \in Holders(t) THEN Cardinality(Holders(t)) ELSE Cardinality(Holders(t)) + 1
      BY <1>3, FS_AddElement
    <3> QED
      BY <1>3, <3>1
  <2>3. Cardinality(Holders(t)') <= Cardinality(Holders(t) \cup {m}) /\ Cardinality(Holders(t)') \in Nat
    BY <2>1, <2>2, FS_Subset, FS_CardinalityType
  <2> QED
    BY <1>2, <1>3, <2>1, <2>2, <2>3
<1>5. CASE t # u
  <2>1. Holders(t)' \subseteq Holders(t) /\ cleared'[t] = cleared[t]
    BY <1>1, <1>2, <1>5 DEF Holders
  <2>2. Cardinality(Holders(t)') <= Cardinality(Holders(t)) /\ Cardinality(Holders(t)') \in Nat
    BY <1>3, <2>1, FS_Subset, FS_CardinalityType
  <2> QED
    BY <1>2, <1>3, <2>1, <2>2
<1> QED
  BY <1>4, <1>5

\* Every step keeps it.
LEMMA HoldersStep == TypeInv /\ HoldersWereCleared /\ [Next]_vars => HoldersWereCleared'
<1> SUFFICES ASSUME TypeInv, HoldersWereCleared, [Next]_vars PROVE HoldersWereCleared'
  OBVIOUS
<1> DEFINE Quiet == UNCHANGED cleared /\ \A m \in Members : active'[m] \in {active[m], NoTask}
<1>1. ASSUME Tick PROVE Quiet
  BY <1>1 DEF Tick, BeginBeat, BeginAct, CloseWindow, Gather, EndBeat, Resolve, Orchestrate,
     unassigned, memberVars, history
<1>2. ASSUME NEW m \in Members, Act(m) \/ Propose(m) \/ Leave(m) \/ ClaimFails(m) \/ ClaimNeedsVote(m)
      PROVE  Quiet
  BY <1>2 DEF Act, StartJob, Finish, Receive, Propose, Leave, ClaimFails, ClaimNeedsVote,
     unassigned, history
<1>3. ASSUME \/ \E i \in VoteIds : DeadlinePasses(i)
             \/ \E i \in VoteIds, a \in Voters, choice \in {"approve", "deny"} : CastVote(i, a, choice)
             \/ HealthChanges \/ Dissolved \/ UNCHANGED vars
      PROVE  Quiet
  BY <1>3 DEF DeadlinePasses, CastVote, HealthChanges, Dissolved, memberVars, history, vars
<1>4. Quiet \/ \E m \in Members : ClaimCleared(m)
  BY <1>1, <1>2, <1>3 DEF Next, Claim
<1> QED
  BY <1>4, HoldersShrink, HoldersGrow

\* As many approvals as members with the task in hand, at any time (Beat,
\* InHandIsApproved).
THEOREM WhatRunsIsApproved == Spec => []InHandIsApproved
<1>1. Init => TypeInv /\ FlightInv /\ PromiseInv /\ HoldersWereCleared
  BY TypeInit, FlightInit, PromiseInit, HoldersInit
<1>2. TypeInv /\ FlightInv /\ PromiseInv /\ HoldersWereCleared /\ [Next]_vars
        => (TypeInv /\ FlightInv /\ PromiseInv /\ HoldersWereCleared)'
  BY TypeStep, FlightStep, PromiseStep, HoldersStep
<1>3. TypeInv /\ PromiseInv /\ HoldersWereCleared => InHandIsApproved
  <2> SUFFICES ASSUME TypeInv, PromiseInv, HoldersWereCleared, NEW t \in Destructive
               PROVE  Cardinality(Holders(t)) <= approvals[t]
    BY DEF InHandIsApproved, Holders
  <2>1. Cardinality(Holders(t)) \in Nat
    BY CountType DEF Holders
  <2>2. /\ cleared[t] \in Nat /\ approvals[t] \in Nat /\ cleared[t] <= approvals[t]
        /\ Cardinality(Holders(t)) <= cleared[t]
    BY DEF TypeInv, TypeOK, PromiseInv, PermitsAreUnused, HoldersWereCleared
  <2> QED
    BY <2>1, <2>2
<1> QED
  BY <1>1, <1>2, <1>3, PTL DEF Spec
=============================================================================

-------------------------------- MODULE Beat --------------------------------
(***************************************************************************)
(* The beat of a formation: how its members pick tasks off the blackboard, *)
(* claim them, run them past the end of a tick, and vote on the            *)
(* destructive ones under ApprovalPolicy::RequireConsensus                 *)
(* (springtale-bot/src/runtime/tick_steps/build_reports, the blackboard,   *)
(* tick_steps/resolve_consensus.rs and consensus.rs of                     *)
(* springtale-cooperation).                                                *)
(*                                                                         *)
(* The bot's event loop runs a tick and takes commands between two ticks;  *)
(* the dispatches it spawned run beside it. Fuel is abstracted to the      *)
(* choice whether a metered blackboard write succeeds. Members take tasks  *)
(* from the blackboard only: the per-agent inbox, fed when a dependency of *)
(* an assigned task ends, and dependencies are not modelled.               *)
(***************************************************************************)
EXTENDS Naturals, FiniteSets

CONSTANTS
    Members,        \* agents
    Voters,         \* the agent ids that ballots come with; nothing asks whether
                    \* they are members, and a ballot is for or against
    Tasks,          \* subtask ids
    Destructive,    \* tasks prepare finds destructive; the others are sensing
                    \* polls, whose stable ids the orchestrator posts again
    NoTask,
    Cap,            \* constraints.max_concurrent_actions, 0 for unbounded
    MaxVotes        \* bound: votes ever opened

ASSUME BeatAssumption ==
    /\ Destructive \subseteq Tasks
    /\ NoTask \notin Tasks
    /\ IsFiniteSet(Members) /\ IsFiniteSet(Voters)
    /\ Cap \in Nat /\ MaxVotes \in Nat

VoteIds == 1..MaxVotes
Choices == {"none", "approve", "deny"}
Phases  == {"idle", "claim", "act", "gather", "propose", "resolve", "orchestrate"}
Jobs    == {"none", "queued", "running", "done", "panicked"}

VARIABLES
    phase,      \* where the event loop is
    present,    \* formation.members
    up,         \* the operational ones
    board,      \* tasks on the blackboard ("task:" keys)
    claimed,    \* tasks with a "claimed:" key
    chosen,     \* [Members -> Decision.chosen_task of this beat]
    active,     \* [Members -> active_task]
    job,        \* [Members -> what its dispatch is doing]
    carried,    \* members with a dispatch in their pending slot
    collected,  \* members whose dispatch ended and is to be posted
    proposal,   \* [Members -> ExecuteOutcome.consensus_task]
    nvotes,     \* votes opened so far
    vote,       \* [VoteIds -> ConsensusVote]
    awaiting,   \* keys of awaiting_consensus
    permits,    \* consensus_approved
    \* History.
    posted,     \* destructive tasks posted, their ids are fresh
    approvals,  \* [Destructive -> approving resolutions]
    cleared,    \* [Destructive -> times prepare let it through]
    refused     \* tasks some vote refused

boardVars  == <<board, claimed>>
memberVars == <<chosen, active, job, carried, collected, proposal>>
voteVars   == <<nvotes, vote, awaiting, permits>>
history    == <<posted, approvals, cleared, refused>>
vars == <<phase, present, up, boardVars, memberVars, voteVars, history>>

NoVote == [task |-> NoTask, required |-> 0, expired |-> FALSE,
           ballots |-> [a \in Voters |-> "none"]]
Votes  == [task : Destructive, required : Nat, expired : BOOLEAN,
           ballots : [Voters -> Choices]]

----------------------------------------------------------------------------
\* scan_tasks.
scan_tasks == board \ claimed

\* resolve: is the vote over?
Cast(v) == {a \in Voters : v.ballots[a] # "none"}
For(v, choice) == Cardinality({a \in Voters : v.ballots[a] = choice})

ready(v) == v # NoVote /\ (v.expired \/ Cardinality(Cast(v)) >= v.required)

\* winner: the most popular choice. max_by_key over a HashMap breaks a tie
\* either way, and no ballot at all is an abstention.
can_win(v, choice) ==
    /\ For(v, choice) > 0
    /\ \A other \in Choices \ {"none"} : For(v, other) <= For(v, choice)

\* destructive_outcome: only a quorum's winner, never a timeout, approves.
may_approve(v) == ~ v.expired /\ can_win(v, "approve")
may_refuse(v)  == v.expired \/ can_win(v, "deny") \/ Cast(v) = {}

TasksOf(V) == {vote[i].task : i \in V}

\* This beat's dispatches that act::run has not taken back yet.
Running ==
    {m \in present \ carried : job[m] \in {"running", "done", "panicked"}}

HasRoom == Cap = 0 \/ Cardinality(Running) < Cap

----------------------------------------------------------------------------
Init ==
    /\ phase = "idle"
    /\ present = Members
    /\ up = Members
    /\ board = {}
    /\ claimed = {}
    /\ chosen = [m \in Members |-> NoTask]
    /\ active = [m \in Members |-> NoTask]
    /\ job = [m \in Members |-> "none"]
    /\ carried = {}
    /\ collected = {}
    /\ proposal = [m \in Members |-> NoTask]
    /\ nvotes = 0
    /\ vote = [i \in VoteIds |-> NoVote]
    /\ awaiting = {}
    /\ permits = {}
    /\ posted = {}
    /\ approvals = [t \in Destructive |-> 0]
    /\ cleared = [t \in Destructive |-> 0]
    /\ refused = {}

\* Decide: every operational member without a pending dispatch picks from the
\* same blackboard, before anyone claims. NoTask stands for every way out of
\* prepare before the claim: nothing to do, a yield, Observe or Suggest, the
\* pacing gate. (A member that decides never has an active task: see
\* ActiveIsInFlight; continue_active_task has nothing to continue.)
BeginBeat ==
    /\ phase = "idle" /\ up # {}
    /\ phase' = "claim"
    /\ chosen' \in [Members -> scan_tasks \cup {NoTask}]
    /\ \A m \in Members : chosen'[m] # NoTask => m \in up \ carried
    /\ nvotes + Cardinality({m \in Members : chosen'[m] \in Destructive}) <= MaxVotes
    /\ UNCHANGED <<present, up, boardVars, active, job, carried, collected, proposal,
                   voteVars, history>>

Claiming(m) == phase = "claim" /\ chosen[m] # NoTask

\* claim_task is one metered write: it fails for lack of fuel, and never
\* because the task is claimed already.
ClaimFails(m) ==
    /\ Claiming(m)
    /\ chosen' = [chosen EXCEPT ![m] = NoTask]
    /\ UNCHANGED <<phase, present, up, boardVars, active, job, carried, collected,
                   proposal, voteVars, history>>

lacks_permit_AnyTask(t) == t \notin permits

\* needs_consensus && !consensus_approved.remove(..)
lacks_permit(t) == t \in Destructive /\ t \notin permits

consumed_Never(t) == permits
consumed(t) == permits \ {t}

\* The claim stands and the task is cleared to run, on its permit if it needs one.
ClaimCleared(m) ==
    LET t == chosen[m] IN
    /\ Claiming(m) /\ ~ lacks_permit(t)
    /\ claimed' = claimed \cup {t}
    /\ permits' = consumed(t)
    /\ active' = [active EXCEPT ![m] = t]
    /\ job' = [job EXCEPT ![m] = "queued"]
    /\ chosen' = [chosen EXCEPT ![m] = NoTask]
    /\ cleared' = [u \in Destructive |-> IF u = t THEN cleared[u] + 1 ELSE cleared[u]]
    /\ UNCHANGED <<phase, present, up, board, carried, collected, proposal, nvotes, vote,
                   awaiting, posted, approvals, refused>>

\* No permit: the claim on the task is released, whoever's it was, and a vote
\* proposed unless one is open.
ClaimNeedsVote(m) ==
    LET t == chosen[m] IN
    /\ Claiming(m) /\ lacks_permit(t)
    /\ claimed' = claimed \ {t}
    /\ proposal' = [proposal EXCEPT ![m] = IF t \in awaiting THEN NoTask ELSE t]
    /\ chosen' = [chosen EXCEPT ![m] = NoTask]
    /\ UNCHANGED <<phase, present, up, board, active, job, carried, collected, voteVars,
                   history>>

\* active_task = None for the members of S.
unassigned_None(S) == active
unassigned(S) == [m \in Members |-> IF m \in S THEN NoTask ELSE active[m]]

\* act::run first takes back what earlier beats carried over and has ended. A
\* panicked dispatch loses its claim and leaves no result.
BeginAct ==
    LET ended == {m \in carried : job[m] = "done"}
        lost  == {m \in carried : job[m] = "panicked"}
    IN
    /\ phase = "claim"
    /\ \A m \in Members : chosen[m] = NoTask
    /\ phase' = "act"
    /\ collected' = ended
    /\ carried' = carried \ (ended \cup lost)
    /\ job' = [m \in Members |-> IF m \in ended \cup lost THEN "none" ELSE job[m]]
    /\ claimed' = claimed \ {active[m] : m \in lost}
    /\ active' = unassigned(lost)
    /\ UNCHANGED <<present, up, board, chosen, proposal, voteVars, history>>

StartJob(m) ==
    /\ phase = "act" /\ job[m] = "queued"
    /\ HasRoom
    /\ job' = [job EXCEPT ![m] = "running"]
    /\ UNCHANGED <<phase, present, up, boardVars, chosen, active, carried, collected,
                   proposal, voteVars, history>>

\* dispatch_one ends, beside the event loop, in a result or a panic.
Finish(m) ==
    /\ job[m] = "running"
    /\ \E end \in {"done", "panicked"} : job' = [job EXCEPT ![m] = end]
    /\ UNCHANGED <<phase, present, up, boardVars, chosen, active, carried, collected,
                   proposal, voteVars, history>>

\* A dispatch that ended within the window (a panicked one does not say so).
Receive(m) ==
    /\ phase = "act" /\ m \in Running /\ job[m] = "done"
    /\ collected' = collected \cup {m}
    /\ job' = [job EXCEPT ![m] = "none"]
    /\ UNCHANGED <<phase, present, up, boardVars, chosen, active, carried, proposal,
                   voteVars, history>>

\* The window closes or nothing runs any more: who still works is carried
\* over, whom the cap held back gives up its claim (and a permit it used).
CloseWindow ==
    LET held == {m \in Members : job[m] = "queued"} IN
    /\ phase = "act"
    /\ held # {} => ~ HasRoom
    /\ phase' = "gather"
    /\ carried' = carried \cup Running
    /\ claimed' = claimed \ {active[m] : m \in held}
    /\ active' = unassigned(held)
    /\ job' = [m \in Members |-> IF m \in held THEN "none" ELSE job[m]]
    /\ UNCHANGED <<present, up, board, chosen, collected, proposal, voteVars, history>>

\* post: every ended dispatch writes its result and takes its task and the
\* claim down, unless the write fails for lack of fuel.
Gather ==
    /\ phase = "gather"
    /\ phase' = "propose"
    /\ \E written \in SUBSET collected :
          /\ board' = board \ {active[m] : m \in written}
          /\ claimed' = claimed \ {active[m] : m \in written}
    /\ active' = unassigned(collected)
    /\ collected' = {}
    /\ UNCHANGED <<present, up, chosen, job, carried, proposal, voteVars, history>>

\* propose_all opens a vote per proposal of the beat.
Propose(m) ==
    /\ phase = "propose" /\ proposal[m] # NoTask
    /\ nvotes' = nvotes + 1
    /\ vote' = [vote EXCEPT ![nvotes + 1] =
                   [NoVote EXCEPT !.task = proposal[m], !.required = Cardinality(up)]]
    /\ awaiting' = awaiting \cup {proposal[m]}
    /\ proposal' = [proposal EXCEPT ![m] = NoTask]
    /\ UNCHANGED <<phase, present, up, boardVars, chosen, active, job, carried, collected,
                   permits, history>>

EndBeat ==
    /\ phase = "propose"
    /\ \A m \in Members : proposal[m] = NoTask
    /\ phase' = "resolve"
    /\ UNCHANGED <<present, up, boardVars, memberVars, voteVars, history>>

still_awaiting_All(T) == awaiting
still_awaiting(T) == awaiting \ T

after_refusal_Released(T) == board
after_refusal(T) == board \ T

\* resolve_consensus: every vote that is over is applied. An approval mints the
\* permit, anything else takes the task off the blackboard.
Resolve ==
    LET over == {i \in VoteIds : ready(vote[i])} IN
    /\ phase = "resolve"
    /\ phase' = "orchestrate"
    /\ \E yes \in SUBSET over :
          /\ \A i \in yes : may_approve(vote[i])
          /\ \A i \in over \ yes : may_refuse(vote[i])
          /\ permits' = permits \cup TasksOf(yes)
          /\ board' = after_refusal(TasksOf(over \ yes))
          /\ claimed' = claimed \ TasksOf(over \ yes)
          /\ approvals' = [t \in Destructive |-> IF t \in TasksOf(yes)
                                                THEN approvals[t] + 1 ELSE approvals[t]]
          /\ refused' = refused \cup TasksOf(over \ yes)
    /\ awaiting' = still_awaiting(TasksOf(over))
    /\ vote' = [i \in VoteIds |-> IF i \in over THEN NoVote ELSE vote[i]]
    /\ UNCHANGED <<present, up, memberVars, nvotes, posted, cleared>>

\* orchestrate_step posts subtasks: fresh ids from the AI, or polls that are due.
Orchestrate ==
    /\ phase = "orchestrate"
    /\ phase' = "idle"
    /\ \E new \in SUBSET (Tasks \ posted) :
          /\ board' = board \cup new
          /\ posted' = posted \cup (new \cap Destructive)
    /\ UNCHANGED <<present, up, claimed, memberVars, voteVars, approvals, cleared, refused>>

----------------------------------------------------------------------------
\* The commands and the rest of the tick, between two beats.

\* vote replaces the voter's earlier ballot.
CastVote(i, a, choice) ==
    /\ phase = "idle" /\ vote[i] # NoVote
    /\ vote' = [vote EXCEPT ![i].ballots[a] = choice]
    /\ UNCHANGED <<phase, present, up, boardVars, memberVars, nvotes, awaiting, permits,
                   history>>

DeadlinePasses(i) ==
    /\ vote[i] # NoVote /\ ~ vote[i].expired
    /\ vote' = [vote EXCEPT ![i].expired = TRUE]
    /\ UNCHANGED <<phase, present, up, boardVars, memberVars, nvotes, awaiting, permits,
                   history>>

\* Supervision, recovery and health change who is operational.
HealthChanges ==
    /\ phase = "idle" /\ up # {}
    /\ up' \in SUBSET present
    /\ UNCHANGED <<phase, present, boardVars, memberVars, voteVars, history>>

\* retain_viable: a formation without operational members is gone.
Dissolved ==
    /\ phase = "idle" /\ up = {}
    /\ UNCHANGED vars

\* leave, or the sweep of dead members: the slot goes, with the handle of a
\* pending dispatch in it. The dispatch runs on, the claim stays.
Leave(m) ==
    /\ phase = "idle" /\ m \in present
    /\ present' = present \ {m} /\ up' = up \ {m}
    /\ carried' = carried \ {m}
    /\ active' = unassigned({m})
    /\ UNCHANGED <<phase, boardVars, chosen, job, collected, proposal, voteVars, history>>

----------------------------------------------------------------------------
Claim(m) == ClaimFails(m) \/ ClaimCleared(m) \/ ClaimNeedsVote(m)

Act(m) == StartJob(m) \/ Finish(m) \/ Receive(m)

Tick == BeginBeat \/ BeginAct \/ CloseWindow \/ Gather \/ EndBeat \/ Resolve \/ Orchestrate

Next ==
    \/ Tick
    \/ \E m \in Members : Claim(m) \/ Act(m) \/ Propose(m) \/ Leave(m)
    \/ \E i \in VoteIds : DeadlinePasses(i)
    \/ \E i \in VoteIds, a \in Voters, choice \in {"approve", "deny"} : CastVote(i, a, choice)
    \/ HealthChanges
    \/ Dissolved

Spec == Init /\ [][Next]_vars

----------------------------------------------------------------------------
TypeOK ==
    /\ phase \in Phases
    /\ present \subseteq Members
    /\ up \subseteq present
    /\ board \subseteq Tasks
    /\ claimed \subseteq Tasks
    /\ chosen \in [Members -> Tasks \cup {NoTask}]
    /\ active \in [Members -> Tasks \cup {NoTask}]
    /\ job \in [Members -> Jobs]
    /\ carried \subseteq present
    /\ collected \subseteq present
    /\ proposal \in [Members -> Destructive \cup {NoTask}]
    /\ nvotes \in Nat
    /\ vote \in [VoteIds -> Votes \cup {NoVote}]
    /\ awaiting \subseteq Destructive
    /\ permits \subseteq Destructive
    /\ posted \subseteq Destructive
    /\ approvals \in [Destructive -> Nat]
    /\ cleared \in [Destructive -> Nat]
    /\ refused \subseteq Destructive

\* Between two beats a member holds a task exactly when a dispatch of its is in
\* flight, and a member that decides holds none: no path of the beat (carried
\* over, panicked, held back by the cap, out of fuel) leaves a member stuck
\* with a task that nobody runs (agent_pipeline/mod.rs, act.rs, post.rs).
ActiveIsInFlight ==
    /\ phase = "idle" => \A m \in present : active[m] # NoTask <=> m \in carried
    /\ phase = "claim" => \A m \in Members : chosen[m] # NoTask => active[m] = NoTask

\* A task that waits for a vote has one open, so it cannot wait for ever: the
\* guard that keeps the executor from proposing again is never left behind
\* (formation.rs, awaiting_consensus).
AwaitingHasVote == \A t \in awaiting : \E i \in VoteIds : vote[i] # NoVote /\ vote[i].task = t

\* At no time do more members have a destructive task in hand than approvals
\* of it have been given, although claims are not exclusive, a member without
\* a permit releases the claim of one that works, and an approval may come
\* while the task is still running (prepare.rs, consensus_approved).
InHandIsApproved ==
    \A t \in Destructive : Cardinality({m \in Members : active[m] = t}) <= approvals[t]

\* The votes, permits and claims together keep the formation's promise: a
\* destructive task is cleared at most once per approval and never after a
\* refusal, whoever else proposed, claimed or released it (Consent).
Promise == INSTANCE Consent WITH Subjects <- Destructive
KeepsPromise == Promise!ConsentSpec
=============================================================================

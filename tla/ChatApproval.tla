---------------------------- MODULE ChatApproval ----------------------------
(***************************************************************************)
(* Approvals over chat: the store-backed gate                              *)
(* (springtale-runtime/src/approval/chat_gate.rs on the rows of            *)
(* springtale-store/src/backend/sqlite/approvals.rs), the chat tool loop   *)
(* that pauses behind it (springtale-bot/src/tool_runner/loop_.rs), the    *)
(* single bot event loop that runs the tool loop inline and also handles   *)
(* the owner's chat answers (springtale-bot/src/runtime/event_loop.rs,     *)
(* handlers.rs, trigger_dispatch.rs), and the boot sweep and resumer that  *)
(* pick paused threads up after a restart (init.rs, tool_runner/resume.rs).*)
(*                                                                         *)
(* Requests are numbered in the order of their requested_at, so a request  *)
(* number is also an instant: a row was requested at or after a checkpoint *)
(* was created iff its number exceeds the checkpoint's "created".          *)
(***************************************************************************)
EXTENDS Naturals, FiniteSets

CONSTANTS
    Sessions,       \* chat threads (session keys)
    Calls,          \* gated tool calls, by summary "{connector}.{action}"
    NoCall,         \* a row whose summary is some other text, or no row
    NoSession,      \* an idle task's session
    MaxIterations,  \* ToolPolicy::effective_max_iterations
    MaxRequests,    \* bound: approval requests ever made
    MaxCrashes      \* bound: restarts of the daemon

ASSUME ChatApprovalAssumption ==
    /\ MaxIterations \in Nat /\ MaxRequests \in Nat /\ MaxCrashes \in Nat
    /\ NoCall \notin Calls
    /\ NoSession \notin Sessions

Ids == 1..MaxRequests
NoId == 0

\* Two tasks run tool loops: the bot's event loop and the boot resumer.
Actors == {"loop", "resumer"}

\* A denial through the management API carries a free text, its reason:
\* "denied_why" is one whose reason has the word "approved" in it.
ChatReplies == {"approved", "denied"}
Answers   == ChatReplies \cup {"denied_why"}
Decisions == Answers \cup {"timed_out"}

VARIABLES
    \* Durable (SQLite).
    n,           \* requests made so far
    row,         \* [Ids -> pending_approvals.decision_json]
    summary,     \* [Ids -> the call the row's summary names, or NoCall]
    checkpoint,  \* [Sessions -> tool_loop_checkpoints row, or absent]
    \* The environment.
    late,        \* rows up to this number are past expires_at
    crashes,
    \* In-process.
    up,          \* the daemon is running
    run,         \* [Actors -> what its run_with_tools is doing]
    waiter,      \* requests with a sender left in ChatApprovalGate.waiters
    inbox,       \* [Ids -> what was sent on the oneshot]
    resolving,   \* resolve calls between the store update and the wake-up
    queue,       \* chat answers the event loop has not read yet
    listed,      \* the resumer has read the checkpoint table
    todo,        \* checkpoints the resumer still has to go through
    \* History.
    granted      \* requests whose caller was told Approved

durable  == <<n, row, summary, checkpoint>>
volatile == <<run, waiter, inbox, resolving, queue, listed, todo>>
vars == <<durable, late, crashes, up, volatile, granted>>

NoCheckpoint == [call |-> NoCall, created |-> 0]
Checkpoints  == [call : Calls, created : 0..MaxRequests]
TodoItems    == [session : Sessions, call : Calls, created : 0..MaxRequests]

\* What run_with_tools is doing: nothing, a round, or a gate in that round.
Idle == [stage |-> "idle", session |-> NoSession, left |-> 0, id |-> NoId]
Runs == {Idle}
    \cup [stage : {"model", "calling"}, session : Sessions,
          left : 0..MaxIterations, id : {NoId}]
    \cup [stage : {"inserted", "waiting", "stamping"}, session : Sessions,
          left : 0..MaxIterations, id : Ids]
Started(s) == [stage |-> "model", session |-> s, left |-> MaxIterations, id |-> NoId]

----------------------------------------------------------------------------
Init ==
    /\ n = 0
    /\ row = [i \in Ids |-> "absent"]
    /\ summary = [i \in Ids |-> NoCall]
    /\ checkpoint = [s \in Sessions |-> NoCheckpoint]
    /\ late = 0
    /\ crashes = 0
    /\ up = TRUE
    /\ run = [a \in Actors |-> Idle]
    /\ waiter = {}
    /\ inbox = [i \in Ids |-> "none"]
    /\ resolving = {}
    /\ queue = {}
    /\ listed = TRUE
    /\ todo = {}
    /\ granted = {}

At(a, stage) == up /\ run[a].stage = stage

\* for iteration in 0..max_iterations.
Iterates_OneMore(left) == TRUE
Iterates(left) == left > 0
Counted_Never(left) == left
Counted(left) == left - 1

\* ApprovalDecision::is_approved.
is_approved_NotDenied(d) == d # "denied"
is_approved(d) == d = "approved"

\* verdict.contains("approved"), on the row's decision_json.
contains_approved_NotDenied(d) == d \notin {"denied", "timed_out"}
contains_approved(d) == d \in {"approved", "denied_why"}

\* The checkpoint the resumer is working on: the list is ordered by created_at.
Current(cp) == cp \in todo /\ \A other \in todo : cp.created <= other.created

\* run_with_tools has returned to its caller: the event loop takes its next
\* event, the resumer its next checkpoint.
Leave(a) ==
    /\ run' = [run EXCEPT ![a] = Idle]
    /\ todo' = IF a = "resumer"
               THEN {cp \in todo : cp.session # run[a].session}
               ELSE todo

\* Deleting a checkpoint may fail in the store: every caller ignores it.
delete_tool_loop_checkpoint(s) ==
    checkpoint' \in {[checkpoint EXCEPT ![s] = NoCheckpoint], checkpoint}

\* A chat message falls through to the AI: the event loop is in it until
\* run_with_tools returns.
Message(s) ==
    /\ At("loop", "idle")
    /\ run' = [run EXCEPT !["loop"] = Started(s)]
    /\ UNCHANGED <<durable, late, crashes, up, waiter, inbox, resolving, queue,
                   listed, todo, granted>>

\* The model answers without a tool call, or the iteration cap is reached.
ModelStops(a) ==
    /\ At(a, "model")
    /\ delete_tool_loop_checkpoint(run[a].session)
    /\ Leave(a)
    /\ UNCHANGED <<n, row, summary, late, crashes, up, waiter, inbox, resolving,
                   queue, listed, granted>>

\* The adapter fails: run_with_tools returns at once. Only the resumer clears
\* the checkpoint then.
ModelFails(a) ==
    /\ At(a, "model")
    /\ Iterates(run[a].left)
    /\ \/ a = "resumer" /\ delete_tool_loop_checkpoint(run[a].session)
       \/ a = "loop" /\ UNCHANGED checkpoint
    /\ Leave(a)
    /\ UNCHANGED <<n, row, summary, late, crashes, up, waiter, inbox, resolving,
                   queue, listed, granted>>

\* The model asks for tool calls, c first: the checkpoint is upserted, and
\* keeps the created_at of the row it replaces; a failed write is logged.
ModelCalls(a, c) ==
    LET s == run[a].session IN
    /\ At(a, "model")
    /\ Iterates(run[a].left)
    /\ run' = [run EXCEPT ![a].stage = "calling", ![a].left = Counted(@)]
    /\ \/ checkpoint' = [checkpoint EXCEPT ![s] =
             [call |-> c, created |-> IF @ = NoCheckpoint THEN n ELSE @.created]]
       \/ UNCHANGED checkpoint
    /\ UNCHANGED <<n, row, summary, late, crashes, up, waiter, inbox, resolving,
                   queue, listed, todo, granted>>

\* The round's calls are done, each after as many gates as it had to pass.
RoundEnds(a) ==
    /\ At(a, "calling")
    /\ run' = [run EXCEPT ![a].stage = "model"]
    /\ UNCHANGED <<durable, late, crashes, up, waiter, inbox, resolving, queue,
                   listed, todo, granted>>

\* request, step 1: the durable row, for some call of the round. The bridge's
\* ShellExec gate records the call as its summary; the sentinel's gate and the
\* platform verbs record another text (sm = NoCall).
InsertRow(a, sm) ==
    /\ At(a, "calling")
    /\ n < MaxRequests
    /\ n' = n + 1
    /\ row' = [row EXCEPT ![n + 1] = "pending"]
    /\ summary' = [summary EXCEPT ![n + 1] = sm]
    /\ run' = [run EXCEPT ![a].stage = "inserted", ![a].id = n + 1]
    /\ UNCHANGED <<checkpoint, late, crashes, up, waiter, inbox, resolving, queue,
                   listed, todo, granted>>

\* request, step 2: the in-process waiter, and the announcement.
RegisterWaiter(a) ==
    /\ At(a, "inserted")
    /\ waiter' = waiter \cup {run[a].id}
    /\ run' = [run EXCEPT ![a].stage = "waiting"]
    /\ UNCHANGED <<durable, late, crashes, up, inbox, resolving, queue, listed,
                   todo, granted>>

\* request, step 3: the oneshot delivered. An approved call passes this gate.
Decided(a) ==
    LET i == run[a].id IN
    /\ At(a, "waiting")
    /\ inbox[i] # "none"
    /\ granted' = IF is_approved(inbox[i]) THEN granted \cup {i} ELSE granted
    /\ inbox' = [inbox EXCEPT ![i] = "none"]
    /\ waiter' = waiter \ {i}
    /\ run' = [run EXCEPT ![a].stage = "calling", ![a].id = NoId]
    /\ UNCHANGED <<durable, late, crashes, up, resolving, queue, listed, todo>>

\* request, step 3: the timer fires on an empty oneshot; its receiver is gone.
TimerFires(a) ==
    /\ At(a, "waiting")
    /\ inbox[run[a].id] = "none"
    /\ run[a].id <= late
    /\ run' = [run EXCEPT ![a].stage = "stamping"]
    /\ UNCHANGED <<durable, late, crashes, up, waiter, inbox, resolving, queue,
                   listed, todo, granted>>

resolve_pending_approval_Overwrites(i, d) ==
    row[i] # "absent" /\ row' = [row EXCEPT ![i] = d]

\* UPDATE ... WHERE decision_json IS NULL.
resolve_pending_approval(i, d) ==
    row[i] = "pending" /\ row' = [row EXCEPT ![i] = d]

\* The timeout is stamped, and the caller is told TimedOut in any case: the
\* stamp may find the row decided, or fail in the store and leave it pending.
StampTimeout(a) ==
    LET i == run[a].id IN
    /\ At(a, "stamping")
    /\ \/ resolve_pending_approval(i, "timed_out")
       \/ UNCHANGED row
    /\ inbox' = [inbox EXCEPT ![i] = "none"]
    /\ waiter' = waiter \ {i}
    /\ run' = [run EXCEPT ![a].stage = "calling", ![a].id = NoId]
    /\ UNCHANGED <<n, summary, checkpoint, late, crashes, up, resolving,
                   queue, listed, todo, granted>>

DashboardResolves_IgnoresLanded(i, d) ==
    /\ up
    /\ row[i] # "absent"
    /\ row' = [row EXCEPT ![i] = IF @ = "pending" THEN d ELSE @]
    /\ resolving' = resolving \cup {<<i, d>>}
    /\ UNCHANGED <<n, summary, checkpoint, late, crashes, up, run, waiter, inbox,
                   queue, listed, todo, granted>>

\* resolve: the durable decision, first; a row that is already decided (or
\* missing), or a store that fails, turns the call into an error that leaves no
\* trace. Called by the management API.
DashboardResolves(i, d) ==
    /\ up
    /\ resolve_pending_approval(i, d)
    /\ resolving' = resolving \cup {<<i, d>>}
    /\ UNCHANGED <<n, summary, checkpoint, late, crashes, up, run, waiter, inbox,
                   queue, listed, todo, granted>>

\* The owner taps a button of the card, or types its reply: an event for the
\* bot. A card stays in the chat across restarts. (An answer to a row that is
\* decided is refused when it is read, like one that is overtaken in the queue.)
ChatAnswers(i, d) ==
    /\ up
    /\ row[i] = "pending"
    /\ \A a \in Actors : run[a].id = i => run[a].stage # "inserted"
    /\ \A e \in ChatReplies : <<i, e>> \notin queue
    /\ queue' = queue \cup {<<i, d>>}
    /\ UNCHANGED <<durable, late, crashes, up, run, waiter, inbox, resolving, listed,
                   todo, granted>>

\* The event loop reads the answer, when it is not inside another event. The
\* event is gone even if resolve fails, on a decided row or in the store.
LoopResolves(i, d) ==
    /\ At("loop", "idle")
    /\ <<i, d>> \in queue
    /\ queue' = queue \ {<<i, d>>}
    /\ \/ /\ resolve_pending_approval(i, d)
          /\ resolving' = resolving \cup {<<i, d>>}
       \/ UNCHANGED <<row, resolving>>
    /\ UNCHANGED <<n, summary, checkpoint, late, crashes, up, run, waiter, inbox,
                   listed, todo, granted>>

\* resolve goes on to wake the waiter, when there is one.
WakeWaiter(i, d) ==
    /\ up
    /\ <<i, d>> \in resolving
    /\ resolving' = resolving \ {<<i, d>>}
    /\ IF i \in waiter
       THEN /\ waiter' = waiter \ {i}
            /\ inbox' = [inbox EXCEPT ![i] = d]
       ELSE UNCHANGED <<waiter, inbox>>
    /\ UNCHANGED <<durable, late, crashes, up, run, queue, listed, todo, granted>>

\* The oldest row that is not past its expires_at gets there.
Expire ==
    /\ late < n
    /\ late' = late + 1
    /\ UNCHANGED <<durable, crashes, up, volatile, granted>>

Crash ==
    /\ up
    /\ crashes < MaxCrashes
    /\ crashes' = crashes + 1
    /\ up' = FALSE
    /\ run' = [a \in Actors |-> Idle]
    /\ waiter' = {}
    /\ inbox' = [i \in Ids |-> "none"]
    /\ resolving' = {}
    /\ queue' = {}
    /\ listed' = FALSE
    /\ todo' = {}
    /\ UNCHANGED <<durable, late, granted>>

\* init.rs: the boot sweep denies expired rows, unless it fails. It also drops the checkpoint
\* of each, found by approval_id, which no checkpoint carries.
Boot ==
    /\ ~up
    /\ up' = TRUE
    /\ \/ row' = [i \in Ids |-> IF row[i] = "pending" /\ i <= late
                               THEN "timed_out" ELSE row[i]]
       \/ UNCHANGED row
    /\ UNCHANGED <<n, summary, checkpoint, late, crashes, volatile, granted>>

----------------------------------------------------------------------------
\* resume_orphaned_loops reads the table, while the event loop already runs.
ResumerLists ==
    /\ up /\ ~listed
    /\ listed' = TRUE
    /\ todo' = {[session |-> s, call |-> checkpoint[s].call, created |-> checkpoint[s].created] :
                   s \in {t \in Sessions : checkpoint[t] # NoCheckpoint}}
    /\ UNCHANGED <<durable, late, crashes, up, run, waiter, inbox, resolving, queue, granted>>

\* The list query failed: every checkpoint stays for the next boot.
ResumerListFails ==
    /\ up /\ ~listed
    /\ listed' = TRUE
    /\ UNCHANGED <<durable, late, crashes, up, run, waiter, inbox, resolving, queue,
                   todo, granted>>

\* find_approval_by_summary: the latest row of that summary since the instant.
Matching(cp) == {i \in Ids : i > cp.created /\ row[i] # "absent" /\ summary[i] = cp.call}
Latest(I) == CHOOSE i \in I : \A j \in I : j <= i

Verdict(cp) ==
    IF Matching(cp) = {} THEN "timed_out" ELSE row[Latest(Matching(cp))]

\* resume_one: a verdict that does not read as an approval, or no row at all,
\* ends the thread. A pending verdict is polled: no action.
ResumeDenied(cp) ==
    /\ At("resumer", "idle") /\ Current(cp)
    /\ Verdict(cp) # "pending"
    /\ ~ contains_approved(Verdict(cp))
    /\ delete_tool_loop_checkpoint(cp.session)
    /\ todo' = todo \ {cp}
    /\ UNCHANGED <<n, row, summary, late, crashes, up, run, waiter, inbox, resolving,
                   queue, listed, granted>>

\* An approval continues the thread: run_with_tools on the saved transcript.
ResumeApproved(cp) ==
    /\ At("resumer", "idle") /\ Current(cp)
    /\ contains_approved(Verdict(cp))
    /\ run' = [run EXCEPT !["resumer"] = Started(cp.session)]
    /\ UNCHANGED <<durable, late, crashes, up, waiter, inbox, resolving, queue,
                   listed, todo, granted>>

\* The saved tool calls do not parse (or name no connector), or, behind an
\* approval, the saved transcript does not: the checkpoint is dropped.
ResumeUnreadable(cp) ==
    /\ At("resumer", "idle") /\ Current(cp)
    /\ delete_tool_loop_checkpoint(cp.session)
    /\ todo' = todo \ {cp}
    /\ UNCHANGED <<n, row, summary, late, crashes, up, run, waiter, inbox, resolving,
                   queue, listed, granted>>

\* The lookup fails in the store: the checkpoint stays for the next boot.
ResumeLookupFails(cp) ==
    /\ At("resumer", "idle") /\ Current(cp)
    /\ todo' = todo \ {cp}
    /\ UNCHANGED <<durable, late, crashes, up, run, waiter, inbox, resolving, queue,
                   listed, granted>>

----------------------------------------------------------------------------
Gate(a) == RegisterWaiter(a) \/ Decided(a) \/ TimerFires(a) \/ StampTimeout(a)

Round(a) ==
    \/ ModelStops(a) \/ ModelFails(a) \/ RoundEnds(a)
    \/ \E c \in Calls : ModelCalls(a, c)
    \/ \E sm \in Calls \cup {NoCall} : InsertRow(a, sm)

Resume == \E cp \in todo : ResumeDenied(cp) \/ ResumeApproved(cp)

Next ==
    \/ \E s \in Sessions : Message(s)
    \/ \E a \in Actors : Round(a) \/ Gate(a)
    \/ \E i \in Ids, d \in Answers : DashboardResolves(i, d) \/ WakeWaiter(i, d)
    \/ \E i \in Ids, d \in ChatReplies : ChatAnswers(i, d) \/ LoopResolves(i, d)
    \/ Expire \/ Crash \/ Boot
    \/ ResumerLists \/ ResumerListFails \/ Resume
    \/ \E cp \in todo : ResumeUnreadable(cp) \/ ResumeLookupFails(cp)

Spec == Init /\ [][Next]_vars

\* Tasks are polled, time passes, a stopped daemon is started again and the
\* model call returns. tokio::select! takes a ready branch at random, so the
\* idle event loop does not pass an answer over for ever. Nobody has to answer,
\* and the store need not fail.
Fairness ==
    /\ \A a \in Actors : WF_vars(Gate(a) \/ Round(a))
    /\ WF_vars(\E i \in Ids, d \in Answers : WakeWaiter(i, d))
    /\ SF_vars(\E i \in Ids, d \in ChatReplies : LoopResolves(i, d))
    /\ WF_vars(Expire) /\ WF_vars(Boot) /\ WF_vars(ResumerLists) /\ WF_vars(Resume)

FairSpec == Spec /\ Fairness

----------------------------------------------------------------------------
TypeOK ==
    /\ n \in 0..MaxRequests
    /\ row \in [Ids -> {"absent", "pending"} \cup Decisions]
    /\ summary \in [Ids -> Calls \cup {NoCall}]
    /\ checkpoint \in [Sessions -> Checkpoints \cup {NoCheckpoint}]
    /\ late \in 0..n
    /\ crashes \in 0..MaxCrashes
    /\ up \in BOOLEAN
    /\ run \in [Actors -> Runs]
    /\ waiter \subseteq Ids
    /\ inbox \in [Ids -> Answers \cup {"none"}]
    /\ resolving \subseteq Ids \X Answers
    /\ queue \subseteq Ids \X ChatReplies
    /\ listed \in BOOLEAN
    /\ todo \subseteq TodoItems
    /\ granted \subseteq Ids

\* Whoever was told Approved finds the durable row approved, whatever the
\* dashboard, the chat, the timer, the boot sweep and a crash did in between
\* (chat_gate.rs, request and resolve).
GrantedWasApproved == \A i \in granted : row[i] = "approved"

\* What the gate holds in memory never runs ahead of the store: a decision on
\* its way to a waiter is the row's (chat_gate.rs, "Durable decision first").
MemoryFollowsStore ==
    /\ \A i \in Ids : i > n => row[i] = "absent"
    /\ \A r \in resolving : row[r[1]] = r[2]
    /\ \A i \in Ids : inbox[i] # "none" => row[i] = inbox[i]

\* A decided row is never decided again: not by a second answer, the timeout
\* stamp, or the sweep of a later boot (approvals.rs, resolve_pending_approval).
DecisionIsFinal ==
    [][\A i \in Ids : row[i] \in Decisions => row'[i] = row[i]]_vars

Resumed(D) ==
    run["resumer"].stage # "idle"
    => \E cp \in todo : /\ cp.session = run["resumer"].session
                        /\ \E i \in Matching(cp) : row[i] \in D

\* The resumer continues a thread only behind an answer to the call its
\* checkpoint names, given since the checkpoint was created: never behind a
\* pending, expired or missing row, even though it goes by a table that the
\* running event loop keeps changing (resume_one).
ResumedWasAnswered == Resumed({"approved", "denied_why"})

\* The resumer continues a thread only behind an approval (resume.rs:
\* "Denied / timed out -> notify the origin channel, drop the thread").
ResumedWasApproved == Resumed({"approved"})

\* A chat message does not hold the bot's event loop for ever, though nobody
\* may answer: every gate times out and the rounds are capped
\* (run_with_tools, request).
LoopReturns == run["loop"].stage # "idle" ~> run["loop"].stage = "idle"
=============================================================================

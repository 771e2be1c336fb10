# A TLA+ verification of Springtale

Springtale is a local-first automation and agent daemon: connectors bring
events in, rules and AI tool loops turn them into actions, formations of agents
share work on a blackboard, and a sentinel and an approval gate stand between
all of these and anything destructive. The daemon can be locked: everything an
unlocked daemon owns is torn down and built again at the next unlock. This
directory holds TLA+ models of the parts whose correctness depends on
interleaving, failure and order, the TLC configurations that check them, and
TLAPS proofs of the properties that matter most.

Paths below are relative to `src/crates/` unless they start with `src/`.

## 1. Inventory

| Part | State it keeps | Operations | How it interacts | What is hard | What makes it correct |
|---|---|---|---|---|---|
| Sentinel (`springtale-sentinel`) | breaker per connector, rate deque per connector, dead-man counter, session approvals | `evaluate`, `report_success`, `report_failure`, `record_user_interaction` | called by every dispatch, from many tasks at once | map guards dropped and taken again inside one method; waits of minutes inside `evaluate` | nothing destructive without an approval; thresholds hold under races |
| Step dispatch (`springtale-runtime/src/dispatch`) | chain state, breaker reports | `run_step` | calls the sentinel, then the connector, file, AI or dedupe arm | sleep between verdict and action, early returns past the report | the verdict is honoured |
| Chat approval gate (`springtale-runtime/src/approval`) | durable rows, in-process waiters | `request`, `resolve`, boot sweep | called by tool loops and the sentinel's bridge; answered by dashboard and chat | answer against timer, crash between store and wake-up | the row decides once and callers are told what it says |
| Chat tool loop and resumer (`springtale-bot/src/tool_runner`) | checkpoint per session | `run_with_tools`, `resume_orphaned_loops` | inside the event loop, and as a boot task beside it | restart while paused, two tasks on one table | no thread is continued without an answer |
| Bot event loop (`springtale-bot/src/runtime`) | queue of events, the formations | chat message, trigger event, cadence tick, command | single consumer; runs the tool loop inline | waiting inside a handler for a later event | it always comes back |
| Formation beat (`.../tick_steps/build_reports`) | chosen/active task, pending dispatch per member | decide, claim, act, gather, propose | blackboard, capability bridge, consensus | dispatches outlive a beat, panic, are held back by a cap | no member is stuck, no task runs without its vote |
| Consensus (`springtale-cooperation/src/consensus.rs`) | open votes, ballots, permits | propose, vote, resolve | opened by the beat, voted by commands, applied by the tick | duplicate votes, ties, deadline against quorum | a permit comes from a vote and is used once |
| Blackboard (`springtale-bot/src/cooperation/blackboard`) | task, claim and result keys | scan, claim, release, remove, post result | shared by all members | writes that fail for lack of fuel | claims follow who works |
| Membership, supervision, rally | members and their health | join, leave, reclaim, dissolve | between beats | leaving with work in flight | the slot and the claim are given back |
| Rule operations and trigger registry (`springtale-runtime/src/operations/rules`, `.../triggers`, `springtale-bot/src/handler/builtin`) | rows, engine copies, subscriptions, host handlers | create, update, delete, toggle, reassign, the chat commands, connector set-up, reload, removal | HTTP handlers, chat, recipes and boot on the same four maps | each operation awaits between the maps; ids restart with a new host | the four agree, no handler leaks, no rule goes deaf by another's detach |
| Scheduler, event loop and job queue (`springtale-scheduler`, `springtale-runtime/src/embedded.rs`) | cron jobs, watches, two bounded channels, permits | tick, match, enqueue, spawn, schedule, cancel | the event loop enqueues with the engine's read lock held, operations need it for writing | a full queue behind a lock, fair hand-over, stale matches | no stall; no job for a rule that is off |
| Daemon lock (`src/apps/springtaled/src/api/lock.rs`, `.../runtime/boot`) | the live world, the gate, the flock, background tasks | lock, unlock, auto-lock, shutdown | cuts under every request, job and stream | requests outlive the world, builds fail half-way, clients go away | one owner of the store; what was reported closed is closed |
| Login, tokens, stream tickets (`src/apps/springtaled/src/api/login.rs`, `auth.rs`) | session and ticket map per world, token rows | login, logout, mint, revoke, ticket, redeem | ahead of every route of the live router | late requests into a locked world, two uses of one ticket | dead credentials open nothing |
| Commit barrier (`springtale-cooperation/src/commit.rs`) | phase, ready and result sets | signal, execute, collect, tick | tick steps | late results after an abort | all or nothing |
| Vault and backup (`springtale-crypto`) | key files | open, rotate, backup, wipe | daemon and CLI | crash between two renames | some usable copy always exists |
| Dedupe, executions | seen keys, run records | check-and-record, status | dispatch arms | recorded before the work is done | an event is not lost |
| Conditions, transforms | none | evaluate | called by dispatch | none (pure) | agrees with its definition |
| WASM host, webhooks, AI adapters, MCP, transport, CLI, desktop, Python | sessions, caches | protocol I/O | at the edges | network | out of a model checker's reach, mostly |

`PROJECT.json` lists every part with its status, and the hazards of the code
line by line with the properties that cover them.

## 2. Modules

| Module | Models | Extends |
|---|---|---|
| `Impact` | `impact.rs`: `classify_impact` | |
| `CircuitBreaker` | `circuit_breaker.rs` as operators on one entry | |
| `RateLimiter` | `rate_limiter.rs` as operators on one deque | |
| `Sentinel` | concurrent `run_step` calls around `Sentinel::evaluate` | the three above |
| `ChatApproval` | gate, rows, tool loop, event loop, boot sweep, resumer | |
| `Beat` | one formation's beat, its blackboard and its votes | |
| `Consent` | abstract: what a vote on a destructive task promises | |
| `Rules` | a ConnectorEvent rule in store, engine, registry and host | |
| `TriggerLoop` | cron and watch triggers to running jobs, and the engine's lock | |
| `DaemonLock` | the guard's lock and unlock, worlds and their holders, shutdown | |
| `Login` | sessions, tokens and tickets of the live and the locked worlds | |
| `MC*` | the instances TLC checks | the component |
| `Sentinel_proofs`, `ChatApproval_proofs`, `Beat_proofs`, `Rules_proofs`, `TriggerLoop_proofs`, `DaemonLock_proofs`, `Login_proofs` | theorems | the component, `TLAPS` |

### Sentinel

A *fire* is one call of `run_step`. Its `pc` follows the code: the breaker check
(`idle`), the separate insertion of `HalfOpen` after the guard is dropped
(`half_open`), the limiter (`rate`), the dead-man counter (`dead_man`), the
approval decision (`gate`, `awaiting`), then the action (`running`), the separate
insertion of `Open` (`opening`), or the throttle sleep (`throttled`), which falls
through to the action as `step.rs` does. `breaker`, `window`, `deadman` and
`session` are the sentinel's own fields; `fresh`, `approved`, `failed` and
`admitted` are history and nothing reads them but the properties. An action
is a record of what the gates tell apart (kind, connector, name, manifest hints,
the kinds in a chain). Time is relative: ages saturate at `Horizon`, sleeps count
down. The arms' work is their outcome: a reported success, a reported failure
(only the arms whose value is a `Result` can fail that way) or an early return
that skips the report. The sub-steps of a chain call `run_step` again; they are
fires of their own here, which allows more interleavings than the code.

### ChatApproval

The durable variables (`row`, `summary`, `checkpoint`) survive `Crash`, the
others do not. `request` is `InsertRow`, `RegisterWaiter`, then `Decided` or
`TimerFires` and `StampTimeout`; `resolve` is the durable update
(`DashboardResolves` from the management API, `LoopResolves` from chat) and then
`WakeWaiter`. Two tasks run tool loops: the bot's event loop and the boot
resumer. The event loop reads a chat answer only when it is not inside a message
(`LoopResolves` needs it idle), because `handlers.rs` awaits `run_with_tools`
inline. Requests are numbered in the order of `requested_at`, so numbers also
serve as instants. A stored decision is `approved`, `denied`, `timed_out`, or
`denied_why`: a denial whose free-text reason contains the word the resumer
looks for. Every store call that may fail without stopping the code has its
failing branch: the checkpoint's write and its removal, the stamp of a timeout,
`resolve` from chat, the sweep, the list and the lookup. A checkpoint that
cannot be read back, before the wait or after it, is dropped without asking the
model (`ResumeUnreadable`).

### Beat and Consent

`phase` is where the event loop is in the tick. All members choose from the same
blackboard in `BeginBeat`; then they claim one by one, `act` starts dispatches up
to the cap, takes back what ended and carries over the rest, `Gather` posts
results, `Propose` opens votes, `Resolve` applies the ones that are over and
`Orchestrate` posts tasks. `Finish` runs beside all of it. A vote that is over
has an outcome for each way the code can go: `can_win` lets a tie fall either
way, because the code picks a maximum over a hash map. `Consent` counts
approvals, clearances and refusals only; the history variables of `Beat` are its
variables under the same names, which is the refinement mapping.

Abstractions: fuel is the choice whether a metered write succeeds; ballots come
with any agent id (`Voters`, which need not be members); members claim in any
order; a formation without operational members is dropped, so it only stutters
(`Dissolved`). Left out: abstentions (the vote command turns a yes or no into one
of the two options, `handle_command.rs:259`, and nothing else casts a ballot),
task dependencies and with them the per-agent inbox and the CBBA replan,
handoffs and the flexible chain pool, members joining, pausing, votes on intent
changes, `try_override` (it has no caller outside tests).

### Rules

A rule lives in four places: its `row` (text and status column), its copy in the
`engine`, its subscriptions in the registry (`active`) and its handlers on a
connector's `host`. No operation holds more than one of them at a time, so an
operation is a list of steps (`todo`), each what the code does between two
awaits, and two operations interleave between any two steps. `CreateRule`,
`UpdateRule`, `DeleteRule`, `EnableRule`, `DisableRule`, `ReassignRule` and
`CreateConnectorRule` are the management API's lists, `NewRuleCommand`,
`ToggleCommand` and `DelRuleCommand` those of the chat commands, which never
touch the registry; `RemoveConnectorCascade` works through a snapshot of the
table. A step that fails (an id already stored, a text the engine refuses, a row
already gone, a connector that refuses the event) ends or reroutes the call as
the code does. `SetupConnector` stands for set-up and hot reload, both of which
put a new host, counting its ids from 1, in the place of the old one. The
registry's read lock is held from `on_event` to the record of the entry
(`RegistryFree`), which is why no host is replaced in between. `Restart` keeps
the rows and boots: the engine loads the texts and `wire_connector_events`
attaches one rule for each connector and event.

Abstractions: a rule's text is its status or "does not compile"; conditions and
actions are left out; handlers carry the rule that attached them, which the
code's closure does not, for the properties.

### TriggerLoop

`channel` and `queue` are the two bounded channels. A cron job waits for room
(`CronTick`), the debouncer drops what does not fit (`FileChanges`). The event
loop receives, asks for the engine's read lock, matches, enqueues one job per
match with the lock held, and lets go. `lockq` is the order in which tokio's
lock grants. A rule operation is what it cancels or schedules before and after
its engine write, each of which may fail (a cron expression or a directory that is
refused, a watch that is not there); the operation goes on as the code does.
Only the rollback of `create_rule` keeps the write lock while it waits, for the
store (`create.rs:28-31`). The bodies of the jobs are module `Sentinel`'s subject and
only end here.

### DaemonLock and Login

A *world* is one `Live` of `lock.rs`: store, runtime, tasks, sessions, router.
`StateHeld`, `FlockHeld` and `StoreHeld` say who keeps which part of a world
alive: the guard's cell, a call with an `Arc`, a request whose router clone
carries the state, a background task with a clone, a job. A call of
`RuntimeGuard::lock` or `unlock` moves through the steps of the code (`at`): the
gate, the swap of the cell, the signal, the two maps, the two task lists, the
drop and the wait for the store's release; or the flock, the three stages of
`build_live` and the publication. A build can fail after each stage, and a
handler's future is dropped wherever it awaits when its client goes away
(`DropCall`); what is then left running without an owner is recorded in
`abandoned`. The boot resumer of a world is a holder on neither task list
(`event_loop.rs:33` is a bare `tokio::spawn`), so no lock ends it: it keeps its
store and its flock until `ResumerEnds`. `ServeReturns` waits for open connections as axum's graceful
shutdown does, and the daemon then locks itself.

`Login` looks at the same worlds from the credentials' side. Each world has its
session map and its ticket map; `rows` (`api_tokens`) outlive them. A request
stays in the world it was forwarded to, so it can still be on its way to a check
when that world has been cleared. `Unlock` requires that no request is left in
the world before, which is what `DaemonLock!OneOwner` shows of the flock; the
maps of that world may be uncleared, because the call that locked it was dropped.
`home`
and `spent` are history: where a credential was issued and whether it was
revoked, expired or redeemed.

Abstractions: hashing, cookies, CSRF and origin checks; a passphrase is right or
wrong; a session's age is a choice; an MCP session and the router's buffer
worker hold their state no longer than the last request; ephemeral stores, which
take no flock, are left out.

## 3. What the runs check

| Run | Instance | Shows |
|---|---|---|
| `sentinel` | 3 fires, 1 connector and the built-in one, 3 requests, a tier of 1 per window of 1 and one of 2 per window of 2, threshold 2, cooldown 1, dead-man 2 | `GoWasApproved`, `DeadManBound`, `OverThresholdIsOpening`, `OpenedByFailures`, `AdmittedWithinBudget` hold in 1.4 million states; the last says that a tier's limit holds within the shortest of the windows, because the tiers of a connector share a deque that each of them prunes |
| `approval` | 1 session, 2 requests, 2 rounds, 1 crash | `GrantedWasApproved`, `MemoryFollowsStore`, `ResumedWasAnswered`, `DecisionIsFinal` hold in 2.3 million states |
| `approval_live` | 2 sessions, 1 request, 2 rounds, 1 crash | `LoopReturns`: the event loop always comes back |
| `beat` | 2 members, 2 voters, 2 tasks, cap 1, 3 votes | `ActiveIsInFlight` and `AwaitingHasVote` hold, no more members have a destructive task in hand than approvals of it were given (`InHandIsApproved`), and the beat implements `Consent` (`KeepsPromise`), 1.0 million states |
| `rules` | 2 rules on one event, 2 callers, 3 operations or restarts, 4 subscriptions per host | `HandlersAccounted` (no handler leaks), `RecordedIsHeard` (a detach never deafens another rule while the host is the booted one), `RowsAreLoaded` (no stored rule silently missing from the engine), 525,000 states |
| `trigger_loop` | 1 cron and 1 watch rule, 1 operation at a time, 1 job slot, channels of one entry, at most 2 jobs per cron rule | `MatchesAreCurrent`, and under fairness `LoopComesBack` and `OperationReturns`, 468,000 states |
| `daemon_lock` | 1 handler, the timer and the exit, 2 requests/jobs/streams, 2 worlds, 1 dropped connection | `OneOwner`; `TasksAreOwned`: no task on a list outlives its world, unless its call was cut off; `ReleasedIsClosed`; and under fairness `CallReturns`, `LockedWorldEnds` (a locked world ends its streams, jobs and tasks, so that at most its resumer is left with a hold of the store) and `ShutdownCompletes` (a shutdown ends unless an open stream of the published world holds it up), 134,000 states |
| `login` | 2 requests at a time and 5 in all, 2 tokens (one from an earlier process), 2 tickets, 2 worlds | `DeadStaysDead`, `TicketOpensOne`, `ClearedIsFinal`, 665,000 states |

Four more runs state what a document, a comment or a test of the repository
says and show a behaviour of the code that differs. Each is a finding in
`PROJECT.json` with the quotation.

| Run | Property | What happens |
|---|---|---|
| `sentinel_throttle` | `DestructiveNeedsHuman` | after a throttle sleep the action runs without being evaluated again |
| `approval_reason` | `ResumedWasApproved` | a denial with a certain word in its reason reads as an approval |
| `rules_toggle` | `ToggledInBoth` | the store's toggle changes the status column, the engine reloads the text, whose status is the old one |
| `trigger_cron` | `OwnSchedule` | a tick of one cron rule starts a job of every enabled cron rule |

**Bounds.** Three fires are enough for two reports to cross a threshold of two
while a third is between its guard and its insertion; the limits and windows are
the smallest that can be full and empty again. Two requests are enough for an
answer to one to meet the other, and for the resumer to find an older row than
the one it waits on; one crash, at any point, is enough to reach the sweep and
the resumer. Two members are enough for a double choice and a carry-over beside a
decision, two voters for a quorum and a tie; three votes for a duplicate vote and one after it; a cap of
one so that dispatches are held back. Two rules on one event and two callers let
any two operations overlap, on one rule or on two, with a third operation,
reload or restart anywhere in between; four subscriptions are more than three
operations use, so the limit never hides a step. Channels of one entry are full
as soon as anything is in them, which is the case the trigger loop's order of
waiting is about. Two worlds are enough for a straggler of one to meet the
other; two requests for one to present what the other has just used. For the
safety properties proved below the bounds do not matter. Symmetry is used over
fires, members, voters, rules and callers, requests and tickets, in runs without
liveness properties.

**Deadlock** is checked in every run in which the system cannot stop: time,
restarts, idle callers and the dissolved formation always leave a step. It is
not checked in `daemon_lock`, because the daemon stops for good there, and in
`login`, whose worlds and credentials are used up.

**Fairness.** `ChatApproval`: tasks that can go on are polled (weak fairness of
a loop's rounds and gates, of the wake-up, of the resumer), model calls return
or fail (the adapters have timeouts), time passes, a stopped daemon is started
again. `tokio::select!` takes a ready branch at random, so the idle event loop
does not pass over a queued answer for ever (strong fairness of `LoopResolves`).
Nobody has to answer a request. `TriggerLoop`: the loop, the consumer and the
operations are polled, and a job ends, because its connector calls (30 s), WASM
calls (30 s), sleeps and approvals have limits; no schedule has to fire.
`DaemonLock`: a call that is in its steps goes on, a request or job ends (same
limits), a stream that may end does; a stream's client owes nothing, and nobody
has to ask for a lock, an unlock or a shutdown. Neither the auto-lock timer nor
the resumer is fair: every inbound chat message puts the idle clock back, also
while the listener drains, and the resumer waits for people. Fair mutexes and read-write locks are not a fairness
assumption: tokio grants in order of request and the models have the queues.

**Mutants.** Every property of a passing run has a mutant of the definition it
guards (`*_PriorCount`, `*_NotDenied`, `*_Unlocked`, ...), kept beside that
definition, with which TLC finds the property violated.

## 4. What is proved

All theorems hold for every value of the constants that satisfies the modules'
assumptions (`SentinelAssumption`, `ChatApprovalAssumption`, `BeatAssumption`,
`RulesAssumption`, `TriggerLoopAssumption`, `DaemonLockAssumption`,
`LoginAssumption`): limits and thresholds are naturals, the "none" values are not
members of the sets they complete, ages saturate beyond the longest window,
members and rule writers are finitely many. Rules, connectors, callers, fires and
requests may be any sets, finite or not.

- `Sentinel_proofs`. `TypeCorrect`. `GoIsApproved`: the invariant adds that each
  key in `session` was put there by an approved fire; the property alone does not
  say where a key came from. `DeadManHolds`: the fires counted since the last
  reset hold different tickets, none above the counter, and only tickets up to
  the threshold get past the switch, so those with a Go are an injection into
  `1..DeadManThreshold`. `CrossingIsOpening`: whoever crosses the threshold is
  in `opening` until its insertion replaces the entry, so the property is
  inductive with the type invariant. `OpenedByOwnFailures`: the count of a Closed
  entry never runs ahead of the failures its connector has reported, and whoever
  is between a guard and the insertion of `HalfOpen` or `Open` has `Threshold` of
  them behind it (`FailuresInv`); a fire reports once, so a report adds exactly
  one. `LimitHolds`: the deque is the tail of the history of admissions, and each
  admission it has lost is older than some tier's window (`Mirrors`), so the
  length that `check_with_budget` compares with the limit bounds the admissions
  within any window as short as all of them. With one window for every tier that
  is the tier's own; a statement about the longer of two windows is false, since
  Cold prunes for the others (section 5).
- `ChatApproval_proofs`. `TypeCorrect`. `StoreFirst`: resolving calls and filled
  oneshots agree with the row; inductive as it stands. `DecisionsAreFinal`: an
  action property, because every write of a row goes through the
  decided-once update, the insertion of a fresh number (which `StoreFirst` shows
  absent) or the sweep of pending rows. `GrantsAreApproved` rests on both.
  `ResumedAreAnswered`: the checkpoint the resumer is working on stays in its
  list while it works, and a matching answered row stays one, since rows and
  summaries are final.
- `Beat_proofs`. `TypeCorrect`, strengthened by "nothing is collected outside
  act and gather". `NobodyIsStuck` needs three facts about the beat: whoever has
  chosen is free, whoever has a queued or running dispatch of this beat or is
  carried owns a task, and whoever owns a task has one of these.
  `BeatKeepsPromise` (refinement of `Consent`): a permit stands for an approval
  not used yet, what is on the board, chosen, proposed or voted on was posted
  before, and a refused task is off the board and not chosen, so no later claim
  finds it. `WaitingIsForAVote`: every step that closes a vote also closes the
  wait for its task, and there is room for every vote about to be opened.
  `WhatRunsIsApproved`: the holders of a destructive task are no more than the
  clearances given (`HoldersWereCleared`: a member joins them only where
  `ClaimCleared` uses up a permit), and `PermitsAreUnused` bounds the clearances by
  the approvals.
- `Rules_proofs`. One invariant carries all four properties, since each needs
  the calls in progress. `Calls` says what the code does next to what: an insert
  is followed by the engine's add or replace, a removal by the erasure of the
  row, every step that writes has been given or has found what it writes, and
  only a call that is recording or removing has subscriptions in hand.
  `NoHandlerLeaks` needs no more: a subscription goes from the host to a hand,
  from there to the map, from the map to a hand and off the host.
  `RecordsAreHeard` needs `Issued`: on a host not replaced since boot an id was
  given out once, so one rule has it on record or one call in hand and a detach
  by id cannot meet another rule's handler; boot starts that way because the ids
  of a wiring are an injection into the host's count. `StoredIsLoaded` needs
  `InvalidKnown`: a toggle that has read a text that does not compile finds the
  rule already refused, or its creator still about to offer the text to the
  engine, so the copy the toggle drops is not one that anybody had loaded.
- `DaemonLock_proofs`. The gate lets one call in at a time and a call between two
  steps holds it (`OneInside`); while a world is built none is published
  (`Building`); what a lock has shut down stays down (`TornDown`); nobody has a
  world that was not started (`Known`); the exit's own lock comes when serving is
  over (`ExitLast`). `OneWorldOwnsTheStore`: every holder got its world from
  another holder, except the call that builds and has found the flock free.
  `NoStrayTasks` and `ReleasedStaysClosed` follow: holders of a world that is not
  published only let go. `NoStrayTasks` speaks of the tasks on the two lists; the
  resumer, which is on neither, only lets go as well (`ResumerKeeps`), and a world
  is reported released only when it has.
- `Login_proofs`. `TypeCorrect`. `DeadCredentialsStayDead`: the property speaks
  of the moment a request came in, so the invariant has to carry death forward.
  Its parts: the published world is the newest one (`Published`); what is in a
  map, or in the table, is where it was issued and was not spent (`Stored`);
  requests present only what was issued (`Presented`) and are in the newest
  world (`InNewest`), since an unlock waits for them; and a credential that was
  dead when its request came in is dead now (`StaleIsDead`).
  `OneStreamPerTicket`: streams opened and requests between redemption and
  opening add up to at most one for each ticket, and to none while the ticket is
  in the map (`OneUse`). `ClearIsFinal`, an action property: a session of a world
  is looked up in a map that stays empty for every token issued before the clear,
  and a token a late login mints after it is known to no request that is already
  at its check (`Cleared`).
- `TriggerLoop_proofs`. `TypeCorrect`, with the capacities of both channels and
  the bound on cron jobs; the bound needs the operations that are yet to
  schedule one counted with the jobs (`Promised`). `JobsAreOfEnabledRules`: the
  loop has matches in hand only while it holds the read lock (`OnlyWithLock`),
  and a write is granted only when it does not.

Each invariant was checked with TLC on the instance of its run before it was
proved.

Only model-checked: `LoopReturns`, `LoopComesBack`, `OperationReturns`,
`CallReturns`, `LockedWorldEnds` and `ShutdownCompletes` (liveness under fairness
is out of the proof system's reach, as is `ENABLED`). Every other property of a
passing run is a theorem. No module here uses `RECURSIVE`, and nothing rests on
induction over data.

## 5. Observations without a run

What the models allow, following the code, and a reader may want to know.

**Sentinel and dispatch.** A half-open breaker admits any number of concurrent
actions until the first reports (`circuit_breaker.rs:55`; the comment at line 9
speaks of one test action). The Cold tier prunes the shared deque with its
shorter window (`rate_limiter.rs:74`), so that a Hot caller can be admitted more
often than its limit within its own, longer window. The checks of `evaluate` are minutes old
when a human approves (`sentinel.rs:202`). `record_user_interaction` has no
caller outside tests (`sentinel.rs:242`).

**Approvals.** A timeout whose stamp fails leaves its row pending, and the caller
has been told that it timed out, until the next boot's sweep
(`chat_gate.rs:112-115`). A chat answer waits behind the tool loop that waits for it, until
expiry (`handlers.rs:523`, `trigger_dispatch.rs:83-85`). Nobody stamps an expired
row in the process whose resumer polls it (`resume.rs:103`). Row and checkpoint
are joined by summary text (`approvals.rs:265`); no checkpoint carries an
`approval_id`, so the sweep's removal of a swept row's checkpoint never matches
one. The sentinel's and the platform verbs' requests have a summary of another
form than the resumer looks for: such a thread is dropped after a restart. A
resumed thread asks the model again and passes the gate again; the header of
`resume.rs` speaks of executing the persisted calls.

**Formations.** Two members can claim and run one task in one beat
(`cooperative.rs:139`, `prepare.rs:2-3`). A tie can mint a permit
(`consensus.rs:242`), where `resolve_consensus.rs:104-105` speaks of an explicit
quorum majority only; the tie falls as the hash map's iteration order has it. The cap counts this beat's dispatches only (`act.rs:63`). A
leaving member's claim is never released (`formation.rs:791`). An inbox copy
outlives its task (`post.rs:128`). `continue_active_task`'s 300-tick release
cannot be reached: a member that decides has no active task
(`ActiveIsInFlight`). The commit barrier's `collect` has no phase guard
(`commit.rs:305`); only tests start a commit.

**Rules.** After a reload or set-up the registry keeps the ids of the old host;
since a new host counts from 1 again, detaching such a rule can remove another
rule's handler (`subscription.rs:32-34`), and the rules of that connector stay
deaf until they are attached again (`registry.rs:212` `reload_connector` has no
caller). `RecordedIsHeard` says so by its exemption. Boot wires one rule for each
connector and event, so detaching that rule deafens the others, while attaching
at run time fires every matching rule once for each handler
(`wire.rs:47-49`). `update_rule` and reassignment always fail on a stored rule,
because the insert refuses its id, and have by then detached it
(`lifecycle.rs:59`). A toggle overlapping a delete can put the rule back into the
engine without a row; a create overlapping a delete, or `/delrule` at any time,
can leave a live trigger without a rule. A cascade stops half-way when one of its
rows is already gone. A WASM host returns a placeholder subscription.

**Triggers.** Boot schedules disabled rules too. Cron jobs are kept by rule name
and re-enabling adds another one; cancelling a watch drops the directory for
every rule that names it; `/delrule` leaves the cron job ticking. An update whose text the engine refuses
leaves the engine without the rule. A file event is
matched the way a cron event is: any of them matches every FileWatch rule.
`max_attempts` of a job is stored and never used.

**Lock.** A world that is locked while its resumer polls a row nobody answers
(`event_loop.rs:33`, `resume.rs:95-104`) keeps its store and its flock, so the
lock is reported without a release and later unlocks are refused until the
process restarts, there being no gate left to answer through; the comment at `lock.rs:74-75` has nothing of
the world survive a lock. A `build_live` that fails after `springtale_runtime::init` leaves its
tasks running with the store open, and after `init_bot` also with the flock, so
that later unlocks fail until the process restarts; the comment at
`pipeline.rs:47-49` has every `Arc` reachable from the `Live`. A client that
disconnects during a lock or an unlock has the same effect (`abandoned`). Jobs
already spawned run on after a lock, and a queued one can still start during it.
A lock call locks the world that is live when it gets the gate, which may be a
newer one than it authenticated against or found idle. A stream whose client
stays holds up a graceful shutdown until the auto-lock timer fires: for as long
as chat messages keep coming, since each puts the idle clock back
(`operations/connectors/chat.rs:51-56`), and for good with the timer disabled.

## 6. Plan

1. Done: `Sentinel` with its parts; `ChatApproval`; `Beat` and `Consent`;
   `Rules`; `TriggerLoop`; `DaemonLock`; `Login`.
2. Done: every safety property the runs check is proved for all values of the
   constants.
3. `DispatchChain`: chain state, dedupe records and execution records under
   failure (`step.rs:441` records a key before the later steps have run).
4. `CommitBarrier`: the phases of `commit.rs` under late results and member
   loss, against an abstract all-or-nothing commit.
5. `VaultFiles`: file replacement, backup and wipe under crashes.
6. `Beat` with task dependencies, the inbox, the replan and joins; the momentum
   ladder, the handoff log and the webhook replay window as smaller modules.

## 7. Not modelled

Cryptography, network and file formats, prompt building and parsing of model
text, the numeric scores of the cooperation framework, conditions and transforms
of rules (pure functions of a payload), user interfaces and protocol adapters
over the operations above, and vendored SQLite, whose transactions are taken to
be atomic. The commit barrier, the vault's files and the dedupe and execution
records are planned.

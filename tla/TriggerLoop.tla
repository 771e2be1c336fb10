---------------------------- MODULE TriggerLoop ----------------------------
(***************************************************************************)
(* From a trigger to a running job, as springtale-runtime/src/embedded.rs  *)
(* wires it: cron jobs and filesystem watches (springtale-scheduler) send  *)
(* events into one bounded channel; one event loop matches each event      *)
(* against the rule engine and, STILL HOLDING the engine's read lock,      *)
(* enqueues one job per matching rule into a second bounded channel; a     *)
(* consumer starts jobs as its semaphore allows.  Rule operations need the *)
(* same engine lock for writing (operations/rules/, handler/builtin/), and *)
(* register and cancel the triggers around it.                             *)
(*                                                                         *)
(* The engine's lock is tokio's RwLock, which grants in order of request.  *)
(* A write is done at once when it is granted, but for one: create_rule    *)
(* takes a refused rule out of the store again with the lock still held.   *)
(* What status an operation leaves is a choice here; module Rules has what *)
(* it is.                                                                  *)
(***************************************************************************)
EXTENDS Naturals, Sequences, FiniteSets

CONSTANTS
    CronRules,      \* rules with a Cron trigger
    WatchRules,     \* rules with a FileWatch trigger
    Paths,          \* directories
    PathOf,         \* the directory a FileWatch rule names
    Writers,        \* rule operations in progress
    Slots,          \* the consumer's permits
    TriggerCap,     \* capacity of the trigger channel
    JobCap,         \* capacity of the job channel
    MaxJobs,        \* bound: cron jobs under one rule's name
    None            \* no rule

Rules == CronRules \cup WatchRules

ASSUME TriggerLoopAssumption ==
    /\ CronRules \cap WatchRules = {}
    /\ PathOf \in [WatchRules -> Paths]
    /\ None \notin Rules
    /\ "loop" \notin Writers /\ IsFiniteSet(Writers)
    /\ TriggerCap \in Nat \ {0} /\ JobCap \in Nat \ {0} /\ MaxJobs \in Nat \ {0}
    /\ Slots # {}

Status == {"enabled", "disabled"}

\* A TriggerEvent: a cron event names the rule whose schedule fired, a
\* filesystem event the directory.
Event == [kind : {"cron"}, of : CronRules] \cup [kind : {"watch"}, of : Paths]
NoEvent == [kind |-> "none", of |-> None]
KindOf(r) == IF r \in CronRules THEN "cron" ELSE "watch"

Job == [rule : Rules, event : Event]

\* A rule operation: what it does before, in and after its engine write.
Op == [rule : Rules \cup {None}, stage : {"idle", "before", "lock", "rollback", "after"},
       set : Status \cup {"absent"}, before : {"none", "unschedule"},
       after : {"none", "schedule", "unschedule"}]
NoOp == [rule |-> None, stage |-> "idle", set |-> "absent",
         before |-> "none", after |-> "none"]

VARIABLES
    engine,     \* RuleEngine.rules: rule -> status, or "absent"
    jobs,       \* CronExecutor.jobs: how many run under the rule's name
    watched,    \* FsWatcher.watched_paths
    channel,    \* the trigger channel
    loop,       \* the event loop: its event, and the matches left to enqueue
    lockq,      \* who waits for the engine's lock, in order
    queue,      \* the job channel
    consumer,   \* whether the consumer holds a job and waits for a permit
    running,    \* the permits whose jobs run
    op          \* writer -> its rule operation

vars == <<engine, jobs, watched, channel, loop, lockq, queue, consumer, running, op>>

Init ==
    \* bootstrap schedules every stored rule once, the disabled ones and those
    \* the engine has refused too; a schedule or a watch may fail
    /\ engine \in [Rules -> Status \cup {"absent"}]
    /\ jobs \in [CronRules -> {0, 1}]
    /\ watched \in SUBSET {PathOf[r] : r \in WatchRules}
    /\ channel = <<>>
    /\ loop = [at |-> "recv", event |-> NoEvent, left |-> {}]
    /\ lockq = <<>>
    /\ queue = <<>>
    /\ consumer = FALSE
    /\ running = {}
    /\ op = [w \in Writers |-> NoOp]

(***************************************************************************)
(* Trigger sources                                                         *)
(***************************************************************************)

\* The two channels are bounded (by 256 and 100, as bootstrap makes them).
has_room_OffByOne(ch, cap) == Len(ch) <= cap
has_room(ch, cap) == Len(ch) < cap

\* cron_loop wakes up and sends; a full channel makes it wait.
CronTick(r) ==
    /\ jobs[r] > 0
    /\ has_room(channel, TriggerCap)
    /\ channel' = Append(channel, [kind |-> "cron", of |-> r])
    /\ UNCHANGED <<engine, jobs, watched, loop, lockq, queue, consumer, running, op>>

\* The debouncer's callback uses try_send: a full channel loses the event.
FileChanges(d) ==
    /\ d \in watched
    /\ channel' = IF has_room(channel, TriggerCap)
                  THEN Append(channel, [kind |-> "watch", of |-> d]) ELSE channel
    /\ UNCHANGED <<engine, jobs, watched, loop, lockq, queue, consumer, running, op>>

(***************************************************************************)
(* The event loop                                                          *)
(***************************************************************************)

\* Tasks wait for the lock in the order they asked.
asks_First(who) == <<who>> \o lockq
asks(who) == Append(lockq, who)

LoopReceives ==
    /\ loop.at = "recv" /\ channel # <<>>
    /\ loop' = [at |-> "lock", event |-> Head(channel), left |-> {}]
    /\ channel' = Tail(channel)
    /\ lockq' = asks("loop")
    /\ UNCHANGED <<engine, jobs, watched, queue, consumer, running, op>>

\* trigger_matches: any Cron event matches every Cron rule, any FileWatch
\* event every FileWatch rule.
trigger_matches(r, e) == KindOf(r) = e.kind
matches(e) == {r \in Rules : engine[r] = "enabled" /\ trigger_matches(r, e)}

\* create_rule waits for the store with the write lock held.
write_held == \E w \in Writers : op[w].stage = "rollback"

LoopMatches ==
    /\ loop.at = "lock" /\ lockq # <<>> /\ Head(lockq) = "loop" /\ ~write_held
    /\ lockq' = Tail(lockq)
    /\ loop' = [at |-> "enqueue", event |-> loop.event, left |-> matches(loop.event)]
    /\ UNCHANGED <<engine, jobs, watched, channel, queue, consumer, running, op>>

LoopEnqueues_Again ==
    /\ loop.at = "enqueue" /\ has_room(queue, JobCap)
    /\ \E r \in loop.left : queue' = Append(queue, [rule |-> r, event |-> loop.event])
    /\ UNCHANGED <<engine, jobs, watched, channel, loop, lockq, consumer, running, op>>

\* enqueue waits for room in the job channel, with the read lock held.
LoopEnqueues ==
    /\ loop.at = "enqueue" /\ has_room(queue, JobCap)
    /\ \E r \in loop.left :
          /\ queue' = Append(queue, [rule |-> r, event |-> loop.event])
          /\ loop' = [loop EXCEPT !.left = @ \ {r}]
    /\ UNCHANGED <<engine, jobs, watched, channel, lockq, consumer, running, op>>

LoopReleases ==
    /\ loop.at = "enqueue" /\ loop.left = {}
    /\ loop' = [at |-> "recv", event |-> NoEvent, left |-> {}]
    /\ UNCHANGED <<engine, jobs, watched, channel, lockq, queue, consumer, running, op>>

(***************************************************************************)
(* The consumer and its jobs                                               *)
(***************************************************************************)

ConsumerReceives ==
    /\ ~consumer /\ queue # <<>>
    /\ consumer' = TRUE
    /\ queue' = Tail(queue)
    /\ UNCHANGED <<engine, jobs, watched, channel, loop, lockq, running, op>>

\* A permit is free: the job runs in a task of its own.
ConsumerSpawns(s) ==
    /\ consumer /\ s \notin running
    /\ running' = running \cup {s}
    /\ consumer' = FALSE
    /\ UNCHANGED <<engine, jobs, watched, channel, loop, lockq, queue, op>>

\* The chain completes or fails; nothing retries it.  Dropping the permit
\* is the last thing the task does.
JobEnds(s) ==
    /\ s \in running
    /\ running' = running \ {s}
    /\ UNCHANGED <<engine, jobs, watched, channel, loop, lockq, queue, consumer, op>>

(***************************************************************************)
(* Rule operations                                                         *)
(***************************************************************************)

\* schedule adds a cron job or a watch; unschedule cancels one cron job of
\* that name, or every watch of that directory.  An expression that does not
\* parse and a path the watcher refuses leave things as they are.
rescheduled(r, what) ==
    \/ /\ what = "schedule" /\ r \in CronRules
       /\ jobs' = [jobs EXCEPT ![r] = @ + 1]
       /\ UNCHANGED watched
    \/ /\ what = "unschedule" /\ r \in CronRules /\ jobs[r] > 0
       /\ jobs' = [jobs EXCEPT ![r] = @ - 1]
       /\ UNCHANGED watched
    \/ /\ what = "schedule" /\ r \in WatchRules
       /\ watched' = watched \cup {PathOf[r]}
       /\ UNCHANGED jobs
    \/ /\ what = "unschedule" /\ r \in WatchRules
       /\ watched' = watched \ {PathOf[r]}
       /\ UNCHANGED jobs
    \/ /\ what = "unschedule" /\ r \in CronRules => jobs[r] = 0
       /\ UNCHANGED <<jobs, watched>>

Begin(w, r, s, before, after) ==
    /\ op[w] = NoOp
    /\ op' = [op EXCEPT ![w] = [rule |-> r, stage |-> "before", set |-> s,
                                before |-> before, after |-> after]]
    /\ UNCHANGED <<engine, jobs, watched, channel, loop, lockq, queue, consumer, running>>

\* The bound on cron jobs.
may_schedule(r) ==
    r \in CronRules => jobs[r] + Cardinality({v \in Writers : op[v].rule = r}) < MaxJobs

\* create_and_activate, and POST /rules/{id}/toggle with enabled: true (the
\* engine may refuse the text it reloads, and the trigger is scheduled still).
Activates(w, r, s) == may_schedule(r) /\ Begin(w, r, s, "none", "schedule")

\* POST /rules/{id}/toggle with enabled: false.
Deactivates(w, r, s) == engine[r] # "absent" /\ Begin(w, r, s, "none", "unschedule")

\* update_and_reactivate. (A text the engine refuses goes as Deletes does.)
Updates(w, r, s) ==
    /\ engine[r] # "absent" /\ may_schedule(r)
    /\ Begin(w, r, s, "unschedule", "schedule")

\* delete_and_deactivate; /delrule, which cancels nothing; /toggle.
Deletes(w, r) == engine[r] # "absent" /\ Begin(w, r, "absent", "unschedule", "none")
DelRuleCommand(w, r) == engine[r] # "absent" /\ Begin(w, r, "absent", "none", "none")
ToggleCommand(w, r, s) == engine[r] # "absent" /\ Begin(w, r, s, "none", "none")

WriterPrepares(w) ==
    /\ op[w].stage = "before"
    /\ rescheduled(op[w].rule, op[w].before)
    /\ op' = [op EXCEPT ![w].stage = "lock"]
    /\ lockq' = asks(w)
    /\ UNCHANGED <<engine, channel, loop, queue, consumer, running>>

\* A write lock is granted when its turn has come and no reader is left.
granted_Unlocked(w) == TRUE
granted(w) ==
    lockq # <<>> /\ Head(lockq) = w /\ loop.at # "enqueue" /\ ~write_held

WriterWrites(w) ==
    /\ op[w].stage = "lock" /\ granted(w)
    /\ engine' = [engine EXCEPT ![op[w].rule] = op[w].set]
    /\ lockq' = Tail(lockq)
    /\ op' = [op EXCEPT ![w].stage = "after"]
    /\ UNCHANGED <<jobs, watched, channel, loop, queue, consumer, running>>

\* create_rule: the engine refuses the new rule, and the row is taken out of
\* the store before the lock is let go; no trigger is scheduled.
CreateRefused(w) ==
    /\ op[w].stage = "lock" /\ granted(w)
    /\ op[w].before = "none" /\ op[w].after = "schedule"
    /\ engine[op[w].rule] = "absent"
    /\ lockq' = Tail(lockq)
    /\ op' = [op EXCEPT ![w].stage = "rollback"]
    /\ UNCHANGED <<engine, jobs, watched, channel, loop, queue, consumer, running>>

CreateRollsBack(w) ==
    /\ op[w].stage = "rollback"
    /\ op' = [op EXCEPT ![w] = NoOp]
    /\ UNCHANGED <<engine, jobs, watched, channel, loop, lockq, queue, consumer, running>>

WriterFinishes(w) ==
    /\ op[w].stage = "after"
    /\ rescheduled(op[w].rule, op[w].after)
    /\ op' = [op EXCEPT ![w] = NoOp]
    /\ UNCHANGED <<engine, channel, loop, lockq, queue, consumer, running>>

(***************************************************************************)
(* Specification                                                           *)
(***************************************************************************)

Operation(w, r) ==
    \/ \E s \in Status \cup {"absent"} : Activates(w, r, s) \/ Deactivates(w, r, s)
    \/ \E s \in Status : Updates(w, r, s) \/ ToggleCommand(w, r, s)
    \/ Deletes(w, r) \/ DelRuleCommand(w, r)

Writer(w) ==
    \/ WriterPrepares(w) \/ WriterWrites(w) \/ WriterFinishes(w)
    \/ CreateRefused(w) \/ CreateRollsBack(w)
Loop == LoopReceives \/ LoopMatches \/ LoopEnqueues \/ LoopReleases
Consumer == ConsumerReceives \/ \E s \in Slots : ConsumerSpawns(s)

Next ==
    \/ \E r \in CronRules : CronTick(r)
    \/ \E d \in Paths : FileChanges(d)
    \/ Loop \/ Consumer
    \/ \E s \in Slots : JobEnds(s)
    \/ \E w \in Writers : Writer(w) \/ \E r \in Rules : Operation(w, r)

Spec == Init /\ [][Next]_vars

\* The runtime polls every task that can go on.  Nothing makes a schedule
\* fire, a file change or a user act; a job ends because each of its steps
\* does (sleeps, approvals and calls have time limits).
Fairness ==
    /\ WF_vars(Loop) /\ WF_vars(Consumer)
    /\ \A s \in Slots : WF_vars(JobEnds(s))
    /\ \A w \in Writers : WF_vars(Writer(w))

FairSpec == Spec /\ Fairness

(***************************************************************************)
(* Properties                                                              *)
(***************************************************************************)

TypeOK ==
    /\ engine \in [Rules -> Status \cup {"absent"}]
    /\ jobs \in [CronRules -> 0..MaxJobs]
    /\ watched \in SUBSET Paths
    /\ channel \in Seq(Event) /\ Len(channel) <= TriggerCap
    /\ loop \in [at : {"recv", "lock", "enqueue"}, event : Event \cup {NoEvent},
                 left : SUBSET Rules]
    /\ lockq \in Seq(Writers \cup {"loop"})
    /\ queue \in Seq(Job) /\ Len(queue) <= JobCap
    /\ consumer \in BOOLEAN
    /\ running \in SUBSET Slots
    /\ op \in [Writers -> Op]

\* However long enqueueing takes, a job is only queued for a rule that is
\* enabled at that moment: a rule operation that has returned is never
\* followed by a job from a match made before it (embedded.rs holds the
\* read guard over the whole of the loop body).
MatchesAreCurrent == \A r \in loop.left : engine[r] = "enabled"

\* The event loop always comes back for the next event, though it waits for
\* room in the job channel while rule operations wait for it (embedded.rs).
LoopComesBack == (loop.at # "recv") ~> (loop.at = "recv")

\* A rule operation always gets the engine's lock, though the loop asks for
\* it again and again and keeps it while the job channel is full.
OperationReturns == \A w \in Writers : (op[w].stage # "idle") ~> (op[w].stage = "idle")

\* The doc of Trigger::Cron (springtale-core/src/rule/trigger.rs:13): "Fire
\* on a cron schedule", which a rule gives as its own expression.  The job
\* of a cron rule comes from that rule's schedule.
OwnSchedule ==
    \A i \in 1..Len(queue) :
        queue[i].rule \in CronRules => queue[i].event.of = queue[i].rule
=============================================================================

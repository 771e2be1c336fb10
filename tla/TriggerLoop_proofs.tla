------------------------- MODULE TriggerLoop_proofs -------------------------
(***************************************************************************)
(* Proofs about module TriggerLoop, for any rules, directories, rule       *)
(* operations, job slots and channel capacities.                           *)
(*                                                                         *)
(* MatchesAreCurrent rests on the event loop having matches in hand only   *)
(* while it holds the engine's read lock (OnlyWithLock).  The bound on     *)
(* cron jobs rests on counting the operations that are yet to schedule one *)
(* (Promised).                                                             *)
(***************************************************************************)
EXTENDS TriggerLoop, FiniteSetTheorems, SequenceTheorems, TLAPS

Pending(r) == {v \in Writers : op[v].rule = r /\ op[v].after = "schedule"}
Promised == \A r \in CronRules : jobs[r] + Cardinality(Pending(r)) <= MaxJobs
OnlyWithLock ==
    /\ loop.at # "recv" => loop.event \in Event
    /\ loop.at # "enqueue" => loop.left = {}

OpsHaveRules == \A w \in Writers : op[w].stage # "idle" => op[w].rule \in Rules

IInv == TypeOK /\ OpsHaveRules /\ Promised /\ OnlyWithLock /\ MatchesAreCurrent

-----------------------------------------------------------------------------
\* How many operations are about to schedule a rule is a number.
LEMMA PendingCounts ==
    ASSUME NEW r
    PROVE  IsFiniteSet(Pending(r)) /\ Cardinality(Pending(r)) \in Nat
<1>1. IsFiniteSet(Pending(r))
  BY TriggerLoopAssumption, FS_Subset DEF Pending
<1> QED
  BY <1>1, FS_CardinalityType

\* An idle writer is of no rule.
LEMMA NoOpType == NoOp \in Op /\ NoOp.rule = None /\ NoOp.after = "none"
  BY DEF NoOp, Op

\* bootstrap schedules each stored rule once.
LEMMA InitIInv == Init => IInv
<1> SUFFICES ASSUME Init PROVE IInv
  OBVIOUS
<1> USE TriggerLoopAssumption DEF Init
<1>1. TypeOK
  <2>1. jobs \in [CronRules -> 0..MaxJobs] /\ watched \subseteq Paths
    OBVIOUS
  <2>2. op \in [Writers -> Op]
    BY NoOpType
  <2>3. loop \in [at : {"recv", "lock", "enqueue"}, event : Event \cup {NoEvent}, left : SUBSET Rules]
    OBVIOUS
  <2>4. \A S : <<>> \in Seq(S)
    BY EmptySeq
  <2>5. Len(<<>>) = 0 /\ 0 <= TriggerCap /\ 0 <= JobCap
    OBVIOUS
  <2>6. channel \in Seq(Event) /\ queue \in Seq(Job) /\ lockq \in Seq(Writers \cup {"loop"})
    BY <2>4
  <2>7. Len(channel) <= TriggerCap /\ Len(queue) <= JobCap
    BY <2>5
  <2> QED
    BY <2>1, <2>2, <2>3, <2>6, <2>7 DEF TypeOK
<1>2. Promised
  <2>1. ASSUME NEW r \in CronRules PROVE Pending(r) = {}
    BY NoOpType DEF Pending, Rules
  <2>2. ASSUME NEW r \in CronRules PROVE jobs[r] \in Nat /\ jobs[r] <= MaxJobs
    OBVIOUS
  <2>3. Cardinality({}) = 0
    BY FS_EmptySet
  <2>4. ASSUME NEW r \in CronRules PROVE jobs[r] + Cardinality(Pending(r)) <= MaxJobs
    <3>1. Cardinality(Pending(r)) = 0
      BY <2>1, <2>3
    <3>2. jobs[r] \in Nat /\ jobs[r] <= MaxJobs
      BY <2>2
    <3> HIDE DEF Init
    <3> QED
      BY <3>1, <3>2
  <2> QED
    BY <2>4 DEF Promised
<1>3. OnlyWithLock /\ MatchesAreCurrent /\ OpsHaveRules
  BY DEF OnlyWithLock, MatchesAreCurrent, OpsHaveRules, NoOp
<1> QED
  BY <1>1, <1>2, <1>3 DEF IInv

\* Sources, the loop and the consumer: the operations and schedules stay.
LEMMA LoopKeeps ==
    ASSUME IInv,
           \/ \E r \in CronRules : CronTick(r)
           \/ \E d \in Paths : FileChanges(d)
           \/ Loop \/ Consumer
           \/ \E s \in Slots : JobEnds(s)
    PROVE  IInv'
<1> USE TriggerLoopAssumption DEF IInv
<1>1. UNCHANGED <<engine, jobs, watched, op>>
  BY DEF CronTick, FileChanges, Loop, LoopReceives, LoopMatches, LoopEnqueues, LoopReleases,
     Consumer, ConsumerReceives, ConsumerSpawns, JobEnds
<1>2. Promised' /\ OpsHaveRules'
  BY <1>1 DEF Promised, Pending, OpsHaveRules
<1>3. ASSUME NEW e \in Event, has_room(channel, TriggerCap), channel' = Append(channel, e)
      PROVE  channel' \in Seq(Event) /\ Len(channel') <= TriggerCap
  BY <1>3, AppendProperties, LenProperties DEF has_room, TypeOK
<1>4. ASSUME NEW r \in CronRules, CronTick(r) PROVE IInv'
  BY <1>1, <1>2, <1>3, <1>4 DEF CronTick, Event, TypeOK, OnlyWithLock, MatchesAreCurrent
<1>5. ASSUME NEW d \in Paths, FileChanges(d) PROVE IInv'
  BY <1>1, <1>2, <1>3, <1>5 DEF FileChanges, Event, TypeOK, OnlyWithLock, MatchesAreCurrent
<1>6. CASE LoopReceives
  <2>1. Head(channel) \in Event /\ Tail(channel) \in Seq(Event) /\ Len(Tail(channel)) <= TriggerCap
    BY <1>6, HeadTailProperties, LenProperties DEF LoopReceives, TypeOK
  <2>2. lockq' \in Seq(Writers \cup {"loop"})
    BY <1>6, AppendProperties DEF LoopReceives, asks, TypeOK
  <2> QED
    BY <1>1, <1>2, <1>6, <2>1, <2>2 DEF LoopReceives, TypeOK, OnlyWithLock, MatchesAreCurrent
<1>7. CASE LoopMatches
  <2>1. lockq' \in Seq(Writers \cup {"loop"})
    BY <1>7, HeadTailProperties DEF LoopMatches, TypeOK
  <2> QED
    BY <1>1, <1>2, <1>7, <2>1 DEF LoopMatches, matches, TypeOK, OnlyWithLock, MatchesAreCurrent
<1>8. CASE LoopEnqueues
  <2>1. PICK r \in loop.left : /\ queue' = Append(queue, [rule |-> r, event |-> loop.event])
                               /\ loop' = [loop EXCEPT !.left = @ \ {r}]
    BY <1>8 DEF LoopEnqueues
  <2>2. [rule |-> r, event |-> loop.event] \in Job
    BY <1>8 DEF LoopEnqueues, OnlyWithLock, TypeOK, Job
  <2>3. queue' \in Seq(Job) /\ Len(queue') <= JobCap
    BY <1>8, <2>1, <2>2, AppendProperties, LenProperties DEF LoopEnqueues, has_room, TypeOK
  <2>4. /\ loop'.at = loop.at /\ loop'.event = loop.event /\ loop'.left \subseteq loop.left
        /\ loop' \in [at : {"recv", "lock", "enqueue"}, event : Event \cup {NoEvent},
                      left : SUBSET Rules]
    BY <2>1 DEF TypeOK
  <2> QED
    BY <1>1, <1>2, <1>8, <2>3, <2>4 DEF LoopEnqueues, TypeOK, OnlyWithLock, MatchesAreCurrent
<1>9. CASE LoopReleases
  BY <1>1, <1>2, <1>9 DEF LoopReleases, TypeOK, OnlyWithLock, MatchesAreCurrent
<1>10. CASE Consumer
  <2>1. queue' \in Seq(Job) /\ Len(queue') <= JobCap
    <3>1. Len(queue) \in Nat /\ Len(queue) <= JobCap /\ queue \in Seq(Job)
      BY LenProperties DEF TypeOK
    <3>2. CASE queue' = Tail(queue) /\ queue # <<>>
      <4>1. Tail(queue) \in Seq(Job) /\ Len(Tail(queue)) = Len(queue) - 1
        BY <3>1, <3>2, HeadTailProperties
      <4> QED
        BY <3>1, <3>2, <4>1
    <3>3. CASE queue' = queue
      BY <3>1, <3>3
    <3> QED
      BY <1>10, <3>2, <3>3 DEF Consumer, ConsumerReceives, ConsumerSpawns
  <2> QED
    BY <1>1, <1>2, <1>10, <2>1 DEF Consumer, ConsumerReceives, ConsumerSpawns, TypeOK,
       OnlyWithLock, MatchesAreCurrent
<1>11. ASSUME NEW s \in Slots, JobEnds(s) PROVE IInv'
  BY <1>1, <1>2, <1>11 DEF JobEnds, TypeOK, OnlyWithLock, MatchesAreCurrent
<1> QED
  BY <1>4, <1>5, <1>6, <1>7, <1>8, <1>9, <1>10, <1>11 DEF Loop

\* An operation begins: one that is to schedule a cron job has room for it.
LEMMA OperationKeeps ==
    ASSUME IInv, NEW w \in Writers, NEW r \in Rules, Operation(w, r)
    PROVE  IInv'
<1> USE TriggerLoopAssumption DEF IInv
<1>1. PICK s \in Status \cup {"absent"}, b \in {"none", "unschedule"},
           a \in {"none", "schedule", "unschedule"} :
        /\ Begin(w, r, s, b, a)
        /\ a = "schedule" /\ r \in CronRules =>
              jobs[r] + Cardinality({v \in Writers : op[v].rule = r}) < MaxJobs
  BY DEF Operation, Activates, Deactivates, Updates, may_schedule, Deletes, DelRuleCommand,
     ToggleCommand, Status
<1> DEFINE n == [rule |-> r, stage |-> "before", set |-> s, before |-> b, after |-> a]
<1>2. n \in Op /\ n.rule = r /\ n.after = a
  BY <1>1 DEF Op
<1>3. /\ op[w] = NoOp /\ op' = [op EXCEPT ![w] = n]
      /\ UNCHANGED <<engine, jobs, watched, channel, loop, lockq, queue, consumer, running>>
  BY <1>1 DEF Begin
<1> HIDE DEF n
<1>4. TypeOK'
  BY <1>2, <1>3 DEF TypeOK
<1>5. Promised'
  <2> SUFFICES ASSUME NEW c \in CronRules
               PROVE  jobs'[c] + Cardinality(Pending(c)') <= MaxJobs
    BY DEF Promised
  <2>1. jobs'[c] = jobs[c] /\ jobs[c] \in Nat /\ jobs[c] + Cardinality(Pending(c)) <= MaxJobs
    BY <1>3 DEF TypeOK, Promised
  <2>2. CASE c = r /\ a = "schedule"
    <3> DEFINE V == {v \in Writers : op[v].rule = c}
    <3>1. IsFiniteSet(V) /\ Cardinality(V) \in Nat /\ w \notin V
      BY <1>3, NoOpType, FS_Subset, FS_CardinalityType DEF Rules
    <3>2. IsFiniteSet(V \cup {w}) /\ Cardinality(V \cup {w}) = Cardinality(V) + 1
      BY <3>1, FS_AddElement
    <3>3. Pending(c)' \subseteq V \cup {w}
      BY <1>3 DEF Pending, TypeOK
    <3>4. Cardinality(Pending(c)') \in Nat /\ Cardinality(Pending(c)') <= Cardinality(V) + 1
      BY <3>2, <3>3, FS_Subset, FS_CardinalityType
    <3> QED
      BY <1>1, <2>1, <2>2, <3>1, <3>4
  <2>3. CASE ~(c = r /\ a = "schedule")
    <3>1. Pending(c)' = Pending(c)
      BY <1>2, <1>3, <2>3, NoOpType DEF Pending, TypeOK, Rules
    <3> QED
      BY <2>1, <3>1
  <2> QED
    BY <2>2, <2>3
<1>6. OnlyWithLock' /\ MatchesAreCurrent' /\ OpsHaveRules'
  BY <1>2, <1>3 DEF OnlyWithLock, MatchesAreCurrent, OpsHaveRules, TypeOK
<1> QED
  BY <1>4, <1>5, <1>6

\* An operation that goes on to its next stage is still of the same rule.
LEMMA StageType ==
    ASSUME TypeOK, NEW w \in Writers, NEW st \in {"lock", "rollback", "after"},
           op' = [op EXCEPT ![w].stage = st]
    PROVE  /\ op' \in [Writers -> Op]
           /\ \A r : Pending(r)' = Pending(r)
<1>1. op \in [Writers -> Op] /\ op[w] \in Op
  BY DEF TypeOK
<1>2. [op[w] EXCEPT !.stage = st] \in Op
  BY <1>1 DEF Op
<1>3. op' = [op EXCEPT ![w] = [op[w] EXCEPT !.stage = st]]
  BY <1>1
<1>4. \A v \in Writers : op'[v].rule = op[v].rule /\ op'[v].after = op[v].after
  BY <1>1, <1>3 DEF Op
<1> QED
  BY <1>1, <1>2, <1>3, <1>4 DEF Pending

\* What schedule and unschedule leave: at most one cron job more.
LEMMA RescheduledType ==
    ASSUME TypeOK, NEW r \in Rules, NEW what \in {"none", "schedule", "unschedule"},
           rescheduled(r, what)
    PROVE  /\ watched' \subseteq Paths
           /\ DOMAIN jobs' = CronRules /\ jobs' = [c \in CronRules |-> jobs'[c]]
           /\ \A c \in CronRules :
                 /\ jobs'[c] \in Nat
                 /\ jobs'[c] <= jobs[c] \/ (c = r /\ what = "schedule" /\ jobs'[c] = jobs[c] + 1)
<1> USE TriggerLoopAssumption
<1>1. jobs \in [CronRules -> 0..MaxJobs] /\ watched \subseteq Paths
  BY DEF TypeOK
<1>2. CASE r \in CronRules /\ what = "schedule" /\ jobs' = [jobs EXCEPT ![r] = @ + 1] /\ UNCHANGED watched
  <2>1. jobs'[r] = jobs[r] + 1 /\ \A c \in CronRules \ {r} : jobs'[c] = jobs[c]
    BY <1>1, <1>2
  <2>2. jobs' = [c \in CronRules |-> jobs'[c]]
    BY <1>1, <1>2
  <2>3. \A c \in CronRules : jobs[c] \in Nat /\ jobs[c] <= jobs[c] /\ jobs[c] + 1 \in Nat
    BY <1>1
  <2> QED
    BY <1>1, <1>2, <2>1, <2>2, <2>3
<1>3. CASE r \in CronRules /\ jobs[r] > 0 /\ jobs' = [jobs EXCEPT ![r] = @ - 1] /\ UNCHANGED watched
  <2>1. jobs'[r] = jobs[r] - 1 /\ \A c \in CronRules \ {r} : jobs'[c] = jobs[c]
    BY <1>1, <1>3
  <2>2. jobs' = [c \in CronRules |-> jobs'[c]]
    BY <1>1, <1>3
  <2>3. \A c \in CronRules : jobs[c] \in Nat /\ jobs[c] <= jobs[c]
    BY <1>1
  <2>4. jobs[r] - 1 \in Nat /\ jobs[r] - 1 <= jobs[r]
    BY <1>3, <2>3
  <2> QED
    BY <1>1, <1>3, <2>1, <2>2, <2>3, <2>4
<1>4. CASE r \in WatchRules /\ watched' \subseteq watched \cup {PathOf[r]} /\ UNCHANGED jobs
  BY <1>1, <1>4
<1>5. CASE UNCHANGED <<jobs, watched>>
  BY <1>1, <1>5
<1> QED
  BY <1>2, <1>3, <1>4, <1>5 DEF rescheduled

\* An operation prepares, writes and finishes.
LEMMA WriterKeeps ==
    ASSUME IInv, NEW w \in Writers, Writer(w)
    PROVE  IInv'
<1> USE TriggerLoopAssumption DEF IInv
<1>1. op \in [Writers -> Op] /\ op[w] \in Op /\ (op[w].stage # "idle" => op[w].rule \in Rules)
  BY DEF TypeOK, OpsHaveRules
<1>2. CASE WriterPrepares(w)
  <2>1. /\ op[w].rule \in Rules /\ op[w].before \in {"none", "unschedule"}
        /\ rescheduled(op[w].rule, op[w].before)
        /\ op' = [op EXCEPT ![w].stage = "lock"]
        /\ UNCHANGED <<engine, channel, loop, queue, consumer, running>>
    BY <1>1, <1>2 DEF WriterPrepares, Op
  <2>2. op' \in [Writers -> Op] /\ \A r : Pending(r)' = Pending(r)
    BY <2>1, StageType
  <2>3. /\ watched' \subseteq Paths /\ jobs' = [c \in CronRules |-> jobs'[c]]
        /\ \A c \in CronRules : jobs'[c] \in Nat /\ jobs'[c] <= jobs[c]
    BY <2>1, RescheduledType
  <2>4. lockq' \in Seq(Writers \cup {"loop"})
    BY <1>2, AppendProperties DEF WriterPrepares, asks, TypeOK
  <2>5. jobs' \in [CronRules -> 0..MaxJobs]
    BY <2>3 DEF TypeOK
  <2>6. TypeOK'
    BY <2>1, <2>2, <2>3, <2>4, <2>5 DEF TypeOK
  <2>7. Promised'
    BY <2>2, <2>3, PendingCounts DEF Promised, TypeOK
  <2>8. OpsHaveRules'
    BY <1>1, <2>1 DEF OpsHaveRules, Op
  <2> QED
    BY <2>1, <2>6, <2>7, <2>8 DEF OnlyWithLock, MatchesAreCurrent
<1>3. CASE WriterWrites(w)
  <2>1. /\ op[w].rule \in Rules /\ op[w].set \in Status \cup {"absent"}
        /\ loop.at # "enqueue" /\ lockq # <<>>
        /\ engine' = [engine EXCEPT ![op[w].rule] = op[w].set]
        /\ lockq' = Tail(lockq) /\ op' = [op EXCEPT ![w].stage = "after"]
        /\ UNCHANGED <<jobs, watched, channel, loop, queue, consumer, running>>
    BY <1>1, <1>3 DEF WriterWrites, granted, Op
  <2>2. op' \in [Writers -> Op] /\ \A r : Pending(r)' = Pending(r)
    BY <2>1, StageType
  <2>3. lockq' \in Seq(Writers \cup {"loop"})
    BY <2>1, HeadTailProperties DEF TypeOK
  <2>4. engine' \in [Rules -> Status \cup {"absent"}]
    BY <2>1 DEF TypeOK
  <2>5. TypeOK'
    BY <2>1, <2>2, <2>3, <2>4 DEF TypeOK
  <2>6. Promised'
    BY <2>1, <2>2 DEF Promised
  <2>7. OpsHaveRules'
    BY <1>1, <2>1 DEF OpsHaveRules, Op
  <2> QED
    BY <2>1, <2>5, <2>6, <2>7 DEF OnlyWithLock, MatchesAreCurrent
<1>4. CASE WriterFinishes(w)
  <2>1. /\ op[w].rule \in Rules /\ op[w].after \in {"none", "schedule", "unschedule"}
        /\ rescheduled(op[w].rule, op[w].after)
        /\ op' = [op EXCEPT ![w] = NoOp]
        /\ UNCHANGED <<engine, channel, loop, lockq, queue, consumer, running>>
    BY <1>1, <1>4 DEF WriterFinishes, Op
  <2>2. /\ watched' \subseteq Paths /\ jobs' = [c \in CronRules |-> jobs'[c]]
        /\ \A c \in CronRules :
              /\ jobs'[c] \in Nat
              /\ \/ jobs'[c] <= jobs[c]
                 \/ c = op[w].rule /\ op[w].after = "schedule" /\ jobs'[c] = jobs[c] + 1
    BY <2>1, RescheduledType
  <2>3. op' \in [Writers -> Op]
    BY <1>1, <2>1, NoOpType
  <2>4. \A r \in Rules : Pending(r)' = Pending(r) \ {w}
    BY <1>1, <2>1, NoOpType DEF Pending
  <2>5. Promised'
    <3> SUFFICES ASSUME NEW c \in CronRules
                 PROVE  jobs'[c] + Cardinality(Pending(c)') <= MaxJobs
      BY DEF Promised
    <3>1. /\ jobs[c] \in Nat /\ jobs[c] + Cardinality(Pending(c)) <= MaxJobs
          /\ IsFiniteSet(Pending(c)) /\ Cardinality(Pending(c)) \in Nat
      BY PendingCounts DEF TypeOK, Promised
    <3>2. /\ Cardinality(Pending(c) \ {w}) =
               IF w \in Pending(c) THEN Cardinality(Pending(c)) - 1 ELSE Cardinality(Pending(c))
      BY <3>1, FS_RemoveElement
    <3>3. c = op[w].rule /\ op[w].after = "schedule" => w \in Pending(c)
      BY DEF Pending
    <3>4. Pending(c)' = Pending(c) \ {w}
      BY <2>4 DEF Rules
    <3> QED
      BY <2>2, <3>1, <3>2, <3>3, <3>4
  <2>6. jobs' \in [CronRules -> 0..MaxJobs]
    <3> SUFFICES ASSUME NEW c \in CronRules PROVE jobs'[c] \in 0..MaxJobs
      BY <2>2
    <3>1. Pending(c)' = Pending(c) \ {w}
      BY <2>4 DEF Rules
    <3>2. Cardinality(Pending(c) \ {w}) \in Nat
      BY PendingCounts, FS_Subset, FS_CardinalityType
    <3> QED
      <4>1. jobs'[c] + Cardinality(Pending(c)') <= MaxJobs
        BY <2>5 DEF Promised
      <4>2. jobs'[c] \in Nat /\ Cardinality(Pending(c)') \in Nat
        BY <2>2, <3>1, <3>2
      <4> QED
        BY <4>1, <4>2
  <2>7. TypeOK'
    BY <2>1, <2>2, <2>3, <2>6 DEF TypeOK
  <2>8. OpsHaveRules'
    BY <1>1, <2>1 DEF OpsHaveRules, NoOp
  <2> QED
    BY <2>1, <2>5, <2>7, <2>8 DEF OnlyWithLock, MatchesAreCurrent
<1>5. CASE CreateRefused(w)
  <2>1. /\ op[w].rule \in Rules /\ lockq # <<>>
        /\ lockq' = Tail(lockq) /\ op' = [op EXCEPT ![w].stage = "rollback"]
        /\ UNCHANGED <<engine, jobs, watched, channel, loop, queue, consumer, running>>
    BY <1>1, <1>5 DEF CreateRefused, granted
  <2>2. op' \in [Writers -> Op] /\ \A r : Pending(r)' = Pending(r)
    BY <2>1, StageType
  <2>3. lockq' \in Seq(Writers \cup {"loop"})
    BY <2>1, HeadTailProperties DEF TypeOK
  <2>4. TypeOK' /\ Promised'
    BY <2>1, <2>2, <2>3 DEF TypeOK, Promised
  <2>5. OpsHaveRules'
    BY <1>1, <2>1 DEF OpsHaveRules, Op
  <2> QED
    BY <2>1, <2>4, <2>5 DEF OnlyWithLock, MatchesAreCurrent
<1>6. CASE CreateRollsBack(w)
  <2>1. /\ op' = [op EXCEPT ![w] = NoOp]
        /\ UNCHANGED <<engine, jobs, watched, channel, loop, lockq, queue, consumer, running>>
    BY <1>6 DEF CreateRollsBack
  <2>2. op' \in [Writers -> Op]
    BY <1>1, <2>1, NoOpType
  <2>3. Promised'
    <3> SUFFICES ASSUME NEW c \in CronRules
                 PROVE  jobs'[c] + Cardinality(Pending(c)') <= MaxJobs
      BY DEF Promised
    <3>1. /\ jobs'[c] = jobs[c] /\ jobs[c] \in Nat /\ jobs[c] + Cardinality(Pending(c)) <= MaxJobs
          /\ IsFiniteSet(Pending(c)) /\ Cardinality(Pending(c)) \in Nat
      BY <2>1, PendingCounts DEF TypeOK, Promised
    <3>2. Pending(c)' \subseteq Pending(c)
      BY <1>1, <2>1, NoOpType DEF Pending, Rules
    <3>3. Cardinality(Pending(c)') \in Nat /\ Cardinality(Pending(c)') <= Cardinality(Pending(c))
      BY <3>1, <3>2, FS_Subset, FS_CardinalityType
    <3> QED
      BY <3>1, <3>3
  <2>4. TypeOK' /\ OpsHaveRules'
    BY <1>1, <2>1, <2>2 DEF TypeOK, OpsHaveRules, NoOp
  <2> QED
    BY <2>1, <2>3, <2>4 DEF OnlyWithLock, MatchesAreCurrent
<1> QED
  BY <1>2, <1>3, <1>4, <1>5, <1>6 DEF Writer

\* Every step keeps the invariant.
LEMMA NextKeeps == IInv /\ [Next]_vars => IInv'
<1> SUFFICES ASSUME IInv, [Next]_vars PROVE IInv'
  OBVIOUS
<1>1. CASE UNCHANGED vars
  BY <1>1 DEF vars, IInv, TypeOK, OpsHaveRules, Promised, Pending, OnlyWithLock, MatchesAreCurrent
<1> QED
  BY <1>1, LoopKeeps, OperationKeeps, WriterKeeps DEF Next

\* The inductive invariant holds in every reachable state.
THEOREM Inductive == Spec => []IInv
  BY InitIInv, NextKeeps, PTL DEF Spec

\* The type invariant with the channels' capacities and the bound on cron
\* jobs, for any number of rules and operations.
THEOREM TypeCorrect == Spec => []TypeOK
<1>1. IInv => TypeOK
  BY DEF IInv
<1> QED
  BY <1>1, Inductive, PTL

\* No rule operation gets between a match and its job: what the event loop
\* still has to enqueue is enabled, for any number of concurrent operations.
THEOREM JobsAreOfEnabledRules == Spec => []MatchesAreCurrent
<1>1. IInv => MatchesAreCurrent
  BY DEF IInv
<1> QED
  BY <1>1, Inductive, PTL
=============================================================================

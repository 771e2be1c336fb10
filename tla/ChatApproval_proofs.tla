------------------------ MODULE ChatApproval_proofs ------------------------
(***************************************************************************)
(* Proofs about ChatApproval, for every set of sessions and calls and      *)
(* every number of requests, rounds and restarts.                          *)
(***************************************************************************)
EXTENDS ChatApproval, WellFoundedInduction, TLAPS

USE DEF durable, volatile, Ids, NoId, Actors

(***************************************************************************)
(* Types                                                                   *)
(***************************************************************************)
\* Every action of the gate, the tool loop, the bot and the resumer keeps the
\* types of the rows, the in-process state and the history.
LEMMA TypeStep == TypeOK /\ [Next]_vars => TypeOK'
<1> SUFFICES ASSUME TypeOK, [Next]_vars
             PROVE  TypeOK'
  OBVIOUS
<1> USE ChatApprovalAssumption
<1>1. ASSUME NEW s \in Sessions, Message(s) PROVE TypeOK'
  BY <1>1 DEF TypeOK, Message, At, Started, Runs, Idle
<1>2. ASSUME NEW a \in Actors, ModelStops(a) PROVE TypeOK'
  BY <1>2 DEF TypeOK, ModelStops, delete_tool_loop_checkpoint, At, Leave, Runs, Idle
<1>3. ASSUME NEW a \in Actors, ModelFails(a) PROVE TypeOK'
  BY <1>3 DEF TypeOK, ModelFails, delete_tool_loop_checkpoint, At, Leave, Runs, Idle
<1>4. ASSUME NEW a \in Actors, NEW c \in Calls, ModelCalls(a, c) PROVE TypeOK'
  <2>1. run' \in [Actors -> Runs]
    BY <1>4 DEF TypeOK, ModelCalls, At, Runs, Idle, Iterates, Counted
  <2>2. \A s \in Sessions : checkpoint[s] # NoCheckpoint => checkpoint[s].created \in 0..MaxRequests
    BY DEF TypeOK, Checkpoints
  <2>3. checkpoint' \in [Sessions -> Checkpoints \cup {NoCheckpoint}]
    <3>1. \A s \in Sessions :
             [call |-> c, created |-> IF checkpoint[s] = NoCheckpoint THEN n
                                      ELSE checkpoint[s].created] \in Checkpoints
      BY <2>2 DEF TypeOK, Checkpoints
    <3>2. run[a].session \in Sessions
      BY <1>4 DEF TypeOK, ModelCalls, At, Runs, Idle
    <3>3. CASE UNCHANGED checkpoint
      BY <3>3 DEF TypeOK
    <3>4. CASE checkpoint' = [checkpoint EXCEPT ![run[a].session] =
                  [call |-> c, created |-> IF @ = NoCheckpoint THEN n ELSE @.created]]
      BY <3>1, <3>2, <3>4 DEF TypeOK
    <3> QED
      BY <1>4, <3>3, <3>4 DEF ModelCalls
  <2> QED
    BY <1>4, <2>1, <2>3 DEF TypeOK, ModelCalls
<1>5. ASSUME NEW a \in Actors, RoundEnds(a) PROVE TypeOK'
  <2>a. run[a] \in [stage : {"model", "calling"}, session : Sessions,
                   left : 0..MaxIterations, id : {NoId}]
    BY <1>5 DEF TypeOK, RoundEnds, At, Runs, Idle
  <2>b. [run[a] EXCEPT !.stage = "model"] \in Runs
    BY <2>a DEF Runs
  <2>1. run' \in [Actors -> Runs]
    BY <1>5, <2>b DEF TypeOK, RoundEnds
  <2> QED
    BY <1>5, <2>1 DEF TypeOK, RoundEnds
<1>6. ASSUME NEW a \in Actors, NEW sm \in Calls \cup {NoCall}, InsertRow(a, sm) PROVE TypeOK'
  BY <1>6 DEF TypeOK, InsertRow, At, Runs, Idle
<1>7. ASSUME NEW a \in Actors, RegisterWaiter(a) PROVE TypeOK'
  <2>a. run[a] \in [stage : {"inserted", "waiting", "stamping"}, session : Sessions,
                   left : 0..MaxIterations, id : Ids]
    BY <1>7 DEF TypeOK, RegisterWaiter, At, Runs, Idle
  <2>b. [run[a] EXCEPT !.stage = "waiting"] \in Runs
    BY <2>a DEF Runs
  <2>1. run' \in [Actors -> Runs]
    BY <1>7, <2>b DEF TypeOK, RegisterWaiter
  <2> QED
    BY <1>7, <2>1 DEF TypeOK, RegisterWaiter, At, Runs, Idle
<1>8. ASSUME NEW a \in Actors, Decided(a) PROVE TypeOK'
  BY <1>8 DEF TypeOK, Decided, At, Runs, Idle
<1>9. ASSUME NEW a \in Actors, TimerFires(a) PROVE TypeOK'
  <2>a. run[a] \in [stage : {"inserted", "waiting", "stamping"}, session : Sessions,
                   left : 0..MaxIterations, id : Ids]
    BY <1>9 DEF TypeOK, TimerFires, At, Runs, Idle
  <2>b. [run[a] EXCEPT !.stage = "stamping"] \in Runs
    BY <2>a DEF Runs
  <2>1. run' \in [Actors -> Runs]
    BY <1>9, <2>b DEF TypeOK, TimerFires
  <2> QED
    BY <1>9, <2>1 DEF TypeOK, TimerFires
<1>10. ASSUME NEW a \in Actors, StampTimeout(a) PROVE TypeOK'
  BY <1>10 DEF TypeOK, StampTimeout, resolve_pending_approval, Decisions, At, Runs, Idle
<1>11. ASSUME NEW i \in Ids, NEW d \in Answers, DashboardResolves(i, d) PROVE TypeOK'
  BY <1>11 DEF TypeOK, DashboardResolves, resolve_pending_approval, Decisions
<1>12. ASSUME NEW i \in Ids, NEW d \in Answers, WakeWaiter(i, d) PROVE TypeOK'
  BY <1>12 DEF TypeOK, WakeWaiter
<1>13. ASSUME NEW i \in Ids, NEW d \in ChatReplies, ChatAnswers(i, d) PROVE TypeOK'
  BY <1>13 DEF TypeOK, ChatAnswers
<1>14. ASSUME NEW i \in Ids, NEW d \in ChatReplies, LoopResolves(i, d) PROVE TypeOK'
  BY <1>14 DEF TypeOK, LoopResolves, resolve_pending_approval, Decisions, Answers
<1>15. CASE Expire
  BY <1>15 DEF TypeOK, Expire
<1>16. CASE Crash
  <2>1. run' \in [Actors -> Runs]
    BY <1>16 DEF Crash, Runs
  <2>2. crashes' \in 0..MaxCrashes
    BY <1>16 DEF TypeOK, Crash
  <2> QED
    BY <1>16, <2>1, <2>2 DEF TypeOK, Crash
<1>17. CASE Boot
  BY <1>17 DEF TypeOK, Boot, Decisions
<1>18. CASE ResumerLists
  BY <1>18 DEF TypeOK, ResumerLists, TodoItems, Checkpoints, NoCheckpoint
<1>19. CASE ResumerListFails
  BY <1>19 DEF TypeOK, ResumerListFails
<1>20. ASSUME NEW cp \in todo, ResumeDenied(cp) PROVE TypeOK'
  BY <1>20 DEF TypeOK, ResumeDenied, delete_tool_loop_checkpoint, TodoItems
<1>21. ASSUME NEW cp \in todo, ResumeApproved(cp) PROVE TypeOK'
  BY <1>21 DEF TypeOK, ResumeApproved, TodoItems, Started, Runs, Idle
<1>22. ASSUME NEW cp \in todo, ResumeUnreadable(cp) \/ ResumeLookupFails(cp) PROVE TypeOK'
  BY <1>22 DEF TypeOK, ResumeUnreadable, ResumeLookupFails, delete_tool_loop_checkpoint,
               TodoItems
<1>23. CASE UNCHANGED vars
  BY <1>23 DEF TypeOK, vars
<1> QED
  BY <1>1, <1>2, <1>3, <1>4, <1>5, <1>6, <1>7, <1>8, <1>9, <1>10, <1>11, <1>12,
     <1>13, <1>14, <1>15, <1>16, <1>17, <1>18, <1>19, <1>20, <1>21, <1>22, <1>23
     DEF Next, Round, Gate, Resume

\* The initial state is typed.
LEMMA TypeInit == Init => TypeOK
BY ChatApprovalAssumption
   DEF Init, TypeOK, Runs, Idle, NoCheckpoint

\* The store's rows, the gate's waiters and the tool loops stay within their
\* types, whatever the owner, the dashboard, the clock and a crash do.
THEOREM TypeCorrect == Spec => []TypeOK
BY TypeInit, TypeStep, PTL DEF Spec

(***************************************************************************)
(* Decisions are final                                                     *)
(***************************************************************************)
Untouched(i) == row[i] \in Decisions => row'[i] = row[i]

\* Only InsertRow, the timeout stamp, the two ways to resolve and the boot sweep
\* write rows: InsertRow a number never used, the others pending rows only.
LEMMA FinalStep ==
    ASSUME TypeOK, MemoryFollowsStore, [Next]_vars, NEW i \in Ids
    PROVE  Untouched(i)
<1> USE DEF Untouched
<1>1. ASSUME NEW a \in Actors, NEW sm \in Calls \cup {NoCall}, InsertRow(a, sm)
      PROVE  Untouched(i)
  BY <1>1 DEF InsertRow, TypeOK, MemoryFollowsStore, Decisions, Answers, ChatReplies
<1>2. ASSUME NEW a \in Actors, StampTimeout(a) PROVE Untouched(i)
  BY <1>2 DEF StampTimeout, resolve_pending_approval, TypeOK, Decisions, Answers, ChatReplies
<1>3. ASSUME NEW j \in Ids, NEW d \in Answers, DashboardResolves(j, d)
      PROVE  Untouched(i)
  BY <1>3 DEF DashboardResolves, resolve_pending_approval, TypeOK, Decisions, Answers, ChatReplies
<1>4. ASSUME NEW j \in Ids, NEW d \in ChatReplies, LoopResolves(j, d)
      PROVE  Untouched(i)
  BY <1>4 DEF LoopResolves, resolve_pending_approval, TypeOK, Decisions, Answers, ChatReplies
<1>5. CASE Boot
  BY <1>5 DEF Boot, Decisions, Answers, ChatReplies
<1>6. CASE UNCHANGED row
  BY <1>6
<1> QED
  BY <1>1, <1>2, <1>3, <1>4, <1>5, <1>6
     DEF Next, Round, Gate, Resume, vars, Message, ModelStops, ModelFails, ModelCalls,
         RoundEnds, RegisterWaiter, Decided, TimerFires, WakeWaiter, ChatAnswers, Expire,
         Crash, ResumerLists, ResumerListFails, ResumeDenied, ResumeApproved,
         ResumeUnreadable, ResumeLookupFails

(***************************************************************************)
(* Memory follows the store                                                *)
(***************************************************************************)
Unused    == \A i \in Ids : i > n => row[i] = "absent"
OnTheWay  == \A r \in resolving : row[r[1]] = r[2]
Delivered == \A i \in Ids : inbox[i] # "none" => row[i] = inbox[i]

\* Rows beyond the last request stay absent.
LEMMA UnusedStep ==
    ASSUME TypeOK, MemoryFollowsStore, [Next]_vars
    PROVE  Unused'
<1> USE DEF Unused, MemoryFollowsStore
<1>1. ASSUME NEW a \in Actors, NEW sm \in Calls \cup {NoCall}, InsertRow(a, sm)
      PROVE  Unused'
  BY <1>1 DEF InsertRow, TypeOK
<1>2. ASSUME NEW a \in Actors, StampTimeout(a) PROVE Unused'
  BY <1>2 DEF StampTimeout, resolve_pending_approval, TypeOK
<1>3. ASSUME NEW j \in Ids, NEW d \in Answers, DashboardResolves(j, d) PROVE Unused'
  BY <1>3 DEF DashboardResolves, resolve_pending_approval, TypeOK
<1>4. ASSUME NEW j \in Ids, NEW d \in ChatReplies, LoopResolves(j, d) PROVE Unused'
  BY <1>4 DEF LoopResolves, resolve_pending_approval, TypeOK
<1>5. CASE Boot
  BY <1>5 DEF Boot
<1>6. CASE UNCHANGED <<n, row>>
  BY <1>6
<1> QED
  BY <1>1, <1>2, <1>3, <1>4, <1>5, <1>6
     DEF Next, Round, Gate, Resume, vars, Message, ModelStops, ModelFails, ModelCalls,
         RoundEnds, RegisterWaiter, Decided, TimerFires, WakeWaiter, ChatAnswers, Expire,
         Crash, ResumerLists, ResumerListFails, ResumeDenied, ResumeApproved,
         ResumeUnreadable, ResumeLookupFails

\* A decision that a resolve call carries stays the row's until it is delivered.
LEMMA OnTheWayStep ==
    ASSUME TypeOK, MemoryFollowsStore, [Next]_vars
    PROVE  OnTheWay'
<1> USE DEF OnTheWay
<1>a. \A r \in resolving : r[1] \in Ids /\ row[r[1]] = r[2] /\ r[2] \in Decisions
  BY DEF TypeOK, MemoryFollowsStore, Decisions
<1>b. \A r \in resolving : row'[r[1]] = r[2]
  BY <1>a, FinalStep DEF Untouched
<1>1. ASSUME NEW j \in Ids, NEW d \in Answers, DashboardResolves(j, d) PROVE OnTheWay'
  BY <1>1, <1>b DEF DashboardResolves, resolve_pending_approval, TypeOK
<1>2. ASSUME NEW j \in Ids, NEW d \in ChatReplies, LoopResolves(j, d) PROVE OnTheWay'
  <2>1. CASE resolve_pending_approval(j, d) /\ resolving' = resolving \cup {<<j, d>>}
    BY <2>1, <1>b DEF resolve_pending_approval, TypeOK
  <2>2. CASE UNCHANGED resolving
    BY <2>2, <1>b
  <2> QED
    BY <1>2, <2>1, <2>2 DEF LoopResolves
<1>3. CASE resolving' \subseteq resolving
  BY <1>3, <1>b
<1> QED
  BY <1>1, <1>2, <1>3
     DEF Next, Round, Gate, Resume, vars, Message, ModelStops, ModelFails, ModelCalls,
         RoundEnds, InsertRow, RegisterWaiter, Decided, TimerFires, StampTimeout, WakeWaiter,
         ChatAnswers, Expire, Crash, Boot, ResumerLists, ResumerListFails, ResumeDenied,
         ResumeApproved, ResumeUnreadable, ResumeLookupFails

\* A decision that was sent to a waiter stays the row's.
LEMMA DeliveredStep ==
    ASSUME TypeOK, MemoryFollowsStore, [Next]_vars
    PROVE  Delivered'
<1> USE DEF Delivered
<1>a. \A i \in Ids : inbox[i] # "none" => row[i] = inbox[i] /\ row[i] \in Decisions
  BY DEF TypeOK, MemoryFollowsStore, Decisions
<1>b. \A i \in Ids : inbox[i] # "none" => row'[i] = inbox[i]
  BY <1>a, FinalStep DEF Untouched
<1>1. ASSUME NEW a \in Actors, Decided(a) PROVE Delivered'
  BY <1>1, <1>b DEF Decided, TypeOK
<1>2. ASSUME NEW a \in Actors, StampTimeout(a) PROVE Delivered'
  BY <1>2, <1>b DEF StampTimeout, TypeOK
<1>3. ASSUME NEW j \in Ids, NEW d \in Answers, WakeWaiter(j, d) PROVE Delivered'
  <2>1. row[j] = d /\ row' = row
    BY <1>3 DEF WakeWaiter, MemoryFollowsStore
  <2> QED
    BY <1>3, <1>b, <2>1 DEF WakeWaiter, TypeOK
<1>4. CASE Crash
  BY <1>4 DEF Crash
<1>5. CASE UNCHANGED inbox
  BY <1>5, <1>b
<1> QED
  BY <1>1, <1>2, <1>3, <1>4, <1>5
     DEF Next, Round, Gate, Resume, vars, Message, ModelStops, ModelFails, ModelCalls,
         RoundEnds, InsertRow, RegisterWaiter, TimerFires, DashboardResolves, LoopResolves,
         ChatAnswers, Expire, Boot, ResumerLists, ResumerListFails, ResumeDenied,
         ResumeApproved, ResumeUnreadable, ResumeLookupFails

\* What the gate holds in memory is what the store holds (see MemoryFollowsStore).
LEMMA StoreStep == TypeOK /\ MemoryFollowsStore /\ [Next]_vars => MemoryFollowsStore'
BY UnusedStep, OnTheWayStep, DeliveredStep
   DEF MemoryFollowsStore, Unused, OnTheWay, Delivered

\* Nothing has been decided at the start.
LEMMA StoreInit == Init => MemoryFollowsStore
BY DEF Init, MemoryFollowsStore

\* The gate's memory never runs ahead of the durable rows: a decision a resolver
\* carries or has delivered is the one in the store.
THEOREM StoreFirst == Spec => []MemoryFollowsStore
<1>1. Init => TypeOK /\ MemoryFollowsStore
  BY TypeInit, StoreInit
<1>2. TypeOK /\ MemoryFollowsStore /\ [Next]_vars => (TypeOK /\ MemoryFollowsStore)'
  BY TypeStep, StoreStep
<1> QED
  BY <1>1, <1>2, PTL DEF Spec

\* A decided approval row keeps its decision for ever, across answers from the
\* dashboard and from chat, timeouts, crashes and boot sweeps.
THEOREM DecisionsAreFinal == Spec => DecisionIsFinal
<1>1. Spec => []TypeOK
  BY TypeCorrect
<1>2. Spec => []MemoryFollowsStore
  BY StoreFirst
<1>3. TypeOK /\ MemoryFollowsStore /\ [Next]_vars
      => [\A i \in Ids : row[i] \in Decisions => row'[i] = row[i]]_vars
  BY FinalStep DEF Untouched
<1> QED
  BY <1>1, <1>2, <1>3, PTL DEF Spec, DecisionIsFinal

(***************************************************************************)
(* What is granted was approved                                            *)
(***************************************************************************)
LEMMA GrantStep ==
    ASSUME TypeOK, MemoryFollowsStore, GrantedWasApproved, [Next]_vars
    PROVE  GrantedWasApproved'
<1> USE DEF GrantedWasApproved
<1>a. \A i \in granted : row'[i] = "approved"
  <2>1. \A i \in granted : i \in Ids /\ row[i] \in Decisions
    BY DEF TypeOK, Decisions, Answers, ChatReplies
  <2> QED
    BY <2>1, FinalStep DEF Untouched
<1>1. ASSUME NEW a \in Actors, Decided(a) PROVE GrantedWasApproved'
  <2>1. run[a].id \in Ids
    BY <1>1 DEF Decided, At, TypeOK, Runs, Idle
  <2>2. is_approved(inbox[run[a].id]) => row'[run[a].id] = "approved"
    BY <1>1, <2>1 DEF Decided, is_approved, MemoryFollowsStore
  <2> QED
    BY <1>1, <1>a, <2>2 DEF Decided
<1>2. CASE UNCHANGED granted
  BY <1>2, <1>a
<1> QED
  BY <1>1, <1>2
     DEF Next, Round, Gate, Resume, vars, Message, ModelStops, ModelFails, ModelCalls,
         RoundEnds, InsertRow, RegisterWaiter, TimerFires, StampTimeout, DashboardResolves,
         LoopResolves, WakeWaiter, ChatAnswers, Expire, Crash, Boot, ResumerLists,
         ResumerListFails, ResumeDenied, ResumeApproved,
         ResumeUnreadable, ResumeLookupFails

\* Nobody is told Approved whose durable row is not approved, at any time
\* afterwards: neither a late timer nor a restart turns the record around.
THEOREM GrantsAreApproved == Spec => []GrantedWasApproved
<1>1. Init => TypeOK /\ MemoryFollowsStore /\ GrantedWasApproved
  BY TypeInit, StoreInit DEF Init, GrantedWasApproved
<1>2. TypeOK /\ MemoryFollowsStore /\ GrantedWasApproved /\ [Next]_vars
      => (TypeOK /\ MemoryFollowsStore /\ GrantedWasApproved)'
  BY TypeStep, StoreStep, GrantStep
<1> QED
  BY <1>1, <1>2, PTL DEF Spec

(***************************************************************************)
(* What is resumed was answered                                            *)
(***************************************************************************)
\* Before it has read the table, the resumer is idle and has nothing to do.
ResumerQuiet == ~ listed => run["resumer"].stage = "idle" /\ todo = {}

ResumeInv == TypeOK /\ MemoryFollowsStore /\ ResumerQuiet /\ ResumedWasAnswered

\* The resumer runs no loop before it has listed the checkpoints.
LEMMA QuietStep ==
    ASSUME ResumeInv, [Next]_vars
    PROVE  ResumerQuiet'
<1> USE DEF ResumeInv, ResumerQuiet
<1>1. CASE Crash
  BY <1>1 DEF Crash, Idle
<1> SUFFICES ASSUME ~ Crash, ~ listed'
             PROVE  ResumerQuiet'
  BY <1>1
<1>2. ~ listed
  BY DEF Next, Round, Gate, Resume, vars, Message, ModelStops, ModelFails, ModelCalls,
         RoundEnds, InsertRow, RegisterWaiter, Decided, TimerFires, StampTimeout,
         DashboardResolves, LoopResolves, WakeWaiter, ChatAnswers, Expire, Boot,
         ResumerLists, ResumerListFails, ResumeDenied, ResumeApproved,
         ResumeUnreadable, ResumeLookupFails
<1>3. run["resumer"].stage = "idle" /\ todo = {}
  BY <1>2
<1>4. ASSUME NEW a \in Actors, Round(a) \/ Gate(a) PROVE ResumerQuiet'
  <2>1. a = "loop"
    BY <1>3, <1>4 DEF Round, Gate, At, ModelStops, ModelFails, ModelCalls, RoundEnds,
                InsertRow, RegisterWaiter, Decided, TimerFires, StampTimeout
  <2>2. run'["resumer"] = run["resumer"] /\ todo' = todo
    BY <1>4, <2>1
       DEF TypeOK, Round, Gate, Leave, ModelStops, ModelFails, ModelCalls, RoundEnds,
           InsertRow, RegisterWaiter, Decided, TimerFires, StampTimeout
  <2> QED
    BY <1>3, <2>2
<1>5. ASSUME NEW s \in Sessions, Message(s) PROVE ResumerQuiet'
  BY <1>3, <1>5 DEF Message, TypeOK
<1>6. CASE UNCHANGED <<run, todo>>
  BY <1>3, <1>6
<1>7. ~ ResumerLists /\ ~ ResumerListFails
  BY DEF ResumerLists, ResumerListFails
<1> QED
  BY <1>3, <1>4, <1>5, <1>6, <1>7
     DEF Next, Resume, vars, DashboardResolves, LoopResolves, WakeWaiter, ChatAnswers,
         Expire, Boot

\* A non-empty set of request numbers has a latest one.
LEMMA LatestIn ==
    ASSUME NEW I \in SUBSET Ids, I # {}
    PROVE  Latest(I) \in I
<1> USE ChatApprovalAssumption
<1> DEFINE T == {MaxRequests - i : i \in I}
<1>1. T \subseteq Nat /\ T # {}
  <2>1. \A i \in I : i \in Nat /\ MaxRequests - i \in Nat
    OBVIOUS
  <2> QED
    BY <2>1
<1>2. PICK x \in T : \A y \in T : ~ (<<y, x>> \in OpToRel(<, Nat))
  BY <1>1, WFMin, NatLessThanWellFounded
<1>3. ASSUME NEW y \in T PROVE ~ (y < x)
  BY <1>1, <1>2, <1>3 DEF OpToRel
<1>4. \E i \in I : \A j \in I : j <= i
  <2>1. PICK i \in I : x = MaxRequests - i
    OBVIOUS
  <2>2. ASSUME NEW j \in I PROVE j <= i
    <3>1. ~ (MaxRequests - j < MaxRequests - i)
      BY <1>3, <2>1
    <3>2. i \in Nat /\ j \in Nat /\ MaxRequests \in Nat
      OBVIOUS
    <3> QED
      BY <3>1, <3>2
  <2> QED
    BY <2>2
<1> QED
  BY <1>4 DEF Latest

\* The answer that resumed a thread stays in the store, and the thread stays on
\* the list until it ends.
LEMMA ResumeStep ==
    ASSUME ResumeInv, [Next]_vars
    PROVE  ResumedWasAnswered'
<1> USE DEF ResumeInv
<1> DEFINE D == {"approved", "denied_why"}
           Good(cp) == \E i \in Matching(cp) : row[i] \in D
<1>1. ASSUME NEW cp, Good(cp) PROVE Good(cp)'
  <2>1. PICK i \in Ids : /\ i > cp.created /\ row[i] \in D
                         /\ summary[i] = cp.call /\ row[i] # "absent"
    BY <1>1 DEF Matching
  <2>2. row[i] \in Decisions
    BY <2>1 DEF Decisions, Answers, ChatReplies
  <2>3. row'[i] = row[i]
    BY <2>2, FinalStep DEF Untouched
  <2>4. summary'[i] = summary[i]
    <3>1. ASSUME NEW a \in Actors, NEW sm \in Calls \cup {NoCall}, InsertRow(a, sm)
          PROVE  summary'[i] = summary[i]
      BY <2>1, <3>1 DEF InsertRow, TypeOK, MemoryFollowsStore
    <3>2. CASE UNCHANGED summary
      BY <3>2
    <3> QED
      BY <3>1, <3>2
         DEF Next, Round, Gate, Resume, vars, Message, ModelStops, ModelFails, ModelCalls,
             RoundEnds, RegisterWaiter, Decided, TimerFires, StampTimeout,
             DashboardResolves, LoopResolves, WakeWaiter, ChatAnswers, Expire, Crash, Boot,
             ResumerLists, ResumerListFails, ResumeDenied, ResumeApproved,
             ResumeUnreadable, ResumeLookupFails
  <2> QED
    BY <2>1, <2>3, <2>4 DEF Matching
<1>2. SUFFICES ASSUME run'["resumer"].stage # "idle"
               PROVE  \E cp \in todo' : cp.session = run'["resumer"].session /\ Good(cp)'
  BY DEF ResumedWasAnswered, Resumed
<1>3. ASSUME run["resumer"].stage # "idle",
             run'["resumer"].session = run["resumer"].session, todo \subseteq todo'
      PROVE  \E cp \in todo' : cp.session = run'["resumer"].session /\ Good(cp)'
  BY <1>1, <1>3 DEF ResumedWasAnswered, Resumed
<1>4. ASSUME NEW a \in Actors, Round(a) \/ Gate(a)
      PROVE  /\ run["resumer"].stage # "idle"
             /\ run'["resumer"].session = run["resumer"].session
             /\ todo \subseteq todo'
  <2>1. CASE a = "resumer"
    <3>1. run["resumer"].stage # "idle"
      BY <1>4, <2>1 DEF Round, Gate, At, ModelStops, ModelFails, ModelCalls, RoundEnds,
              InsertRow, RegisterWaiter, Decided, TimerFires, StampTimeout
    <3>2. ~ Leave(a)
      BY <2>1, <1>2 DEF Leave, TypeOK, Idle
    <3>a. run \in [Actors -> Runs] /\ run["resumer"] \in Runs
      BY DEF TypeOK
    <3>b. ASSUME NEW c \in Calls, ModelCalls(a, c)
          PROVE  run'["resumer"].session = run["resumer"].session
      BY <2>1, <3>a, <3>b DEF ModelCalls, Runs, Idle
    <3>c. ASSUME NEW sm \in Calls \cup {NoCall}, InsertRow(a, sm)
          PROVE  run'["resumer"].session = run["resumer"].session
      BY <2>1, <3>a, <3>c DEF InsertRow, Runs, Idle
    <3>d. ASSUME RoundEnds(a) \/ RegisterWaiter(a) \/ TimerFires(a)
          PROVE  run'["resumer"].session = run["resumer"].session
      BY <2>1, <3>a, <3>d DEF RoundEnds, RegisterWaiter, TimerFires, Runs, Idle
    <3>e. ASSUME Decided(a) \/ StampTimeout(a)
          PROVE  run'["resumer"].session = run["resumer"].session
      BY <2>1, <3>a, <3>e DEF Decided, StampTimeout, Runs, Idle
    <3>4. run'["resumer"].session = run["resumer"].session
      BY <1>4, <3>2, <3>b, <3>c, <3>d, <3>e DEF Round, Gate, ModelStops, ModelFails
    <3>5. todo' = todo
      BY <1>4, <3>2
         DEF Round, Gate, ModelStops, ModelFails, ModelCalls, RoundEnds,
             InsertRow, RegisterWaiter, Decided, TimerFires, StampTimeout
    <3> QED
      BY <3>1, <3>4, <3>5
  <2>2. CASE a = "loop"
    <3>1. run'["resumer"] = run["resumer"] /\ todo' = todo
      BY <1>4, <2>2
         DEF TypeOK, Round, Gate, Leave, ModelStops, ModelFails, ModelCalls, RoundEnds,
             InsertRow, RegisterWaiter, Decided, TimerFires, StampTimeout
    <3> QED
      BY <1>2, <3>1
  <2> QED
    BY <2>1, <2>2
<1>5. ASSUME NEW s \in Sessions, Message(s)
      PROVE  /\ run["resumer"].stage # "idle"
             /\ run'["resumer"].session = run["resumer"].session
             /\ todo \subseteq todo'
  BY <1>2, <1>5 DEF Message, TypeOK
<1>6. ASSUME NEW cp \in todo, ResumeApproved(cp)
      PROVE  \E c \in todo' : c.session = run'["resumer"].session /\ Good(c)'
  <2>1. run'["resumer"].session = cp.session /\ todo' = todo
    BY <1>6 DEF ResumeApproved, Started, TypeOK
  <2>2. Matching(cp) # {}
    BY <1>6 DEF ResumeApproved, Verdict, contains_approved
  <2>3. Latest(Matching(cp)) \in Matching(cp)
    BY <2>2, LatestIn DEF Matching
  <2>4. Good(cp)
    BY <1>6, <2>2, <2>3 DEF ResumeApproved, Verdict, contains_approved
  <2> QED
    BY <1>1, <2>1, <2>4
<1>7. CASE UNCHANGED <<run, todo>>
  BY <1>2, <1>3, <1>7
<1>8. ~ Crash
  BY <1>2 DEF Crash, Idle
<1>9. ~ ResumerLists
  BY <1>2 DEF ResumerLists, ResumerQuiet
<1>10. ASSUME NEW cp \in todo
      PROVE  ~ ResumeDenied(cp) /\ ~ ResumeUnreadable(cp) /\ ~ ResumeLookupFails(cp)
  BY <1>2 DEF ResumeDenied, ResumeUnreadable, ResumeLookupFails, At
<1> QED
  BY <1>3, <1>4, <1>5, <1>6, <1>7, <1>8, <1>9, <1>10
     DEF Next, Resume, vars, DashboardResolves, LoopResolves, WakeWaiter, ChatAnswers,
         Expire, Boot, ResumerListFails

\* A thread is continued after a restart only behind an answer of the owner to
\* the call that its checkpoint names.
THEOREM ResumedAreAnswered == Spec => []ResumedWasAnswered
<1>1. Init => ResumeInv
  BY TypeInit, StoreInit DEF Init, ResumeInv, ResumerQuiet, ResumedWasAnswered, Resumed, Idle
<1>2. ResumeInv /\ [Next]_vars => ResumeInv'
  BY TypeStep, StoreStep, QuietStep, ResumeStep DEF ResumeInv
<1>3. ResumeInv => ResumedWasAnswered
  BY DEF ResumeInv
<1> QED
  BY <1>1, <1>2, <1>3, PTL DEF Spec
=============================================================================

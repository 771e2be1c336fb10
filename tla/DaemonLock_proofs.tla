-------------------------- MODULE DaemonLock_proofs --------------------------
(***************************************************************************)
(* Proofs about DaemonLock, for any connections, requests, number of       *)
(* worlds and of dropped calls.                                            *)
(*                                                                         *)
(* What lock and unlock do between their awaits is safe because the gate   *)
(* lets one call in at a time (OneInside) and because every holder of a    *)
(* world got it from another holder, except the call that builds it and    *)
(* has found the flock free.                                               *)
(***************************************************************************)
EXTENDS DaemonLock, SequenceTheorems, TLAPS

LockStages  == {"signal", "sessions", "runtime", "daemon", "drop", "await"}
BuildStages == {"init", "boot", "restore"}
Inside      == LockStages \cup BuildStages

\* A call has a world once it is inside the gate, and not while it waits.
Shape ==
    \A c \in Callers :
        /\ call[c].at \in Inside => call[c].world \in Worlds
        /\ call[c].at \in {"idle", "due", "gate"} => call[c].world = 0

\* A call between two steps holds the gate.
OneInside == \A c \in Callers : call[c].at \in Inside => gate # <<>> /\ Head(gate) = c

\* Nobody has a world that has not been started.
Known ==
    /\ live <= built
    /\ \A c \in Callers : call[c].world <= built
    /\ \A w \in released : w <= built

\* While a world is built none is published.
Building == \A c \in Callers : call[c].at \in BuildStages => live = 0

\* What a lock has shut down stays down.
TornDown ==
    \A c \in Callers :
        /\ call[c].at = "daemon" => Registered(call[c].world) \subseteq {"daemon"}
        /\ call[c].at \in {"drop", "await"} => Registered(call[c].world) = {}

\* The daemon's own call comes when axum::serve has returned.
ExitLast == serve \in {"up", "draining"} => call["main"].at = "idle"

Gated == Shape /\ OneInside /\ Known /\ Building /\ TornDown /\ ExitLast

IInv == TypeOK /\ Gated /\ OneOwner /\ TasksAreOwned /\ ReleasedIsClosed

-----------------------------------------------------------------------------
\* The first world is published and nobody has called.
LEMMA InitIInv == Init => IInv
<1> SUFFICES ASSUME Init PROVE IInv
  OBVIOUS
<1> USE DaemonLockAssumption DEF Init
<1>1. 1 \in Worlds /\ MaxWorlds \in Nat
  BY DEF Worlds
<1>2. NoCall \in Call /\ NoCall.at = "idle" /\ NoCall.world = 0
  BY DEF NoCall, Call
<1>3. NoRequest \in Request /\ NoRequest.kind = "none"
  BY DEF NoRequest, Request
<1>4. TypeOK
  <2>1. <<>> \in Seq(Callers)
    BY EmptySeq
  <2>2. live \in 0..MaxWorlds /\ built \in Worlds /\ drops \in 0..MaxDrops
    BY <1>1
  <2>3. call \in [Callers -> Call] /\ req \in [Requests -> Request]
    BY <1>2, <1>3
  <2>4. tasks \in [Worlds -> SUBSET {"runtime", "daemon", "resumer"}] /\ signal \in [Worlds -> BOOLEAN]
    OBVIOUS
  <2> QED
    BY <2>1, <2>2, <2>3, <2>4 DEF TypeOK
<1>5. Gated
  BY <1>2 DEF Gated, Shape, OneInside, Known, Building, TornDown, Registered, ExitLast, Inside, LockStages,
     BuildStages, Callers
<1>6. \A w \in Worlds : FlockHeld(w) => w = 1
  BY <1>2, <1>3 DEF FlockHeld, StateHeld, Running
<1>7. OneOwner
  BY <1>6 DEF OneOwner
<1>8. TasksAreOwned /\ ReleasedIsClosed
  BY DEF TasksAreOwned, Registered, ReleasedIsClosed
<1> QED
  BY <1>4, <1>5, <1>7, <1>8 DEF IInv

-----------------------------------------------------------------------------
\* Holders only let go: the two statements about holders stay true.
LEMMA LettingGo ==
    ASSUME OneOwner, ReleasedIsClosed, released' = released, TypeOK,
           \A w \in Worlds : FlockHeld(w)' => FlockHeld(w),
           \A w \in Worlds : StoreHeld(w)' => StoreHeld(w)
    PROVE  OneOwner' /\ ReleasedIsClosed'
BY DEF OneOwner, ReleasedIsClosed, TypeOK

\* Requests, jobs and streams: what comes in joins a world that is held.
LEMMA RequestKeeps ==
    ASSUME IInv, NEW r \in Requests, RequestStep(r)
    PROVE  IInv'
<1> USE DEF IInv
<1>1. UNCHANGED <<worldVars, callVars, serve>>
  BY DEF RequestStep, forward, StartJob, Become, End, OpenStream, StreamEnds, ClientLeaves
<1>2. UNCHANGED <<live, built, tasks, signal, gate, call, released, abandoned, drops, serve>>
  BY <1>1 DEF worldVars, callVars
<1>3. PICK q \in Request : req' = [req EXCEPT ![r] = q] /\
         \/ q.kind = "none" \/ q.kind = "stream"
         \/ q.kind = "request" /\ q.world = live
         \/ q.kind = "job" /\ q.world \in Worlds /\ "runtime" \in tasks[q.world]
  <2>1. NoRequest \in Request /\ NoRequest.kind = "none"
    BY DaemonLockAssumption DEF NoRequest, Request
  <2>2. ASSUME NEW k \in {"request", "job", "stream"}, NEW w \in 0..MaxWorlds
        PROVE  [kind |-> k, world |-> w] \in Request
    BY DEF Request
  <2>3. req[r].world \in 0..MaxWorlds /\ live \in 0..MaxWorlds /\ Worlds \subseteq 0..MaxWorlds
    BY DaemonLockAssumption DEF TypeOK, Request, Worlds
  <2>4. CASE forward(r)
    BY <2>2, <2>3, <2>4 DEF forward, Become
  <2>5. CASE \E w \in Worlds : StartJob(r, w)
    BY <2>2, <2>3, <2>5 DEF StartJob, Become
  <2>6. CASE OpenStream(r)
    BY <2>2, <2>3, <2>6 DEF OpenStream, Become
  <2>7. CASE End(r) \/ StreamEnds(r) \/ ClientLeaves(r)
    BY <2>1, <2>7 DEF End, StreamEnds, ClientLeaves
  <2> QED
    BY <2>4, <2>5, <2>6, <2>7 DEF RequestStep
<1>4. TypeOK'
  BY <1>2, <1>3 DEF TypeOK
<1>5. ASSUME NEW w \in Worlds
      PROVE  /\ Running("request", w)' => Running("request", w) \/ live = w
             /\ Running("job", w)' => Running("job", w) \/ "runtime" \in tasks[w]
  BY <1>3 DEF Running, TypeOK
<1>6. \A w \in Worlds : (StateHeld(w)' => StateHeld(w)) /\ (FlockHeld(w)' => FlockHeld(w))
  BY <1>2, <1>5 DEF StateHeld, FlockHeld
<1>7. \A w \in Worlds : StoreHeld(w)' => StoreHeld(w)
  BY <1>2, <1>5, <1>6 DEF StoreHeld
<1>8. Gated' /\ TasksAreOwned'
  BY <1>2 DEF Gated, Shape, OneInside, Known, Building, TornDown, Registered, ExitLast, TasksAreOwned, InHand
<1> QED
  BY <1>2, <1>4, <1>6, <1>7, <1>8, LettingGo

-----------------------------------------------------------------------------
\* A call that is not inside the gate comes, goes or asks for the gate.
LEMMA OutsideKeeps ==
    ASSUME IInv, NEW c \in Callers, NEW d \in Call,
           call[c].at \notin Inside, call' = [call EXCEPT ![c] = d],
           \/ d.at \in {"idle", "due", "gate"} /\ d.world = 0
           \/ d.at = "auth" /\ d.world = live,
           gate' = gate \/ gate' = Append(gate, c),
           UNCHANGED <<live, built, tasks, signal, released, abandoned, drops, req>>,
           serve' \in {"up", "draining", "over", "stopped"},
           serve' \in {"up", "draining"} => serve \in {"up", "draining"} /\ c # "main"
    PROVE  IInv'
<1> USE DEF IInv
<1>1. call'[c] = d /\ \A e \in Callers : e # c => call'[e] = call[e]
  BY DEF TypeOK
<1>2. d.at \notin Inside
  BY DEF Inside, LockStages, BuildStages
<1>3. TypeOK'
  <2>1. gate \in Seq(Callers)
    BY DEF TypeOK
  <2>2. Append(gate, c) \in Seq(Callers)
    BY <2>1, AppendProperties
  <2>3. gate' \in Seq(Callers)
    BY <2>1, <2>2
  <2> QED
    BY <2>3 DEF TypeOK
<1>4. gate # <<>> => gate' # <<>> /\ Head(gate') = Head(gate)
  BY AppendProperties, HeadTailAppend DEF TypeOK
<1>5. Shape'
  BY <1>1, <1>2 DEF Gated, Shape
<1>6. OneInside'
  BY <1>1, <1>2, <1>4 DEF Gated, OneInside
<1>7. Known'
  <2>1. built \in Nat /\ built > 0
    BY DaemonLockAssumption DEF TypeOK, Worlds
  <2> QED
    BY <1>1, <2>1 DEF Gated, Known
<1>8. Building' /\ TornDown' /\ ExitLast'
  BY <1>1, <1>2 DEF Gated, Building, TornDown, Registered, ExitLast, Inside, LockStages, BuildStages, Callers
<1>9. \A w \in Worlds : StateHeld(w)' => StateHeld(w)
  BY <1>1 DEF StateHeld, Running, Worlds
<1>10. \A w \in Worlds : (FlockHeld(w)' => FlockHeld(w)) /\ (StoreHeld(w)' => StoreHeld(w))
  BY <1>9 DEF FlockHeld, StoreHeld, Running
<1>11. TasksAreOwned'
  <2>1. ASSUME NEW w \in Worlds, InHand(w) PROVE InHand(w)'
    <3>1. PICK e \in Callers : call[e].world = w /\ call[e].at # "auth"
      BY <2>1 DEF InHand
    <3>2. e # c
      BY <3>1 DEF Gated, Shape, TypeOK, Call, Inside, LockStages, BuildStages, Worlds
    <3> QED
      BY <1>1, <3>1, <3>2 DEF InHand
  <2> QED
    BY <2>1 DEF TasksAreOwned, Registered
<1> QED
  BY <1>3, <1>5, <1>6, <1>7, <1>8, <1>10, <1>11, LettingGo DEF Gated

\* The handlers, the timer and the exit come to the gate or do not.
LEMMA CallersKeep ==
    ASSUME IInv,
           \/ \E c \in Handlers : LockHandler(c) \/ UnlockHandler(c)
           \/ \E c \in Callers : LockAuthenticates(c) \/ AskGate(c)
           \/ AutoLock \/ ShutdownSignal \/ ServeReturns
    PROVE  IInv'
<1> USE DEF IInv
<1>1. NoCall \in Call /\ NoCall.at = "idle" /\ NoCall.world = 0
  BY DaemonLockAssumption DEF NoCall, Call
<1>2. Handlers \subseteq Callers /\ "auto" \in Callers /\ "main" \in Callers
  BY DEF Callers
<1>3. ASSUME NEW op \in {"lock", "unlock"}
      PROVE  [op |-> op, world |-> 0, at |-> "due"] \in Call
  BY DaemonLockAssumption DEF Call
<1>4. \A e \in Callers : call[e] \in Call
  BY DEF TypeOK
<1>e. /\ "main" \notin Handlers /\ "auto" # "main"
      /\ \A e \in Callers : call[e].at # "idle" /\ serve \in {"up", "draining"} => e # "main"
  BY DaemonLockAssumption DEF Gated, ExitLast
<1>5. ASSUME NEW c \in Handlers, LockHandler(c) PROVE IInv'
  <2>1. [op |-> "lock", world |-> live, at |-> "auth"] \in Call
    BY DEF Call, TypeOK
  <2> QED
    BY <1>1, <1>2, <1>5, <2>1, <1>e, OutsideKeeps
       DEF LockHandler, Set, worldVars, Inside, LockStages, BuildStages, TypeOK
<1>6. ASSUME NEW c \in Handlers, UnlockHandler(c) PROVE IInv'
  BY <1>1, <1>2, <1>3, <1>6, <1>e, OutsideKeeps
     DEF UnlockHandler, Set, worldVars, Inside, LockStages, BuildStages, TypeOK
<1>7. ASSUME NEW c \in Callers, LockAuthenticates(c) PROVE IInv'
  BY <1>1, <1>3, <1>7, <1>e, OutsideKeeps
     DEF LockAuthenticates, Set, worldVars, Inside, LockStages, BuildStages, TypeOK
<1>8. ASSUME NEW c \in Callers, AskGate(c) PROVE IInv'
  <2> DEFINE d == [call[c] EXCEPT !.at = "gate"]
  <2>1. d \in Call /\ d.at = "gate" /\ d.world = call[c].world
    BY <1>4 DEF Call
  <2>2. call[c].world = 0 /\ call[c].at = "due"
    BY <1>8 DEF AskGate, Gated, Shape
  <2>3. call' = [call EXCEPT ![c] = d]
    BY <1>8 DEF AskGate
  <2> HIDE DEF d
  <2> QED
    BY <1>8, <2>1, <2>2, <2>3, <1>e, OutsideKeeps
       DEF AskGate, worldVars, Inside, LockStages, BuildStages, TypeOK
<1>9. CASE AutoLock
  BY <1>1, <1>2, <1>3, <1>9, <1>e, OutsideKeeps
     DEF AutoLock, Set, worldVars, Inside, LockStages, BuildStages, TypeOK
<1>10. CASE ServeReturns
  <2>1. call["main"].at \notin Inside
    BY <1>10 DEF ServeReturns, Gated, ExitLast, Inside, LockStages, BuildStages
  <2> QED
    BY <1>2, <1>3, <1>10, <2>1, OutsideKeeps DEF ServeReturns, Set, worldVars
<1>11. CASE ShutdownSignal
  <2>1. UNCHANGED <<live, built, tasks, signal, gate, call, released, abandoned, drops, req>>
    BY <1>11 DEF ShutdownSignal, worldVars, callVars
  <2>2. serve = "up" /\ serve' = "draining"
    BY <1>11 DEF ShutdownSignal
  <2>3. TypeOK'
    BY <2>1, <2>2 DEF TypeOK
  <2>4. Gated' /\ TasksAreOwned'
    BY <2>1, <2>2 DEF Gated, Shape, OneInside, Known, Building, TornDown, Registered, ExitLast, TasksAreOwned, InHand
  <2>5. \A w \in Worlds : (FlockHeld(w)' => FlockHeld(w)) /\ (StoreHeld(w)' => StoreHeld(w))
    BY <2>1 DEF FlockHeld, StoreHeld, StateHeld, Running
  <2> QED
    BY <2>1, <2>3, <2>4, <2>5, LettingGo
<1> QED
  BY <1>5, <1>6, <1>7, <1>8, <1>9, <1>10, <1>11

-----------------------------------------------------------------------------
\* Who holds the gate is alone inside.
LEMMA Alone ==
    ASSUME IInv, NEW c \in Callers, gate # <<>>, Head(gate) = c
    PROVE  \A e \in Callers : e # c => call[e].at \notin Inside
BY DEF IInv, Gated, OneInside

\* A call that returns leaves nobody inside.
LEMMA ReturnKeeps ==
    ASSUME IInv, NEW c \in Callers, gate # <<>>, Head(gate) = c, Return(c)
    PROVE  /\ call' \in [Callers -> Call] /\ gate' \in Seq(Callers)
           /\ serve' \in {"up", "draining", "over", "stopped"}
           /\ call'[c] = NoCall /\ NoCall.at = "idle" /\ NoCall.world = 0
           /\ \A e \in Callers : e # c => call'[e] = call[e] /\ call'[e].at \notin Inside
           /\ \A e \in Callers : call'[e].at \notin Inside
           /\ Shape' /\ OneInside' /\ Building' /\ TornDown' /\ ExitLast'
<1> USE DEF IInv
<1>1. NoCall \in Call /\ NoCall.at = "idle" /\ NoCall.world = 0 /\ NoCall.at \notin Inside
  BY DaemonLockAssumption DEF NoCall, Call, Inside, LockStages, BuildStages
<1>2. call' = [call EXCEPT ![c] = NoCall] /\ call \in [Callers -> Call]
  BY DEF Return, TypeOK
<1>3. call'[c] = NoCall /\ \A e \in Callers : e # c => call'[e] = call[e]
  BY <1>2
<1>4. \A e \in Callers : call'[e].at \notin Inside
  BY <1>1, <1>3, Alone
<1>5. gate' \in Seq(Callers)
  <2>1. gate \in Seq(Callers) /\ gate # <<>> /\ gate' = Tail(gate)
    BY DEF TypeOK, Return
  <2> QED
    BY <2>1, HeadTailProperties
<1>6. serve' \in {"up", "draining", "over", "stopped"} /\ (serve' \in {"up", "draining"} => serve' = serve)
  BY DEF Return, TypeOK
<1>7. Shape' /\ OneInside'
  BY <1>1, <1>3, <1>4 DEF Gated, Shape, OneInside
<1>8. Building' /\ TornDown'
  BY <1>4 DEF Building, TornDown, Registered, Inside, LockStages, BuildStages
<1>9. ExitLast'
  BY <1>1, <1>3, <1>6 DEF Gated, ExitLast, Callers
<1> QED
  BY <1>1, <1>2, <1>3, <1>4, <1>5, <1>6, <1>7, <1>8, <1>9

\* The steps of a lock between the swap and the wait shut tasks down and let
\* go of the world.
LEMMA LockStepKeeps ==
    ASSUME IInv, NEW c \in Callers,
           \/ SendSignal(c) \/ ClearSessions(c) \/ ShutdownRuntime(c)
           \/ ShutdownDaemon(c) \/ DropLive(c)
    PROVE  IInv'
<1> USE DEF IInv
<1> DEFINE w == call[c].world
<1>1. PICK next \in LockStages :
        /\ call[c].at \in LockStages \ {"await"}
        /\ gate # <<>> /\ Head(gate) = c
        /\ call' = [call EXCEPT ![c].at = next]
        /\ next = "daemon" => tasks' = [tasks EXCEPT ![w] = @ \ {"runtime"}]
        /\ next = "drop" => /\ call[c].at = "daemon"
                            /\ tasks' = [tasks EXCEPT ![w] = @ \ {"daemon"}]
        /\ next = "await" => call[c].at = "drop" /\ tasks' = tasks
        /\ next \notin {"daemon", "drop"} => tasks' = tasks
        /\ next \in {"sessions", "runtime", "daemon", "drop", "await"}
  BY DEF SendSignal, ClearSessions, ShutdownRuntime, ShutdownDaemon, DropLive, Step, HasGate, LockStages
<1>2. UNCHANGED <<live, built, gate, released, abandoned, drops, serve, req>>
  BY DEF SendSignal, ClearSessions, ShutdownRuntime, ShutdownDaemon, DropLive, Step
<1>3. w \in Worlds /\ (serve \in {"up", "draining"} => c # "main")
  <2>1. call[c].at \in Inside /\ call[c].at # "idle"
    BY <1>1 DEF Inside, LockStages
  <2>2. w \in Worlds
    BY <2>1 DEF Gated, Shape
  <2>3. serve \in {"up", "draining"} => c # "main"
    BY <2>1 DEF Gated, ExitLast
  <2> QED
    BY <2>2, <2>3
<1>4. /\ call'[c] = [call[c] EXCEPT !.at = next] /\ call[c] \in Call
      /\ \A e \in Callers : e # c => call'[e] = call[e]
  BY <1>1 DEF TypeOK
<1>5. call'[c] \in Call /\ call'[c].at = next /\ call'[c].world = w
  BY <1>4 DEF Call, LockStages
<1>6. /\ tasks' \in [Worlds -> SUBSET {"runtime", "daemon", "resumer"}]
      /\ \A v \in Worlds : tasks'[v] \subseteq tasks[v]
      /\ next = "daemon" => tasks'[w] \subseteq {"daemon", "resumer"}
      /\ next \in {"drop", "await"} => tasks'[w] \subseteq {"resumer"}
  <2>1. call[c].at = "daemon" => tasks[w] \subseteq {"daemon", "resumer"}
    BY DEF Gated, TornDown, Registered
  <2>2. call[c].at = "drop" => tasks[w] \subseteq {"resumer"}
    BY DEF Gated, TornDown, Registered
  <2> HIDE DEF w
  <2> QED
    BY <1>1, <1>3, <2>1, <2>2 DEF TypeOK
<1>7. signal' \in [Worlds -> BOOLEAN]
  BY <1>3 DEF SendSignal, ClearSessions, ShutdownRuntime, ShutdownDaemon, DropLive, TypeOK
<1>8. call' \in [Callers -> Call]
  BY <1>1, <1>5 DEF TypeOK
<1>9. TypeOK'
  BY <1>2, <1>6, <1>7, <1>8 DEF TypeOK
<1>10. \A e \in Callers : e # c => call[e].at \notin Inside
  BY <1>1, Alone
<1> HIDE DEF w
<1>11. Shape' /\ OneInside' /\ Building' /\ TornDown'
  <2>1. Shape' /\ OneInside'
    BY <1>1, <1>2, <1>3, <1>4, <1>5, <1>10 DEF Gated, Shape, OneInside, Inside, LockStages, BuildStages
  <2>2. Building'
    BY <1>1, <1>2, <1>4, <1>5, <1>10 DEF Building, Inside, LockStages, BuildStages
  <2>3. TornDown'
    BY <1>1, <1>4, <1>5, <1>6, <1>10 DEF TornDown, Registered, Inside, LockStages, BuildStages
  <2> QED
    BY <2>1, <2>2, <2>3
<1>12. Known' /\ ExitLast'
  BY <1>2, <1>3, <1>4, <1>5 DEF Gated, Known, ExitLast, Callers, w
<1>13. \A v \in Worlds : StateHeld(v)' => StateHeld(v)
  BY <1>1, <1>2, <1>4, <1>5 DEF StateHeld, Running, w
<1>14. \A v \in Worlds : (FlockHeld(v)' => FlockHeld(v)) /\ (StoreHeld(v)' => StoreHeld(v))
  BY <1>2, <1>6, <1>13 DEF FlockHeld, StoreHeld, Running
<1>15. TasksAreOwned'
  <2>1. \A v \in Worlds : InHand(v) => InHand(v)'
    BY <1>1, <1>4, <1>5 DEF InHand, LockStages, w
  <2> QED
    BY <1>2, <1>6, <2>1 DEF TasksAreOwned, Registered
<1> QED
  BY <1>2, <1>9, <1>11, <1>12, <1>14, <1>15, LettingGo DEF Gated

\* The world goes from the cell to the call that locks it.
LEMMA SwapKeeps ==
    ASSUME IInv, NEW c \in Callers, SwapNone(c)
    PROVE  IInv'
<1> USE DEF IInv
<1>1. gate # <<>> /\ Head(gate) = c /\ call[c].at = "gate" /\ call[c].world = 0
  BY DEF SwapNone, HasGate, Gated, Shape
<1>2. UNCHANGED <<built, tasks, signal, released, abandoned, drops, req>>
  BY DEF SwapNone
<1>3. \A e \in Callers : e # c => call[e].at \notin Inside
  BY <1>1, Alone
<1>4. CASE live = 0
  <2>1. Return(c) /\ live' = live
    BY <1>4 DEF SwapNone
  <2>2. /\ call' \in [Callers -> Call] /\ gate' \in Seq(Callers)
        /\ serve' \in {"up", "draining", "over", "stopped"}
        /\ call'[c].world = 0
        /\ \A e \in Callers : e # c => call'[e] = call[e]
        /\ Shape' /\ OneInside' /\ Building' /\ TornDown' /\ ExitLast'
    BY <1>1, <2>1, ReturnKeeps
  <2>3. TypeOK'
    BY <1>2, <2>1, <2>2 DEF TypeOK
  <2>4. Known'
    BY <1>2, <2>1, <2>2, DaemonLockAssumption DEF Gated, Known, TypeOK, Worlds
  <2>5. \A v \in Worlds : StateHeld(v)' => StateHeld(v)
    BY <1>2, <2>1, <2>2 DEF StateHeld, Running, Worlds
  <2>6. \A v \in Worlds : (FlockHeld(v)' => FlockHeld(v)) /\ (StoreHeld(v)' => StoreHeld(v))
    BY <1>2, <2>5 DEF FlockHeld, StoreHeld, Running
  <2>7. \A v \in Worlds : InHand(v) => InHand(v)'
    BY <1>1, <2>2 DEF InHand, Worlds
  <2>8. TasksAreOwned'
    BY <1>2, <2>1, <2>7 DEF TasksAreOwned, Registered
  <2> QED
    BY <1>2, <2>2, <2>3, <2>4, <2>6, <2>8, LettingGo DEF Gated
<1>5. CASE live # 0
  <2> DEFINE d == [op |-> "lock", world |-> live, at |-> "signal"]
  <2>1. /\ live' = 0 /\ call' = [call EXCEPT ![c] = d]
        /\ UNCHANGED <<gate, serve>>
    BY <1>5 DEF SwapNone, Set
  <2>2. live \in Worlds /\ 0 \in 0..MaxWorlds
    BY <1>5, DaemonLockAssumption DEF TypeOK, Worlds
  <2>3. d \in Call /\ d.at = "signal" /\ d.world = live
    BY DEF Call, TypeOK
  <2> HIDE DEF d
  <2>4. call'[c] = d /\ \A e \in Callers : e # c => call'[e] = call[e]
    BY <2>1 DEF TypeOK
  <2>5. TypeOK'
    BY <1>2, <2>1, <2>2, <2>3 DEF TypeOK
  <2>6. Shape' /\ OneInside'
    BY <1>1, <1>3, <2>1, <2>2, <2>3, <2>4 DEF Gated, Shape, OneInside, Inside, LockStages, BuildStages
  <2>7. Known' /\ Building' /\ TornDown'
    <3>1. Known'
      BY <1>2, <2>1, <2>3, <2>4, DaemonLockAssumption DEF Gated, Known, TypeOK, Worlds
    <3>2. Building' /\ TornDown'
      BY <1>3, <2>1, <2>3, <2>4 DEF Building, TornDown, Registered, Inside, LockStages, BuildStages
    <3> QED
      BY <3>1, <3>2
  <2>8. ExitLast'
    BY <1>1, <2>1, <2>4 DEF Gated, ExitLast, Callers
  <2>9. \A v \in Worlds : StateHeld(v)' => StateHeld(v)
    BY <1>2, <2>1, <2>3, <2>4 DEF StateHeld, Running, Worlds
  <2>10. \A v \in Worlds : (FlockHeld(v)' => FlockHeld(v)) /\ (StoreHeld(v)' => StoreHeld(v))
    BY <1>2, <2>9 DEF FlockHeld, StoreHeld, Running
  <2>11. \A v \in Worlds : InHand(v) \/ v = live => InHand(v)'
    BY <1>1, <2>3, <2>4 DEF InHand, Worlds
  <2>12. TasksAreOwned'
    BY <1>2, <2>11 DEF TasksAreOwned, Registered
  <2> QED
    BY <1>2, <2>5, <2>6, <2>7, <2>8, <2>10, <2>12, LettingGo DEF Gated
<1> QED
  BY <1>4, <1>5

\* A call that ends leaves tasks behind only in a world that is published,
\* abandoned or without registered tasks.
LEMMA EndKeeps ==
    ASSUME IInv, NEW c \in Callers, gate # <<>>, Head(gate) = c, Return(c),
           UNCHANGED <<live, built, tasks, signal, drops, req>>,
           \/ abandoned' = abandoned /\ (call[c].world = 0 \/ Registered(call[c].world) = {})
           \/ abandoned' = abandoned \cup Leaves(c) /\ call[c].at \in BuildStages,
           \/ released' = released
           \/ /\ released' = released \cup {call[c].world}
              /\ call[c].world \in Worlds /\ ~StoreHeld(call[c].world)
    PROVE  IInv'
<1> USE DEF IInv
<1>1. /\ call' \in [Callers -> Call] /\ gate' \in Seq(Callers)
      /\ serve' \in {"up", "draining", "over", "stopped"}
      /\ call'[c].world = 0
      /\ \A e \in Callers : e # c => call'[e] = call[e]
      /\ Shape' /\ OneInside' /\ Building' /\ TornDown' /\ ExitLast'
  BY ReturnKeeps
<1>2. call[c].at \in BuildStages => call[c].world \in Worlds
  BY DEF Gated, Shape, Inside
<1>3. abandoned' \subseteq Worlds /\ released' \subseteq Worlds
  BY <1>2 DEF Leaves, TypeOK
<1>4. TypeOK'
  BY <1>1, <1>3 DEF TypeOK
<1>5. Known'
  <2>0. built \in Nat /\ Known
    BY DaemonLockAssumption DEF Gated, TypeOK, Worlds
  <2>1. built \in Nat /\ \A w \in released' : w <= built
    BY <2>0 DEF Known
  <2>2. \A e \in Callers : call'[e].world <= built
    BY <1>1, <2>1 DEF Gated, Known
  <2> QED
    BY <2>1, <2>2 DEF Gated, Known
<1>6. \A v \in Worlds : StateHeld(v)' => StateHeld(v)
  BY <1>1 DEF StateHeld, Running, Worlds
<1>7. \A v \in Worlds : (FlockHeld(v)' => FlockHeld(v)) /\ (StoreHeld(v)' => StoreHeld(v))
  BY <1>6 DEF FlockHeld, StoreHeld, Running
<1>8. OneOwner' /\ ReleasedIsClosed'
  BY <1>3, <1>7 DEF OneOwner, ReleasedIsClosed, TypeOK
<1>9. ASSUME NEW v \in Worlds, Registered(v) # {}
      PROVE  v = live \/ v \in abandoned' \/ InHand(v)'
  <2>1. CASE v = live \/ v \in abandoned
    BY <2>1
  <2>2. CASE InHand(v)
    <3>1. PICK e \in Callers : call[e].world = v /\ call[e].at # "auth"
      BY <2>2 DEF InHand
    <3>2. CASE e # c
      BY <1>1, <3>1, <3>2 DEF InHand
    <3>3. CASE e = c
      <4>1. v # 0
        BY DEF Worlds
      <4>2. abandoned' = abandoned \cup Leaves(c) /\ call[c].at \in BuildStages
        BY <1>9, <3>1, <3>3, <4>1
      <4>3. Leaves(c) = {v}
        BY <1>9, <3>1, <3>3, <4>2 DEF Leaves, BuildStages
      <4> QED
        BY <4>2, <4>3
    <3> QED
      BY <3>2, <3>3
  <2> QED
    BY <1>9, <2>1, <2>2 DEF TasksAreOwned, Registered
<1>10. TasksAreOwned'
  BY <1>9 DEF TasksAreOwned, Registered
<1> QED
  BY <1>1, <1>4, <1>5, <1>8, <1>10 DEF Gated

\* await_store_release, a refused unlock and a failed build end the call.
LEMMA EndingKeeps ==
    ASSUME IInv, NEW c \in Callers, AwaitRelease(c) \/ RefuseUnlock(c) \/ BuildFails(c)
    PROVE  IInv'
<1>g. Gated
  BY DEF IInv
<1>1. CASE AwaitRelease(c)
  <2>1. /\ call[c].at = "await" /\ gate # <<>> /\ Head(gate) = c /\ Return(c)
        /\ UNCHANGED <<live, built, tasks, signal, drops, req, abandoned>>
        /\ released' = IF StoreHeld(call[c].world) THEN released ELSE released \cup {call[c].world}
    BY <1>1 DEF AwaitRelease, HasGate, worldVars
  <2>2. call[c].world \in Worlds /\ Registered(call[c].world) = {}
    BY <1>g, <2>1 DEF Gated, Shape, TornDown, Registered, Inside, LockStages
  <2> QED
    BY <2>1, <2>2, EndKeeps
<1>2. CASE RefuseUnlock(c)
  <2>1. /\ call[c].at = "gate" /\ gate # <<>> /\ Head(gate) = c /\ Return(c)
        /\ UNCHANGED <<live, built, tasks, signal, drops, req, abandoned, released>>
    BY <1>2 DEF RefuseUnlock, HasGate, worldVars
  <2>2. call[c].world = 0
    BY <1>g, <2>1 DEF Gated, Shape
  <2> QED
    BY <2>1, <2>2, EndKeeps
<1>3. CASE BuildFails(c)
  <2>1. /\ call[c].at \in BuildStages /\ gate # <<>> /\ Head(gate) = c /\ Return(c)
        /\ UNCHANGED <<live, built, tasks, signal, drops, req, released>>
        /\ abandoned' = abandoned \cup Leaves(c)
    BY <1>3 DEF BuildFails, HasGate, worldVars, BuildStages
  <2> QED
    BY <2>1, EndKeeps
<1> QED
  BY <1>1, <1>2, <1>3

\* A world is begun when nobody has the flock of any other.
LEMMA OpenKeeps ==
    ASSUME IInv, NEW c \in Callers, OpenWorld(c)
    PROVE  IInv'
<1> USE DEF IInv
<1> DEFINE n == built + 1
           d == [op |-> "unlock", world |-> n, at |-> "init"]
<1>1. /\ gate # <<>> /\ Head(gate) = c /\ call[c].at = "gate" /\ live = 0
      /\ try_write /\ built < MaxWorlds /\ built' = n
      /\ call' = [call EXCEPT ![c] = d]
      /\ UNCHANGED <<live, tasks, signal, gate, released, abandoned, drops, serve, req>>
  BY DEF OpenWorld, HasGate, Set
<1>2. n \in Worlds /\ built \in Nat /\ n \in 0..MaxWorlds
  BY <1>1, DaemonLockAssumption DEF TypeOK, Worlds
<1>3. d \in Call /\ d.at = "init" /\ d.world = n
  BY <1>2 DEF Call
<1> HIDE DEF d
<1>4. call'[c] = d /\ \A e \in Callers : e # c => call'[e] = call[e]
  BY <1>1 DEF TypeOK
<1>5. \A e \in Callers : e # c => call[e].at \notin Inside
  BY <1>1, Alone
<1>6. TypeOK'
  BY <1>1, <1>2, <1>3 DEF TypeOK
<1>7. Shape' /\ OneInside'
  BY <1>1, <1>2, <1>3, <1>4, <1>5 DEF Gated, Shape, OneInside, Inside, LockStages, BuildStages
<1>8. Known'
  <2>1. \A e \in Callers : call[e].world \in Nat /\ call[e].world <= built
    BY DaemonLockAssumption DEF Gated, Known, TypeOK, Call
  <2>2. \A w \in released : w \in Nat /\ w <= built
    BY DEF Gated, Known, TypeOK, Worlds
  <2> QED
    BY <1>1, <1>2, <1>3, <1>4, <2>1, <2>2 DEF Known
<1>9. Building' /\ TornDown' /\ ExitLast'
  <2>1. Building' /\ TornDown'
    BY <1>1, <1>3, <1>4, <1>5 DEF Building, TornDown, Registered, Inside, LockStages, BuildStages
  <2>2. ExitLast'
    BY <1>1, <1>4 DEF Gated, ExitLast, Callers
  <2> QED
    BY <2>1, <2>2
<1>10. \A v \in Worlds : StateHeld(v)' => v = n \/ StateHeld(v)
  BY <1>1, <1>3, <1>4 DEF StateHeld, Running
<1>11. \A v \in Worlds : FlockHeld(v)' => v = n
  BY <1>1, <1>10 DEF FlockHeld, try_write
<1>12. \A v \in Worlds : StoreHeld(v)' => v = n \/ StoreHeld(v)
  BY <1>1, <1>10 DEF StoreHeld, FlockHeld, Running
<1>13. n \notin released
  BY <1>2 DEF Gated, Known
<1>14. OneOwner' /\ ReleasedIsClosed'
  BY <1>1, <1>11, <1>12, <1>13 DEF OneOwner, ReleasedIsClosed, TypeOK
<1>15. \A v \in Worlds : InHand(v) => InHand(v)'
  <2>1. call[c].world = 0
    BY <1>1 DEF Gated, Shape
  <2> QED
    BY <1>4, <2>1 DEF InHand, Worlds
<1>16. TasksAreOwned'
  BY <1>1, <1>15 DEF TasksAreOwned, Registered
<1> QED
  BY <1>6, <1>7, <1>8, <1>9, <1>14, <1>16 DEF Gated

\* The stages of a build start tasks in a world that is in hand.
LEMMA BuildKeeps ==
    ASSUME IInv, NEW c \in Callers, InitRuntime(c) \/ InitBot(c)
    PROVE  IInv'
<1> USE DEF IInv
<1> DEFINE w == call[c].world
<1>1. PICK next \in {"boot", "restore"}, k \in {{"runtime"}, {"daemon", "resumer"}} :
        /\ gate # <<>> /\ Head(gate) = c /\ call[c].at \in BuildStages
        /\ tasks' = [tasks EXCEPT ![w] = @ \cup k]
        /\ call' = [call EXCEPT ![c].at = next]
        /\ UNCHANGED <<live, built, signal, gate, released, abandoned, drops, serve, req>>
  BY DEF InitRuntime, InitBot, Build, HasGate, BuildStages
<1>2. w \in Worlds
  BY <1>1 DEF Gated, Shape, Inside
<1>3. /\ call'[c] = [call[c] EXCEPT !.at = next] /\ call[c] \in Call
      /\ \A e \in Callers : e # c => call'[e] = call[e]
  BY <1>1 DEF TypeOK
<1>4. call'[c] \in Call /\ call'[c].at = next /\ call'[c].world = w
  BY <1>3 DEF Call
<1>5. \A e \in Callers : e # c => call[e].at \notin Inside
  BY <1>1, Alone
<1> HIDE DEF w
<1>6. /\ tasks' \in [Worlds -> SUBSET {"runtime", "daemon", "resumer"}]
      /\ \A v \in Worlds : v # w => tasks'[v] = tasks[v]
  BY <1>1, <1>2 DEF TypeOK
<1>7. TypeOK'
  <2>1. call' \in [Callers -> Call]
    BY <1>1, <1>4 DEF TypeOK, w
  <2> QED
    BY <1>1, <1>6, <2>1 DEF TypeOK
<1>8. Shape' /\ OneInside'
  BY <1>1, <1>2, <1>3, <1>4, <1>5 DEF Gated, Shape, OneInside, Inside, LockStages, BuildStages
<1>9. Known' /\ ExitLast'
  <2>1. Known'
    BY <1>1, <1>3, <1>4 DEF Gated, Known, w
  <2>2. ExitLast'
    BY <1>1, <1>3, <1>4 DEF Gated, ExitLast, Callers, BuildStages
  <2> QED
    BY <2>1, <2>2
<1>10. Building' /\ TornDown'
  BY <1>1, <1>3, <1>4, <1>5 DEF Gated, Building, TornDown, Registered, Inside, LockStages, BuildStages
<1>11. StateHeld(w)
  BY <1>1 DEF StateHeld, BuildStages, w
<1>12. \A v \in Worlds : StateHeld(v)' => StateHeld(v)
  BY <1>1, <1>3, <1>4, <1>11 DEF StateHeld, Running
<1>13. \A v \in Worlds : (FlockHeld(v)' => FlockHeld(v)) /\ (StoreHeld(v)' => StoreHeld(v))
  BY <1>1, <1>6, <1>11, <1>12 DEF FlockHeld, StoreHeld, Running
<1>14. \A v \in Worlds : v = w \/ InHand(v) => InHand(v)'
  <2>1. call'[c].world = w /\ call'[c].at # "auth"
    BY <1>1, <1>3, <1>4 DEF w
  <2>2. ASSUME NEW v \in Worlds, NEW e \in Callers, call[e].world = v, call[e].at # "auth", v # w
        PROVE  call'[e].world = v /\ call'[e].at # "auth"
    BY <1>3, <1>4, <2>2 DEF w
  <2> QED
    BY <2>1, <2>2 DEF InHand
<1>15. TasksAreOwned'
  BY <1>1, <1>6, <1>14 DEF TasksAreOwned, Registered
<1> QED
  BY <1>1, <1>7, <1>8, <1>9, <1>10, <1>13, <1>15, LettingGo DEF Gated

\* The world goes from the call that built it to the cell.
LEMMA PublishKeeps ==
    ASSUME IInv, NEW c \in Callers, Publish(c)
    PROVE  IInv'
<1>g. TypeOK /\ Gated /\ OneOwner /\ TasksAreOwned /\ ReleasedIsClosed
  BY DEF IInv
<1> DEFINE w == call[c].world
<1>1. /\ gate # <<>> /\ Head(gate) = c /\ call[c].at = "restore" /\ Return(c) /\ live' = w
      /\ UNCHANGED <<built, tasks, signal, released, abandoned, drops, req>>
  BY DEF Publish, HasGate
<1>2. w \in Worlds /\ live = 0
  BY <1>g, <1>1 DEF Gated, Shape, Building, Inside, BuildStages
<1>3. /\ call' \in [Callers -> Call] /\ gate' \in Seq(Callers)
      /\ serve' \in {"up", "draining", "over", "stopped"}
      /\ call'[c].world = 0
      /\ \A e \in Callers : e # c => call'[e] = call[e]
      /\ Shape' /\ OneInside' /\ TornDown' /\ ExitLast'
      /\ \A e \in Callers : call'[e].at \notin Inside
  BY <1>1, ReturnKeeps
<1>4. TypeOK'
  BY <1>g, <1>1, <1>2, <1>3 DEF TypeOK, Worlds
<1>5. Known'
  <2>1. built \in Nat /\ w <= built /\ Known
    BY <1>g, DaemonLockAssumption DEF Gated, Known, TypeOK, Worlds
  <2>2. \A e \in Callers : call'[e].world <= built
    BY <1>3, <2>1 DEF Known
  <2> QED
    BY <1>1, <2>1, <2>2 DEF Known
<1>6. Building'
  BY <1>3 DEF Building, Inside
<1>7. StateHeld(w)
  BY <1>1 DEF StateHeld
<1>8. \A v \in Worlds : StateHeld(v)' => StateHeld(v)
  BY <1>1, <1>3, <1>7 DEF StateHeld, Running, Worlds
<1>9. \A v \in Worlds : (FlockHeld(v)' => FlockHeld(v)) /\ (StoreHeld(v)' => StoreHeld(v))
  BY <1>1, <1>8 DEF FlockHeld, StoreHeld, Running
<1>10. \A v \in Worlds : InHand(v) => v = w \/ InHand(v)'
  BY <1>3 DEF InHand
<1>11. TasksAreOwned'
  <2>1. \A v \in Worlds : v # 0
    BY DEF Worlds
  <2> QED
    BY <1>g, <1>1, <1>2, <1>10, <2>1 DEF TasksAreOwned, Registered
<1>12. OneOwner' /\ ReleasedIsClosed'
  BY <1>g, <1>1, <1>9, LettingGo
<1> QED
  BY <1>3, <1>4, <1>5, <1>6, <1>11, <1>12 DEF IInv, Gated

\* Leaving a queue keeps the others in their order.
LEMMA WithoutType ==
    ASSUME NEW S, NEW q \in Seq(S), NEW i \in 1..Len(q)
    PROVE  /\ without(q, i) \in Seq(S)
           /\ i # 1 => without(q, i) # <<>> /\ Head(without(q, i)) = Head(q)
<1>1. Len(q) \in Nat /\ q \in [1..Len(q) -> S] /\ Len(q) - 1 \in Nat
  BY LenProperties
<1>2. without(q, i) \in [1..(Len(q) - 1) -> S]
  BY <1>1 DEF without
<1>3. without(q, i) \in Seq(S)
  BY <1>1, <1>2, SeqDef
<1>4. ASSUME i # 1 PROVE without(q, i) # <<>> /\ Head(without(q, i)) = Head(q)
  <2>1. 1 \in 1..(Len(q) - 1) /\ 1 < i
    BY <1>1, <1>4
  <2>2. without(q, i)[1] = q[1]
    BY <1>1, <2>1 DEF without
  <2>3. Len(without(q, i)) = Len(q) - 1 /\ Len(q) - 1 > 0
    <3>1. DOMAIN without(q, i) = 1..(Len(q) - 1)
      BY DEF without
    <3>2. DOMAIN without(q, i) = 1..Len(without(q, i)) /\ Len(without(q, i)) \in Nat
      BY <1>3, LenProperties
    <3>3. Len(q) - 1 > 0
      BY <1>1, <2>1
    <3>4. ASSUME NEW m \in Nat, NEW n \in Nat, n > 0, 1..m = 1..n PROVE m = n
      <4>1. m \in 1..n \/ m = 0
        BY <3>4
      <4>2. n \in 1..m
        BY <3>4
      <4> QED
        BY <4>1, <4>2
    <3> HIDE DEF without
    <3> QED
      BY <1>1, <3>1, <3>2, <3>3, <3>4
  <2>4. without(q, i) # <<>> /\ q # <<>>
    BY <2>1, <2>3, <1>1, EmptySeq
  <2> QED
    BY <2>2, <2>4, <1>3
<1> QED
  BY <1>3, <1>4

\* A future that is dropped leaves its world abandoned, if tasks run in it.
LEMMA DropKeeps ==
    ASSUME IInv, NEW c \in Callers, DropCall(c)
    PROVE  IInv'
<1>g. TypeOK /\ Gated /\ OneOwner /\ TasksAreOwned /\ ReleasedIsClosed
  BY DEF IInv
<1>1. /\ call' = [call EXCEPT ![c] = NoCall] /\ call[c].at \notin {"idle", "due", "signal"}
      /\ abandoned' = abandoned \cup Leaves(c)
      /\ UNCHANGED <<live, built, tasks, signal, released, serve, req>>
      /\ drops' \in 0..MaxDrops /\ c # "main"
  BY <1>g, DaemonLockAssumption DEF DropCall, worldVars, TypeOK
<1>2. NoCall \in Call /\ NoCall.at = "idle" /\ NoCall.world = 0 /\ NoCall.at \notin Inside
  BY DaemonLockAssumption DEF NoCall, Call, Inside, LockStages, BuildStages
<1>3. call'[c] = NoCall /\ (\A e \in Callers : e # c => call'[e] = call[e]) /\ call' \in [Callers -> Call]
  BY <1>g, <1>1, <1>2 DEF TypeOK
<1>4. /\ gate' \in Seq(Callers)
      /\ \A e \in Callers : e # c /\ gate # <<>> /\ Head(gate) = e => gate' # <<>> /\ Head(gate') = e
  <2>1. gate \in Seq(Callers)
    BY <1>g DEF TypeOK
  <2>2. CASE gate' = gate
    BY <2>1, <2>2
  <2>3. CASE \E i \in 1..Len(gate) : gate[i] = c /\ gate' = without(gate, i)
    <3>1. PICK i \in 1..Len(gate) : gate[i] = c /\ gate' = without(gate, i)
      BY <2>3
    <3>2. /\ gate' \in Seq(Callers)
          /\ i # 1 => gate' # <<>> /\ Head(gate') = Head(gate)
      BY <2>1, <3>1, WithoutType
    <3>3. gate # <<>> => Head(gate) = gate[1]
      BY <2>1
    <3> QED
      BY <3>1, <3>2, <3>3
  <2> QED
    BY <2>2, <2>3 DEF DropCall
<1>5. /\ call[c].at \in {"auth", "gate"} \cup Inside
      /\ call[c].at \in Inside => call[c].world \in Worlds
  BY <1>g, <1>1 DEF TypeOK, Call, Gated, Shape, Inside, LockStages, BuildStages
<1>6. Leaves(c) \subseteq Worlds
  BY <1>5 DEF Leaves
<1>7. TypeOK'
  BY <1>g, <1>1, <1>3, <1>4, <1>6 DEF TypeOK
<1>8. Shape' /\ OneInside'
  BY <1>g, <1>2, <1>3, <1>4 DEF Gated, Shape, OneInside
<1>9. Known'
  <2>1. built \in Nat /\ Known
    BY <1>g, DaemonLockAssumption DEF Gated, TypeOK, Worlds
  <2> QED
    BY <1>1, <1>2, <1>3, <2>1 DEF Known
<1>10. Building' /\ TornDown' /\ ExitLast'
  <2>1. Building' /\ TornDown'
    BY <1>g, <1>1, <1>2, <1>3 DEF Gated, Building, TornDown, Registered, Inside, LockStages, BuildStages
  <2>2. ExitLast'
    BY <1>g, <1>1, <1>3 DEF Gated, ExitLast, Callers
  <2> QED
    BY <2>1, <2>2
<1>11. \A v \in Worlds : StateHeld(v)' => StateHeld(v)
  BY <1>1, <1>2, <1>3 DEF StateHeld, Running, Worlds
<1>12. \A v \in Worlds : (FlockHeld(v)' => FlockHeld(v)) /\ (StoreHeld(v)' => StoreHeld(v))
  BY <1>1, <1>11 DEF FlockHeld, StoreHeld, Running
<1>13. ASSUME NEW v \in Worlds, Registered(v) # {}
       PROVE  v = live \/ v \in abandoned' \/ InHand(v)'
  <2>1. CASE v = live \/ v \in abandoned
    BY <1>1, <2>1
  <2>2. CASE InHand(v)
    <3>1. PICK e \in Callers : call[e].world = v /\ call[e].at # "auth"
      BY <2>2 DEF InHand
    <3>2. CASE e # c
      BY <1>3, <3>1, <3>2 DEF InHand
    <3>3. CASE e = c
      <4>1. call[c].at # "gate"
        BY <1>g, <3>1, <3>3 DEF Gated, Shape, Worlds
      <4>2. Leaves(c) = {v}
        BY <1>13, <3>1, <3>3, <4>1 DEF Leaves
      <4> QED
        BY <1>1, <4>2
    <3> QED
      BY <3>2, <3>3
  <2> QED
    BY <1>g, <1>13, <2>1, <2>2 DEF TasksAreOwned, Registered
<1>14. TasksAreOwned'
  BY <1>1, <1>13 DEF TasksAreOwned, Registered
<1>15. OneOwner' /\ ReleasedIsClosed'
  BY <1>g, <1>1, <1>12, LettingGo
<1> QED
  BY <1>7, <1>8, <1>9, <1>10, <1>14, <1>15 DEF IInv, Gated

\* The resumer of a world lets go of it, whatever has become of the world.
LEMMA ResumerKeeps ==
    ASSUME IInv, NEW w \in Worlds, ResumerEnds(w)
    PROVE  IInv'
<1> USE DEF IInv
<1>1. /\ UNCHANGED <<live, built, signal, gate, call, released, abandoned, drops, req, serve>>
      /\ tasks' = [tasks EXCEPT ![w] = @ \ {"resumer"}]
  BY DEF ResumerEnds, callVars
<1>2. /\ tasks' \in [Worlds -> SUBSET {"runtime", "daemon", "resumer"}]
      /\ \A v \in Worlds : tasks'[v] \subseteq tasks[v]
      /\ \A v \in Worlds : Registered(v)' = Registered(v)
  BY <1>1 DEF TypeOK, Registered
<1>3. TypeOK'
  BY <1>1, <1>2 DEF TypeOK
<1>4. Shape' /\ OneInside' /\ Known' /\ Building' /\ ExitLast'
  BY <1>1 DEF Gated, Shape, OneInside, Known, Building, ExitLast
<1>5. TornDown'
  <2>1. \A c \in Callers : call[c].at \in {"daemon", "drop", "await"} => call[c].world \in Worlds
    BY DEF Gated, Shape, Inside, LockStages
  <2> QED
    BY <1>1, <1>2, <2>1 DEF Gated, TornDown
<1>6. TasksAreOwned'
  BY <1>1, <1>2 DEF TasksAreOwned, InHand
<1>7. \A v \in Worlds : (FlockHeld(v)' => FlockHeld(v)) /\ (StoreHeld(v)' => StoreHeld(v))
  BY <1>1, <1>2 DEF FlockHeld, StoreHeld, StateHeld, Running
<1> QED
  BY <1>1, <1>3, <1>4, <1>5, <1>6, <1>7, LettingGo DEF Gated

\* Every step keeps the inductive invariant.
LEMMA NextKeeps == IInv /\ [Next]_vars => IInv'
<1> SUFFICES ASSUME IInv, [Next]_vars PROVE IInv'
  OBVIOUS
<1>1. ASSUME NEW c \in Callers, CallStep(c) PROVE IInv'
  BY <1>1, CallersKeep, SwapKeeps, LockStepKeeps, EndingKeeps, OpenKeeps, BuildKeeps, PublishKeeps
     DEF CallStep
<1>2. CASE UNCHANGED vars
  <2>1. UNCHANGED <<live, built, tasks, signal, gate, call, released, abandoned, drops, req, serve>>
    BY <1>2 DEF vars, worldVars, callVars
  <2>2. TypeOK'
    BY <2>1 DEF IInv, TypeOK
  <2>3. Gated'
    BY <2>1 DEF IInv, Gated, Shape, OneInside, Known, Building, TornDown, Registered, ExitLast
  <2>4. TasksAreOwned'
    BY <2>1 DEF IInv, TasksAreOwned, Registered, InHand
  <2>5. \A w \in Worlds : (FlockHeld(w)' => FlockHeld(w)) /\ (StoreHeld(w)' => StoreHeld(w))
    BY <2>1 DEF FlockHeld, StoreHeld, StateHeld, Running
  <2>6. OneOwner' /\ ReleasedIsClosed'
    BY <2>1, <2>5, LettingGo DEF IInv
  <2> QED
    BY <2>2, <2>3, <2>4, <2>6 DEF IInv
<1> QED
  BY <1>1, <1>2, RequestKeeps, CallersKeep, DropKeeps, ResumerKeeps DEF Next

\* The inductive invariant holds in every reachable state.
THEOREM Inductive == Spec => []IInv
  BY InitIInv, NextKeeps, PTL DEF Spec

-----------------------------------------------------------------------------
\* The type invariant, for any constants.
THEOREM TypeCorrect == Spec => []TypeOK
<1>1. IInv => TypeOK
  BY DEF IInv
<1> QED
  BY <1>1, Inductive, PTL

\* The database never has two worlds at once, for any number of requests that
\* outlive a lock, of builds that fail and of calls that are dropped.
THEOREM OneWorldOwnsTheStore == Spec => []OneOwner
<1>1. IInv => OneOwner
  BY DEF IInv
<1> QED
  BY <1>1, Inductive, PTL

\* Background tasks are the published world's, or a call has them in hand, or
\* the call that had them was cut off.  What else may run in a world that a
\* lock has let go of is its resumer, and nothing else.
THEOREM NoStrayTasks == Spec => []TasksAreOwned
<1>1. IInv => TasksAreOwned
  BY DEF IInv
<1> QED
  BY <1>1, Inductive, PTL

\* What a lock reports as released is closed, and nothing opens it again.
THEOREM ReleasedStaysClosed == Spec => []ReleasedIsClosed
<1>1. IInv => ReleasedIsClosed
  BY DEF IInv
<1> QED
  BY <1>1, Inductive, PTL
=============================================================================

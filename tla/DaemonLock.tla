----------------------------- MODULE DaemonLock -----------------------------
(***************************************************************************)
(* The daemon's lock: apps/springtaled/src/api/lock.rs, the rebuild of     *)
(* runtime/boot/pipeline.rs and the exit of runtime/boot/mod.rs.           *)
(*                                                                         *)
(* Everything an unlocked daemon owns is one WORLD (a Live).  Worlds are   *)
(* numbered in the order they are built; 0 is no world.  A world's store   *)
(* closes, and its keys go, when the last of its holders does: the guard's *)
(* cell, a call with an Arc of it, a request in its router, a background   *)
(* task, a job.  One background task is on neither list that a lock shuts  *)
(* down: the resumer that the bot's event loop spawns when it starts.      *)
(*                                                                         *)
(* Who may lock, and what a request presents, is left to module Login: a   *)
(* check there may pass or fail here.  A passphrase is right or wrong.     *)
(***************************************************************************)
EXTENDS Naturals, Sequences

CONSTANTS
    Handlers,       \* connections that POST /vault/lock or /vault/unlock
    Requests,       \* what runs in a world: a request, a job, a stream
    MaxWorlds,      \* bound: worlds built
    MaxDrops        \* bound: lock and unlock calls whose client goes away

Worlds == 1..MaxWorlds
Callers == Handlers \cup {"auto", "main"}

ASSUME DaemonLockAssumption ==
    /\ MaxWorlds \in Nat \ {0} /\ MaxDrops \in Nat
    /\ Handlers \cap {"auto", "main"} = {}

\* A call of guard.lock or guard.unlock, by how far it has come; world is the
\* one its Arc or its build holds.
Call == [op : {"none", "lock", "unlock"}, world : 0..MaxWorlds,
         at : {"idle", "auth", "due", "gate", "signal", "sessions", "runtime",
               "daemon", "drop", "await", "init", "boot", "restore"}]
NoCall == [op |-> "none", world |-> 0, at |-> "idle"]

Request == [kind : {"none", "request", "job", "stream"}, world : 0..MaxWorlds]
NoRequest == [kind |-> "none", world |-> 0]

VARIABLES
    live,       \* RuntimeGuard.live: the published world, 0 when locked
    built,      \* how many worlds have been started
    tasks,      \* world -> its lists of tasks not yet shut down, its resumer
    signal,     \* world -> the value of its lock_signal
    gate,       \* RuntimeGuard.gate: its holder, then those waiting
    call,       \* caller -> its call
    req,        \* what runs in the worlds
    serve,      \* axum::serve: up, draining, over, process gone
    released,   \* worlds whose lock reported store_released
    abandoned,  \* history: worlds nobody can tear down any more
    drops       \* calls dropped

worldVars == <<live, built, tasks, signal>>
callVars  == <<gate, call, released, abandoned, drops>>
vars == <<worldVars, callVars, req, serve>>

(* ---- who holds what -------------------------------------------------- *)

Running(kind, w) == \E r \in Requests : req[r] = [kind |-> kind, world |-> w]

\* An AppState of w: behind the guard, in a call, in a request.  The worker of
\* the router's buffer lets go of its own when it is next polled after the
\* last of these; that delay counts as part of the last one.  A stream's body
\* has subscriptions only.
StateHeld(w) ==
    \/ live = w
    \/ \E c \in Callers : call[c].world = w /\ call[c].at # "await"
    \/ Running("request", w)

\* The RuntimeState, and the flock in it: also in the daemon's own tasks,
\* whose response dispatcher holds a clone, and in the resumer.
FlockHeld(w) == StateHeld(w) \/ tasks[w] \cap {"daemon", "resumer"} # {}

\* The store: also in every background task and in a job's bridge.
StoreHeld(w) == FlockHeld(w) \/ tasks[w] # {} \/ Running("job", w)

Init ==
    /\ live = 1 /\ built = 1
    /\ tasks = [w \in Worlds |-> IF w = 1 THEN {"runtime", "daemon", "resumer"} ELSE {}]
    /\ signal = [w \in Worlds |-> FALSE]
    /\ gate = <<>>
    /\ call = [c \in Callers |-> NoCall]
    /\ req = [r \in Requests |-> NoRequest]
    /\ serve = "up"
    /\ released = {} /\ abandoned = {} /\ drops = 0

(* ---- what runs in a world -------------------------------------------- *)

Become(r, kind, w) ==
    /\ req' = [req EXCEPT ![r] = [kind |-> kind, world |-> w]]
    /\ UNCHANGED <<worldVars, callVars, serve>>

\* forward: the router of the world that is live now is cloned, and the
\* request stays in that world whatever happens to the guard.
forward(r) == serve = "up" /\ live # 0 /\ req[r] = NoRequest /\ Become(r, "request", live)

\* A job that the consumer task spawned, awaited by nobody.
StartJob(r, w) == "runtime" \in tasks[w] /\ req[r] = NoRequest /\ Become(r, "job", w)

\* A request is answered or its client goes away; a job comes to its end.
End(r) ==
    /\ req[r].kind \in {"request", "job"}
    /\ req' = [req EXCEPT ![r] = NoRequest]
    /\ UNCHANGED <<worldVars, callVars, serve>>

\* GET /stream: the handler subscribes and is over, its body goes on.
OpenStream(r) == req[r].kind = "request" /\ Become(r, "stream", req[r].world)

StreamEnds_SignalOnly(r) ==
    /\ req[r].kind = "stream"
    /\ signal[req[r].world]
    /\ req' = [req EXCEPT ![r] = NoRequest]
    /\ UNCHANGED <<worldVars, callVars, serve>>

\* locked(): the signal is true, or every sender of it is gone.
StreamEnds(r) ==
    /\ req[r].kind = "stream"
    /\ signal[req[r].world] \/ ~StateHeld(req[r].world)
    /\ req' = [req EXCEPT ![r] = NoRequest]
    /\ UNCHANGED <<worldVars, callVars, serve>>

ClientLeaves(r) ==
    /\ req[r].kind = "stream"
    /\ req' = [req EXCEPT ![r] = NoRequest]
    /\ UNCHANGED <<worldVars, callVars, serve>>

\* The resumer comes to the end of its checkpoints, at once if there are none;
\* one whose approval nobody answers is polled without end.
ResumerEnds(w) ==
    /\ "resumer" \in tasks[w]
    /\ tasks' = [tasks EXCEPT ![w] = @ \ {"resumer"}]
    /\ UNCHANGED <<live, built, signal, callVars, req, serve>>

(* ---- the callers of the guard ---------------------------------------- *)

Set(c, op, at, w) == call' = [call EXCEPT ![c] = [op |-> op, world |-> w, at |-> at]]

\* POST /vault/lock: authenticates with its Arc in hand, then lets go of it.
LockHandler(c) ==
    /\ serve = "up" /\ live # 0 /\ call[c] = NoCall
    /\ Set(c, "lock", "auth", live)
    /\ UNCHANGED <<worldVars, gate, released, abandoned, drops, serve, req>>

LockAuthenticates(c) ==
    /\ call[c].at = "auth"
    /\ Set(c, "lock", "due", 0) \/ call' = [call EXCEPT ![c] = NoCall]
    /\ UNCHANGED <<worldVars, gate, released, abandoned, drops, serve, req>>

\* POST /vault/unlock: 409 unless locked.
UnlockHandler(c) ==
    /\ serve = "up" /\ live = 0 /\ call[c] = NoCall /\ built < MaxWorlds
    /\ Set(c, "unlock", "due", 0)
    /\ UNCHANGED <<worldVars, gate, released, abandoned, drops, serve, req>>

\* spawn_auto_lock: the published world was found idle for long enough.
AutoLock ==
    /\ serve \in {"up", "draining"} /\ live # 0 /\ call["auto"] = NoCall
    /\ Set("auto", "lock", "due", 0)
    /\ UNCHANGED <<worldVars, gate, released, abandoned, drops, serve, req>>

\* gate.lock().await: tokio's mutex is fair.
AskGate(c) ==
    /\ call[c].at = "due"
    /\ gate' = Append(gate, c)
    /\ call' = [call EXCEPT ![c].at = "gate"]
    /\ UNCHANGED <<worldVars, released, abandoned, drops, serve, req>>

HasGate(c, op, at) == gate # <<>> /\ Head(gate) = c /\ call[c].op = op /\ call[c].at = at

Return_KeepsGate(c) ==
    /\ call' = [call EXCEPT ![c] = NoCall]
    /\ UNCHANGED gate
    /\ serve' = IF c = "main" THEN "stopped" ELSE serve

\* The call is over: its Arc and the gate are let go of.  The last one is the
\* daemon's own, after which the process is gone.
Return(c) ==
    /\ call' = [call EXCEPT ![c] = NoCall]
    /\ gate' = Tail(gate)
    /\ serve' = IF c = "main" THEN "stopped" ELSE serve

(* ---- RuntimeGuard::lock ---------------------------------------------- *)

\* The world is taken out of the cell; there may be none.
SwapNone(c) ==
    /\ HasGate(c, "lock", "gate")
    /\ IF live = 0
       THEN Return(c) /\ UNCHANGED live
       ELSE /\ live' = 0 /\ Set(c, "lock", "signal", live)
            /\ UNCHANGED <<gate, serve>>
    /\ UNCHANGED <<built, tasks, signal, released, abandoned, drops, req>>

Step(c, at, next) ==
    /\ HasGate(c, "lock", at)
    /\ call' = [call EXCEPT ![c].at = next]
    /\ UNCHANGED <<live, built, gate, released, abandoned, drops, serve, req>>

\* lock_signal.send keeps the old value when nobody is subscribed; then the
\* chat loops, the scheduler and the heartbeat are stopped.  An event that is
\* already queued can still start a job.
SendSignal(c) ==
    LET w == call[c].world
    IN  /\ Step(c, "signal", "sessions")
        /\ signal' = IF Running("stream", w) THEN [signal EXCEPT ![w] = TRUE] ELSE signal
        /\ UNCHANGED tasks

\* The two maps of module Login.
ClearSessions(c) == Step(c, "sessions", "runtime") /\ UNCHANGED <<tasks, signal>>

\* TaskHandles::shutdown, twice: abort and join.  The vault is taken out of
\* the Live and zeroized in the same breath as the second.
ShutdownRuntime(c) ==
    /\ Step(c, "runtime", "daemon")
    /\ tasks' = [tasks EXCEPT ![call[c].world] = @ \ {"runtime"}]
    /\ UNCHANGED signal

ShutdownDaemon_Forgets(c) ==
    /\ Step(c, "daemon", "drop")
    /\ UNCHANGED <<tasks, signal>>

ShutdownDaemon(c) ==
    /\ Step(c, "daemon", "drop")
    /\ tasks' = [tasks EXCEPT ![call[c].world] = @ \ {"daemon"}]
    /\ UNCHANGED signal

\* drop_live: no other Arc of the Live is left, or DRAIN_TIMEOUT is over and
\* those that are left drop it.  The call's own Arc goes either way.
DropLive(c) ==
    /\ Step(c, "drop", "await")
    /\ UNCHANGED <<tasks, signal>>

AwaitRelease_FlockOnly(c) ==
    /\ HasGate(c, "lock", "await")
    /\ Return(c)
    /\ released' = IF FlockHeld(call[c].world) THEN released ELSE released \cup {call[c].world}
    /\ UNCHANGED <<worldVars, abandoned, drops, req>>

\* await_store_release: the last holder is gone, or it gives up waiting.
AwaitRelease(c) ==
    /\ HasGate(c, "lock", "await")
    /\ Return(c)
    /\ released' = IF StoreHeld(call[c].world) THEN released ELSE released \cup {call[c].world}
    /\ UNCHANGED <<worldVars, abandoned, drops, req>>

(* ---- RuntimeGuard::unlock and build_live ----------------------------- *)

try_write_Shared == TRUE

\* acquire_runtime_lock: flock(2) on the database's lock file, not waited for.
try_write == \A w \in Worlds : ~FlockHeld(w)

\* The passphrase opens the vault and the flock is free: a world is begun.
OpenWorld(c) ==
    /\ HasGate(c, "unlock", "gate") /\ live = 0
    /\ try_write /\ built < MaxWorlds
    /\ built' = built + 1
    /\ Set(c, "unlock", "init", built + 1)
    /\ UNCHANGED <<live, tasks, signal, gate, released, abandoned, drops, serve, req>>

\* Already unlocked, a wrong passphrase, or another runtime has the flock.
RefuseUnlock(c) ==
    /\ HasGate(c, "unlock", "gate")
    /\ Return(c)
    /\ UNCHANGED <<worldVars, released, abandoned, drops, req>>

Build(c, at, next, started) ==
    /\ HasGate(c, "unlock", at)
    /\ tasks' = [tasks EXCEPT ![call[c].world] = @ \cup started]
    /\ call' = [call EXCEPT ![c].at = next]
    /\ UNCHANGED <<live, built, signal, gate, released, abandoned, drops, serve, req>>

InitRuntime_OtherList(c) == Build(c, "init", "boot", {"chat"})

\* springtale_runtime::init spawns the runtime's tasks; the audit chain, the
\* transport, the scheduler and the bot follow, and init_bot the daemon's.  One
\* of these, the event loop, spawns the resumer.
InitRuntime(c) == Build(c, "init", "boot", {"runtime"})
InitBot(c)     == Build(c, "boot", "restore", {"daemon", "resumer"})

\* restore_formations went well: fresh maps, a fresh router, the cell.
Publish(c) ==
    LET w == call[c].world
    IN  /\ HasGate(c, "unlock", "restore")
        /\ Return(c)
        /\ live' = w
        /\ UNCHANGED <<built, tasks, signal, released, abandoned, drops, req>>

\* The tasks that a shutdown of the lists ends.
Registered(w) == tasks[w] \ {"resumer"}

\* What a call leaves running when it ends here: a JoinHandle that is dropped
\* does not end its task.
Leaves(c) ==
    IF call[c].at \in {"auth", "gate"} \/ Registered(call[c].world) = {} THEN {} ELSE {call[c].world}

\* One of build_live's steps fails and its `?' drops what it has so far.
BuildFails(c) ==
    /\ \E at \in {"init", "boot", "restore"} : HasGate(c, "unlock", at)
    /\ Return(c)
    /\ abandoned' = abandoned \cup Leaves(c)
    /\ UNCHANGED <<worldVars, released, drops, req>>

\* A queue that its i-th element leaves.
without(q, i) == [j \in 1..(Len(q) - 1) |-> IF j < i THEN q[j] ELSE q[j + 1]]

\* The future of a call is dropped where it awaits: a handler's when its
\* client closes the connection, the timer's when boot aborts it.
DropCall(c) ==
    /\ call[c].at \notin {"idle", "due", "signal"}
    /\ \/ c \in Handlers /\ drops < MaxDrops /\ drops' = drops + 1
       \/ c = "auto" /\ serve = "over" /\ UNCHANGED drops
    /\ call' = [call EXCEPT ![c] = NoCall]
    /\ \/ call[c].at = "auth" /\ UNCHANGED gate
       \/ \E i \in 1..Len(gate) : gate[i] = c /\ gate' = without(gate, i)
    /\ abandoned' = abandoned \cup Leaves(c)
    /\ UNCHANGED <<worldVars, released, serve, req>>

(* ---- the end of the process ------------------------------------------ *)

\* SIGTERM: no new connection, and the open ones are waited for.
ShutdownSignal ==
    /\ serve = "up"
    /\ serve' = "draining"
    /\ UNCHANGED <<worldVars, callVars, req>>

\* axum::serve returns; the timer is aborted and the daemon locks itself.
ServeReturns ==
    /\ serve = "draining"
    /\ \A r \in Requests : req[r].kind \in {"none", "job"}
    /\ \A c \in Handlers : call[c] = NoCall
    /\ serve' = "over"
    /\ Set("main", "lock", "due", 0)
    /\ UNCHANGED <<worldVars, gate, released, abandoned, drops, req>>

(* ---- next-state relation --------------------------------------------- *)

\* The steps a call makes of its own accord.
CallStep(c) ==
    \/ LockAuthenticates(c) \/ AskGate(c)
    \/ SwapNone(c) \/ SendSignal(c) \/ ClearSessions(c)
    \/ ShutdownRuntime(c) \/ ShutdownDaemon(c) \/ DropLive(c) \/ AwaitRelease(c)
    \/ OpenWorld(c) \/ RefuseUnlock(c) \/ InitRuntime(c) \/ InitBot(c) \/ Publish(c) \/ BuildFails(c)

RequestStep(r) ==
    \/ forward(r) \/ End(r) \/ OpenStream(r) \/ StreamEnds(r) \/ ClientLeaves(r)
    \/ \E w \in Worlds : StartJob(r, w)

Next ==
    /\ serve # "stopped"
    /\ \/ \E r \in Requests : RequestStep(r)
       \/ \E c \in Handlers : LockHandler(c) \/ UnlockHandler(c)
       \/ \E c \in Callers : CallStep(c) \/ DropCall(c)
       \/ \E w \in Worlds : ResumerEnds(w)
       \/ AutoLock \/ ShutdownSignal \/ ServeReturns

Spec == Init /\ [][Next]_vars

\* Every wait of a request, a call and a job has a limit, and the executor is
\* fair.  The client of a stream owes nothing, the resumer waits for people,
\* and the idle clock may be put back by every chat message.
Fairness ==
    /\ \A r \in Requests : WF_vars(serve # "stopped" /\ (End(r) \/ StreamEnds(r)))
    /\ \A c \in Callers : WF_vars(serve # "stopped" /\ call[c] # NoCall /\ CallStep(c))
    /\ WF_vars(ServeReturns)

FairSpec == Spec /\ Fairness

(* ---- properties ------------------------------------------------------ *)

TypeOK ==
    /\ live \in 0..MaxWorlds /\ built \in Worlds
    /\ tasks \in [Worlds -> SUBSET {"runtime", "daemon", "resumer"}]
    /\ signal \in [Worlds -> BOOLEAN]
    /\ gate \in Seq(Callers)
    /\ call \in [Callers -> Call] /\ req \in [Requests -> Request]
    /\ serve \in {"up", "draining", "over", "stopped"}
    /\ released \subseteq Worlds /\ abandoned \subseteq Worlds
    /\ drops \in 0..MaxDrops

\* Two worlds never hold the database at once (init.rs: one runtime per
\* store), although a request of the world that was locked may still be
\* running when the next one is asked for.
OneOwner == \A v, w \in Worlds : FlockHeld(v) /\ FlockHeld(w) => v = w

\* A call is building w or taking it down.
InHand(w) == \E c \in Callers : call[c].world = w /\ call[c].at # "auth"

\* Background tasks belong to the published world, or to one that a call is
\* building or taking down.  The exceptions are a world whose call ended in
\* the middle and the resumer (event_loop.rs: a bare tokio::spawn), which is
\* the only thing that a lock leaves running.
TasksAreOwned ==
    \A w \in Worlds : Registered(w) # {} =>
        w = live \/ w \in abandoned \/ InHand(w)

\* What lock reports as released is closed and stays closed.
ReleasedIsClosed == \A w \in released : ~StoreHeld(w)

\* A lock or unlock call that asked for the gate comes to its end.
CallReturns == \A c \in Callers : (call[c].at = "gate") ~> (call[c] = NoCall \/ serve = "stopped")

\* A world that is not the published one any more ends its streams, also
\* those opened after the signal had been sent, and lets go of its store, of
\* which at most its resumer still has a hold.
LockedWorldEnds ==
    \A w \in Worlds :
        (w <= built /\ w # live) ~>
            \/ w \in abandoned \/ w = live \/ serve = "stopped"
            \/ /\ ~Running("stream", w) /\ ~Running("job", w)
               /\ ~StateHeld(w) /\ Registered(w) = {}

\* A daemon that is told to stop stops, unless an open stream of the world
\* that is still published holds up axum::serve.  No stream of a locked world,
\* no call and no job does.
ShutdownCompletes ==
    (serve = "draining") ~>
        (serve = "stopped" \/ (live # 0 /\ Running("stream", live)))

=============================================================================

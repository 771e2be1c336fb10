------------------------------- MODULE Login -------------------------------
(***************************************************************************)
(* Sessions, long-lived tokens and stream tickets of the daemon's API:     *)
(* apps/springtaled/src/api/login.rs and auth.rs, in front of the routes   *)
(* that api/lock.rs forwards to the live world.  Every world (module       *)
(* DaemonLock) has a session map and a ticket map of its own; the rows of  *)
(* api_tokens are in the database and outlive it.                          *)
(*                                                                         *)
(* Hashing is left out: a token or a ticket is a value nobody else has,    *)
(* and a passphrase is right or wrong.  A session's and a ticket's age is  *)
(* a choice: either may have expired when it is looked up.                 *)
(***************************************************************************)
EXTENDS Naturals, FiniteSets

CONSTANTS
    Requests,       \* connections into the live router
    Tokens,         \* bearer tokens the daemon can issue
    Tickets,        \* stream tickets the daemon can issue
    Persisted,      \* tokens whose rows an earlier process left
    None,           \* no credential
    MaxWorlds,      \* bound: worlds built
    MaxRequests     \* bound: requests forwarded

Worlds == 1..MaxWorlds
Unissued == MaxWorlds + 1

ASSUME LoginAssumption ==
    /\ MaxWorlds \in Nat \ {0} /\ MaxRequests \in Nat
    /\ Tokens \cap Tickets = {} /\ None \notin Tokens \cup Tickets
    /\ Persisted \subseteq Tokens

\* A request in a world's router.  stale is history: its credential was dead
\* when the request came in.
Request == [kind : {"none", "login", "logout", "mint", "revoke", "ticket", "stream"},
            at : {"idle", "auth", "run", "issue", "redeem", "check", "open"},
            world : 0..MaxWorlds, cred : Tokens \cup Tickets \cup {None}, stale : BOOLEAN]
NoRequest == [kind |-> "none", at |-> "idle", world |-> 0, cred |-> None, stale |-> FALSE]

VARIABLES
    live,       \* the published world, 0 when locked
    built,      \* how many worlds have been built
    closing,    \* how far the lock of the newest world has come
    sessions,   \* world -> its session map
    tickets,    \* world -> its stream_tickets
    rows,       \* the api_tokens table
    by,         \* ticket -> principal
    req,        \* connection -> its request
    home,       \* history: where a credential was issued, 0 for a row
    spent,      \* history: credentials revoked, expired or redeemed
    opened,     \* history: ticket -> streams it opened
    sent        \* requests forwarded

lockVars == <<live, built, closing>>
credVars == <<sessions, tickets, rows, by, home, spent>>
vars == <<lockVars, credVars, req, opened, sent>>

\* login::authenticate and principal_valid: the session map of that world,
\* then the table.
authenticate(t, w) == t \in sessions[w] \/ t \in rows

\* History: a credential that must open nothing in w any more.
DeadToken(t, w) == t \in spent \/ home[t] \notin {0, w}
Dead(x, w) ==
    \/ x \in Tokens /\ DeadToken(x, w)
    \/ x \in Tickets /\ (x \in spent \/ home[x] # w \/ DeadToken(by[x], w))

Init ==
    /\ live = 1 /\ built = 1 /\ closing = "no"
    /\ sessions = [w \in Worlds |-> {}]
    /\ tickets = [w \in Worlds |-> {}]
    /\ rows = Persisted
    /\ by = [k \in Tickets |-> None]
    /\ req = [r \in Requests |-> NoRequest]
    /\ home = [x \in Tokens \cup Tickets |-> IF x \in Persisted THEN 0 ELSE Unissued]
    /\ spent = {} /\ opened = [k \in Tickets |-> 0] /\ sent = 0

(* ---- requests into the live router ----------------------------------- *)

UnchangedByRequest == UNCHANGED <<lockVars, opened>>

\* forward: the router of the world that is live now is cloned, and the
\* request stays in that world whatever happens to the guard.
forward(r, kind, x) ==
    /\ live # 0 /\ req[r] = NoRequest /\ sent < MaxRequests
    /\ req' = [req EXCEPT ![r] =
           [kind |-> kind, world |-> live, cred |-> x, stale |-> Dead(x, live),
            at |-> CASE kind = "login" -> "run" [] kind = "stream" -> "redeem" [] OTHER -> "auth"]]
    /\ sent' = sent + 1
    /\ UNCHANGED <<lockVars, credVars, opened>>

Forward(r) ==
    \/ forward(r, "login", None)
    \/ \E t \in Tokens, kind \in {"logout", "mint", "revoke", "ticket"} :
          home[t] # Unissued /\ forward(r, kind, t)
    \/ \E k \in Tickets : home[k] # Unissued /\ forward(r, "stream", k)

\* The request is answered, or its client goes away and its future is dropped.
EndRequest(r) ==
    /\ req[r] # NoRequest
    /\ req' = [req EXCEPT ![r] = NoRequest]
    /\ UNCHANGED <<lockVars, credVars, opened, sent>>

\* require_auth, ahead of every authenticated route.
require_auth(r) ==
    /\ req[r].at = "auth"
    /\ authenticate(req[r].cred, req[r].world)
    /\ req' = [req EXCEPT ![r].at = "run"]
    /\ UNCHANGED <<credVars, sent>> /\ UnchangedByRequest

\* The last step of a handler that is answered with it.
Answer(r, kind) ==
    /\ req[r].at = "run" /\ req[r].kind = kind
    /\ req' = [req EXCEPT ![r] = NoRequest]
    /\ UNCHANGED sent /\ UnchangedByRequest

login_NoToken(r) ==
    /\ Answer(r, "login")
    /\ sessions' = [sessions EXCEPT ![req[r].world] = @ \cup {None}]
    /\ UNCHANGED <<tickets, rows, home, by, spent>>

\* login, with the right passphrase: a session in this world's map.
login(r) ==
    /\ Answer(r, "login")
    /\ \E t \in {x \in Tokens : home[x] = Unissued} :
          /\ sessions' = [sessions EXCEPT ![req[r].world] = @ \cup {t}]
          /\ home' = [home EXCEPT ![t] = req[r].world]
    /\ UNCHANGED <<tickets, rows, by, spent>>

logout(r) ==
    /\ Answer(r, "logout")
    /\ sessions' = [sessions EXCEPT ![req[r].world] = @ \ {req[r].cred}]
    /\ spent' = IF req[r].cred \in sessions[req[r].world] THEN spent \cup {req[r].cred} ELSE spent
    /\ UNCHANGED <<tickets, rows, home, by>>

\* create_token: a row of the database, which outlives this world.
create_token(r) ==
    /\ Answer(r, "mint")
    /\ \E t \in {x \in Tokens : home[x] = Unissued} :
          /\ rows' = rows \cup {t}
          /\ home' = [home EXCEPT ![t] = 0]
    /\ UNCHANGED <<sessions, tickets, by, spent>>

delete_token(r) ==
    /\ Answer(r, "revoke")
    /\ \E t \in rows : rows' = rows \ {t} /\ spent' = spent \cup {t}
    /\ UNCHANGED <<sessions, tickets, home, by>>

\* issue_stream_ticket authenticates once more, then inserts.
IssueTicket(r) ==
    /\ req[r].at = "run" /\ req[r].kind = "ticket"
    /\ authenticate(req[r].cred, req[r].world)
    /\ req' = [req EXCEPT ![r].at = "issue"]
    /\ UNCHANGED <<credVars, sent>> /\ UnchangedByRequest

InsertTicket(r) ==
    /\ req[r].at = "issue"
    /\ \E k \in {x \in Tickets : home[x] = Unissued} :
          /\ tickets' = [tickets EXCEPT ![req[r].world] = @ \cup {k}]
          /\ home' = [home EXCEPT ![k] = req[r].world]
          /\ by' = [by EXCEPT ![k] = req[r].cred]
    /\ req' = [req EXCEPT ![r] = NoRequest]
    /\ UNCHANGED <<sessions, rows, spent, sent>> /\ UnchangedByRequest

RedeemTicket_Keeps(r) ==
    /\ req[r].at = "redeem" /\ req[r].cred \in tickets[req[r].world]
    /\ req' = [req EXCEPT ![r].at = "check"]
    /\ UNCHANGED <<credVars, sent>> /\ UnchangedByRequest

\* require_stream_ticket: the ticket is removed under the map's lock, then
\* the principal behind it is looked up, and the stream subscribes.
RedeemTicket(r) ==
    LET w == req[r].world k == req[r].cred
    IN  /\ req[r].at = "redeem" /\ k \in tickets[w]
        /\ tickets' = [tickets EXCEPT ![w] = @ \ {k}]
        /\ spent' = spent \cup {k}
        /\ req' = [req EXCEPT ![r].at = "check"]
        /\ UNCHANGED <<sessions, rows, home, by, sent>> /\ UnchangedByRequest

CheckPrincipal(r) ==
    /\ req[r].at = "check" /\ authenticate(by[req[r].cred], req[r].world)
    /\ req' = [req EXCEPT ![r].at = "open"]
    /\ UNCHANGED <<credVars, sent>> /\ UnchangedByRequest

\* stream: subscribes, and the answer's body lives on without the request.
OpenStream(r) ==
    /\ req[r].at = "open"
    /\ opened' = [opened EXCEPT ![req[r].cred] = @ + 1]
    /\ req' = [req EXCEPT ![r] = NoRequest]
    /\ UNCHANGED <<lockVars, credVars, sent>>

\* session_lookup's retain and the tickets' TTL.
Expire(w) ==
    /\ \/ \E t \in sessions[w] : /\ sessions' = [sessions EXCEPT ![w] = @ \ {t}]
                                 /\ spent' = spent \cup {t}
                                 /\ UNCHANGED tickets
       \/ \E k \in tickets[w] : /\ tickets' = [tickets EXCEPT ![w] = @ \ {k}]
                                /\ spent' = spent \cup {k}
                                /\ UNCHANGED sessions
    /\ UNCHANGED <<lockVars, rows, home, by, opened, req, sent>>


(* ---- the lock, as the requests see it -------------------------------- *)

UnchangedByLock == UNCHANGED <<rows, by, home, spent, req, opened, sent>>

\* RuntimeGuard::lock: the cell first, then the two maps, one after the other.
SwapNone ==
    /\ live # 0
    /\ live' = 0 /\ closing' = "sessions"
    /\ UNCHANGED <<built, sessions, tickets>> /\ UnchangedByLock

ClearSessions_Skips ==
    /\ closing = "sessions"
    /\ closing' = "tickets"
    /\ UNCHANGED <<live, built, sessions, tickets>> /\ UnchangedByLock

ClearSessions ==
    /\ closing = "sessions"
    /\ closing' = "tickets"
    /\ sessions' = [sessions EXCEPT ![built] = {}]
    /\ UNCHANGED <<live, built, tickets>> /\ UnchangedByLock

ClearTickets ==
    /\ closing = "tickets"
    /\ closing' = "done"
    /\ tickets' = [tickets EXCEPT ![built] = {}]
    /\ UNCHANGED <<live, built, sessions>> /\ UnchangedByLock

Unlock_KeepsSessions ==
    /\ live = 0 /\ built < MaxWorlds
    /\ \A r \in Requests : req[r] = NoRequest
    /\ built' = built + 1 /\ live' = built + 1 /\ closing' = "no"
    /\ sessions' = [sessions EXCEPT ![built + 1] = sessions[built]]
    /\ UNCHANGED tickets /\ UnchangedByLock

\* RuntimeGuard::unlock: a world with maps of its own.  Its flock is only to
\* be had when no request is left in the world before (DaemonLock!OneOwner).
\* The gate keeps it out of a lock, but a lock call that is dropped has left
\* its maps as they were: closing is then wherever that call stopped.
Unlock ==
    /\ live = 0 /\ built < MaxWorlds
    /\ \A r \in Requests : req[r] = NoRequest
    /\ built' = built + 1 /\ live' = built + 1 /\ closing' = "no"
    /\ sessions' = [sessions EXCEPT ![built + 1] = {}]
    /\ tickets' = [tickets EXCEPT ![built + 1] = {}]
    /\ UnchangedByLock

RequestStep(r) ==
    \/ Forward(r) \/ EndRequest(r) \/ require_auth(r)
    \/ login(r) \/ logout(r) \/ create_token(r) \/ delete_token(r)
    \/ IssueTicket(r) \/ InsertTicket(r)
    \/ RedeemTicket(r) \/ CheckPrincipal(r) \/ OpenStream(r)

Next ==
    \/ \E r \in Requests : RequestStep(r)
    \/ \E w \in Worlds : Expire(w)
    \/ SwapNone \/ ClearSessions \/ ClearTickets \/ Unlock

Spec == Init /\ [][Next]_vars

(* ---- properties ------------------------------------------------------ *)

TypeOK ==
    /\ live \in 0..MaxWorlds /\ built \in Worlds
    /\ closing \in {"no", "sessions", "tickets", "done"}
    /\ sessions \in [Worlds -> SUBSET Tokens]
    /\ tickets \in [Worlds -> SUBSET Tickets]
    /\ rows \subseteq Tokens
    /\ by \in [Tickets -> Tokens \cup {None}]
    /\ req \in [Requests -> Request]
    /\ home \in [Tokens \cup Tickets -> 0..Unissued]
    /\ spent \subseteq Tokens \cup Tickets
    /\ opened \in [Tickets -> Nat]
    /\ sent \in 0..MaxRequests

\* A request that got past its check did not come in with a dead credential:
\* a session of a world that was locked since, a session logged out or
\* expired, a deleted token, or a ticket redeemed before or whose principal
\* is one of those (login.rs authenticate, auth.rs require_stream_ticket).
DeadStaysDead ==
    \A r \in Requests : req[r].stale => req[r].at \in {"idle", "auth", "redeem", "check"}

\* A ticket opens one stream, even when two requests present it at once
\* (auth.rs require_stream_ticket: "removed on first use").
TicketOpensOne == \A k \in Tickets : opened[k] <= 1

\* Once a lock has cleared the session map, no request that is still in that
\* world's router gets in with a session, not even one minted by a login that
\* was late (lock.rs step 4).
ClearedIsFinal ==
    [][\A r \in Requests :
          req[r].at = "auth" /\ req'[r].at = "run" /\ closing \in {"tickets", "done"}
             => req[r].cred \in rows]_vars

=============================================================================

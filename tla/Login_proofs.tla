---------------------------- MODULE Login_proofs ----------------------------
(***************************************************************************)
(* Proofs about module Login, for any sets of connections, tokens and      *)
(* tickets and any number of worlds.                                       *)
(*                                                                         *)
(* The properties are not inductive: that a dead credential gets nowhere   *)
(* rests on where credentials can be (Stored), on the fact that a request  *)
(* presents only what had been issued when it came in (Presented), and on  *)
(* death being for ever (StaleIsDead); that a cleared session map admits   *)
(* nobody rests on requests being in the newest world (InNewest).          *)
(***************************************************************************)
EXTENDS Login, TLAPS

Issued(x) == home[x] # Unissued

\* The published world is the newest, and it is not being locked.
Published == live \in {0, built} /\ (live # 0 => closing = "no")

\* A live session, row or ticket is where it was issued, and is not spent.
Stored ==
    /\ \A w \in Worlds : \A t \in sessions[w] : home[t] = w /\ t \notin spent
    /\ \A t \in rows : home[t] = 0 /\ t \notin spent
    /\ \A w \in Worlds : \A k \in tickets[w] : home[k] = w /\ k \notin spent
    /\ \A x \in spent : Issued(x)
    /\ \A k \in Tickets : Issued(k) => by[k] \in Tokens /\ Issued(by[k])

\* What a request has with it, by how far it has come.
Presented ==
    \A r \in Requests :
        /\ req[r].at = "auth" => req[r].cred \in Tokens /\ Issued(req[r].cred)
        /\ req[r].at = "issue" => req[r].cred \in Tokens /\ Issued(req[r].cred)
        /\ req[r].at = "run" /\ req[r].kind # "login" =>
              req[r].cred \in Tokens /\ Issued(req[r].cred)
        /\ req[r].at \in {"redeem", "check", "open"} =>
              req[r].cred \in Tickets /\ Issued(req[r].cred)

InNewest == \A r \in Requests : req[r].at # "idle" => req[r].world = built

\* A stale request's credential is still dead, and it is before its check.
StaleIsDead ==
    \A r \in Requests : req[r].stale =>
        /\ req[r].at \in {"idle", "auth", "redeem", "check"}
        /\ req[r].at = "auth" => DeadToken(req[r].cred, req[r].world)
        /\ req[r].at = "redeem" => Dead(req[r].cred, req[r].world)
        /\ req[r].at = "check" => DeadToken(by[req[r].cred], req[r].world)

\* A ticket is in the map, or with one request, or has opened its stream.
Redeeming(r, k) == req[r].at \in {"check", "open"} /\ req[r].cred = k
OneUse ==
    \A k \in Tickets :
        /\ opened[k] <= 1
        /\ ~Issued(k) \/ (\E w \in Worlds : k \in tickets[w]) =>
              opened[k] = 0 /\ \A r \in Requests : ~Redeeming(r, k)
        /\ \A r \in Requests : Redeeming(r, k) =>
              opened[k] = 0 /\ \A s \in Requests : Redeeming(s, k) => s = r

\* After the clear, no request on its way in has a session of that world.
Cleared ==
    closing \in {"tickets", "done"} =>
        \A r \in Requests : req[r].at = "auth" => req[r].cred \notin sessions[built]

IInv == TypeOK /\ Published /\ Stored /\ Presented /\ InNewest /\ StaleIsDead /\ OneUse /\ Cleared

-----------------------------------------------------------------------------
\* The first world, with the rows an earlier process left.
LEMMA InitIInv == Init => IInv
<1> SUFFICES ASSUME Init PROVE IInv
  OBVIOUS
<1> USE LoginAssumption
<1>1. TypeOK
  BY DEF Init, TypeOK, Worlds, Unissued, Request, NoRequest
<1>2. Published
  BY DEF Init, Published
<1>3. Stored
  BY DEF Init, Stored, Issued, Worlds, Unissued
<1>4. Presented /\ InNewest /\ StaleIsDead
  BY DEF Init, Presented, InNewest, StaleIsDead, NoRequest
<1>5. OneUse
  BY DEF Init, OneUse, Redeeming, NoRequest, Worlds
<1>6. Cleared
  BY DEF Init, Cleared
<1> QED
  BY <1>1, <1>2, <1>3, <1>4, <1>5, <1>6 DEF IInv

-----------------------------------------------------------------------------
Stages == {"idle", "auth", "run", "issue", "redeem", "check", "open"}

\* A request that goes on to its next stage keeps everything else.
LEMMA Advance ==
    ASSUME TypeOK, NEW r \in Requests, NEW a \in Stages,
           req' = [req EXCEPT ![r].at = a]
    PROVE  /\ req' \in [Requests -> Request]
           /\ req'[r].at = a
           /\ req'[r].kind = req[r].kind /\ req'[r].world = req[r].world
           /\ req'[r].cred = req[r].cred /\ req'[r].stale = req[r].stale
           /\ \A s \in Requests : s # r => req'[s] = req[s]
<1>1. req \in [Requests -> Request] /\ req[r] \in Request
  BY DEF TypeOK
<1>2. [req[r] EXCEPT !.at = a] \in Request
  BY <1>1 DEF Request, Stages
<1>3. req' = [req EXCEPT ![r] = [req[r] EXCEPT !.at = a]]
  BY <1>1
<1> QED
  BY <1>1, <1>2, <1>3 DEF Request

\* A request that is answered is gone.
LEMMA Leave ==
    ASSUME TypeOK, NEW r \in Requests, req' = [req EXCEPT ![r] = NoRequest]
    PROVE  /\ req' \in [Requests -> Request]
           /\ req'[r].at = "idle" /\ ~req'[r].stale
           /\ \A s \in Requests : s # r => req'[s] = req[s]
<1>1. NoRequest \in Request
  BY LoginAssumption DEF NoRequest, Request
<1> QED
  BY <1>1 DEF TypeOK, NoRequest

\* What was issued and is dead is not in the maps or the table.
LEMMA DeadOpensNothing ==
    ASSUME TypeOK, Stored, NEW t \in Tokens, NEW w \in Worlds, DeadToken(t, w)
    PROVE  ~authenticate(t, w)
  BY LoginAssumption DEF TypeOK, Stored, DeadToken, authenticate, Worlds, Unissued

\* A request that passes the check of require_auth was not stale.
LEMMA require_authKeeps ==
    ASSUME IInv, NEW r \in Requests, require_auth(r)
    PROVE  IInv'
<1> USE LoginAssumption DEF IInv
<1>1. /\ req' \in [Requests -> Request]
      /\ req'[r].at = "run"
      /\ req'[r].kind = req[r].kind /\ req'[r].world = req[r].world
      /\ req'[r].cred = req[r].cred /\ req'[r].stale = req[r].stale
      /\ \A s \in Requests : s # r => req'[s] = req[s]
  BY Advance DEF require_auth, Stages
<1>2. UNCHANGED <<lockVars, credVars, opened, sent>>
  BY DEF require_auth, UnchangedByRequest
<1> USE <1>2 DEF lockVars, credVars
<1>3. ~req[r].stale
  <2>1. req[r].world \in Worlds
    BY DEF require_auth, TypeOK, InNewest
  <2>2. req[r].cred \in Tokens
    BY DEF require_auth, Presented, Stored
  <2>3. authenticate(req[r].cred, req[r].world)
    BY DEF require_auth
  <2> QED
    BY <2>1, <2>2, <2>3, DeadOpensNothing DEF require_auth, StaleIsDead, Presented
<1>4. TypeOK'
  BY <1>1 DEF TypeOK
<1>5. Published' /\ Stored'
  BY DEF Published, Stored, Issued
<1>6. Presented' /\ InNewest'
  BY <1>1 DEF require_auth, Presented, InNewest, Issued
<1>7. StaleIsDead'
  BY <1>1, <1>3 DEF StaleIsDead, Dead, DeadToken
<1>8. OneUse'
  BY <1>1 DEF require_auth, OneUse, Redeeming, Issued
<1>9. Cleared'
  BY <1>1 DEF Cleared
<1> QED
  BY <1>4, <1>5, <1>6, <1>7, <1>8, <1>9

\* The second authenticate of issue_stream_ticket is no weaker.
LEMMA IssueTicketKeeps ==
    ASSUME IInv, NEW r \in Requests, IssueTicket(r)
    PROVE  IInv'
<1> USE LoginAssumption DEF IInv
<1>1. /\ req' \in [Requests -> Request]
      /\ req'[r].at = "issue"
      /\ req'[r].kind = req[r].kind /\ req'[r].world = req[r].world
      /\ req'[r].cred = req[r].cred /\ req'[r].stale = req[r].stale
      /\ \A s \in Requests : s # r => req'[s] = req[s]
  BY Advance DEF IssueTicket, Stages
<1>2. UNCHANGED <<lockVars, credVars, opened, sent>>
  BY DEF IssueTicket, UnchangedByRequest
<1> USE <1>2 DEF lockVars, credVars
<1>3. ~req[r].stale
  <2>1. req[r].world \in Worlds
    BY DEF IssueTicket, TypeOK, InNewest
  <2>2. req[r].cred \in Tokens
    BY DEF IssueTicket, Presented, Stored
  <2>3. authenticate(req[r].cred, req[r].world)
    BY DEF IssueTicket
  <2> QED
    BY <2>1, <2>2, <2>3, DeadOpensNothing DEF IssueTicket, StaleIsDead, Presented
<1>4. TypeOK'
  BY <1>1 DEF TypeOK
<1>5. Published' /\ Stored'
  BY DEF Published, Stored, Issued
<1>6. Presented' /\ InNewest'
  BY <1>1 DEF IssueTicket, Presented, InNewest, Issued
<1>7. StaleIsDead'
  BY <1>1, <1>3 DEF StaleIsDead, Dead, DeadToken
<1>8. OneUse'
  BY <1>1 DEF IssueTicket, OneUse, Redeeming, Issued
<1>9. Cleared'
  BY <1>1 DEF Cleared
<1> QED
  BY <1>4, <1>5, <1>6, <1>7, <1>8, <1>9

\* principal_valid turns a ticket of a dead principal away.
LEMMA CheckPrincipalKeeps ==
    ASSUME IInv, NEW r \in Requests, CheckPrincipal(r)
    PROVE  IInv'
<1> USE LoginAssumption DEF IInv
<1>1. /\ req' \in [Requests -> Request]
      /\ req'[r].at = "open"
      /\ req'[r].kind = req[r].kind /\ req'[r].world = req[r].world
      /\ req'[r].cred = req[r].cred /\ req'[r].stale = req[r].stale
      /\ \A s \in Requests : s # r => req'[s] = req[s]
  BY Advance DEF CheckPrincipal, Stages
<1>2. UNCHANGED <<lockVars, credVars, opened, sent>>
  BY DEF CheckPrincipal, UnchangedByRequest
<1> USE <1>2 DEF lockVars, credVars
<1>3. ~req[r].stale
  <2>1. req[r].world \in Worlds
    BY DEF CheckPrincipal, TypeOK, InNewest
  <2>2. by[req[r].cred] \in Tokens
    BY DEF CheckPrincipal, Presented, Stored
  <2>3. authenticate(by[req[r].cred], req[r].world)
    BY DEF CheckPrincipal
  <2> QED
    BY <2>1, <2>2, <2>3, DeadOpensNothing DEF CheckPrincipal, StaleIsDead, Presented
<1>4. TypeOK'
  BY <1>1 DEF TypeOK
<1>5. Published' /\ Stored'
  BY DEF Published, Stored, Issued
<1>6. Presented' /\ InNewest'
  BY <1>1 DEF CheckPrincipal, Presented, InNewest, Issued
<1>7. StaleIsDead'
  BY <1>1, <1>3 DEF StaleIsDead, Dead, DeadToken
<1>8. OneUse'
  BY <1>1 DEF CheckPrincipal, OneUse, Redeeming, Issued
<1>9. Cleared'
  BY <1>1 DEF Cleared
<1> QED
  BY <1>4, <1>5, <1>6, <1>7, <1>8, <1>9

\* A request that ends leaves nothing behind.
LEMMA EndRequestKeeps ==
    ASSUME IInv, NEW r \in Requests, EndRequest(r)
    PROVE  IInv'
<1> USE LoginAssumption DEF IInv
<1>1. /\ req' \in [Requests -> Request]
      /\ req'[r].at = "idle" /\ ~req'[r].stale
      /\ \A s \in Requests : s # r => req'[s] = req[s]
  BY Leave DEF EndRequest, Answer
<1> USE DEF lockVars, credVars
<1>2. TypeOK'
  BY <1>1 DEF EndRequest, TypeOK, Worlds, Unissued, Request
<1>3. Published'
  BY DEF EndRequest, Published
<1>4. Stored'
  BY DEF EndRequest, TypeOK, Stored, Presented, Issued, Worlds, Unissued
<1>5. Presented' /\ InNewest'
  BY <1>1 DEF EndRequest, TypeOK, Presented, InNewest, Issued
<1>6. StaleIsDead'
  BY <1>1 DEF EndRequest, TypeOK, StaleIsDead, Presented, Stored, Dead, DeadToken, Issued
<1>7. OneUse'
  BY <1>1 DEF EndRequest, TypeOK, OneUse, Redeeming, Presented, Stored, Issued, Worlds, Unissued
<1>8. Cleared'
  BY <1>1 DEF EndRequest, TypeOK, Cleared, Published, InNewest, Presented, Issued
<1> QED
  BY <1>2, <1>3, <1>4, <1>5, <1>6, <1>7, <1>8

\* A login issues a session of its own world.
LEMMA loginKeeps ==
    ASSUME IInv, NEW r \in Requests, login(r)
    PROVE  IInv'
<1> USE LoginAssumption DEF IInv
<1>1. /\ req' \in [Requests -> Request]
      /\ req'[r].at = "idle" /\ ~req'[r].stale
      /\ \A s \in Requests : s # r => req'[s] = req[s]
  BY Leave DEF login, Answer
<1> USE DEF UnchangedByRequest, lockVars, credVars, Answer
<1>2. TypeOK'
  <2>1. req[r].world = built /\ built \in Worlds
    BY DEF login, InNewest, TypeOK
  <2>2. PICK t \in Tokens : /\ sessions' = [sessions EXCEPT ![built] = @ \cup {t}]
                            /\ home' = [home EXCEPT ![t] = built]
    BY <2>1 DEF login
  <2>3. sessions' \in [Worlds -> SUBSET Tokens] /\ home' \in [Tokens \cup Tickets -> 0..Unissued]
    BY <2>1, <2>2 DEF TypeOK, Worlds, Unissued
  <2> QED
    BY <1>1, <2>3 DEF login, TypeOK
<1>3. Published'
  BY DEF login, Published
<1>4. Stored'
  BY DEF login, TypeOK, Stored, Presented, Issued, Worlds, Unissued
<1>5. Presented' /\ InNewest'
  BY <1>1 DEF login, TypeOK, Presented, InNewest, Issued
<1>6. StaleIsDead'
  BY <1>1 DEF login, TypeOK, StaleIsDead, Presented, Stored, Dead, DeadToken, Issued
<1>7. OneUse'
  BY <1>1 DEF login, TypeOK, OneUse, Redeeming, Presented, Stored, Issued, Worlds, Unissued
<1>8. Cleared'
  BY <1>1 DEF login, TypeOK, Cleared, Published, InNewest, Presented, Issued
<1> QED
  BY <1>2, <1>3, <1>4, <1>5, <1>6, <1>7, <1>8

\* A session logged out is spent and gone.
LEMMA logoutKeeps ==
    ASSUME IInv, NEW r \in Requests, logout(r)
    PROVE  IInv'
<1> USE LoginAssumption DEF IInv
<1>1. /\ req' \in [Requests -> Request]
      /\ req'[r].at = "idle" /\ ~req'[r].stale
      /\ \A s \in Requests : s # r => req'[s] = req[s]
  BY Leave DEF logout, Answer
<1> USE DEF UnchangedByRequest, lockVars, credVars, Answer
<1>2. TypeOK'
  <2>1. req[r].world = built /\ built \in Worlds
    BY DEF logout, InNewest, TypeOK
  <2>2. req[r].cred \in Tokens
    BY DEF logout, Presented
  <2>3. sessions' = [sessions EXCEPT ![built] = @ \ {req[r].cred}] /\ spent' \in {spent, spent \cup {req[r].cred}}
    BY <2>1 DEF logout
  <2>4. sessions' \in [Worlds -> SUBSET Tokens] /\ spent' \subseteq Tokens \cup Tickets
    BY <2>1, <2>2, <2>3 DEF TypeOK
  <2> QED
    BY <1>1, <2>4 DEF logout, TypeOK
<1>3. Published'
  BY DEF logout, Published
<1>4. Stored'
  <2> DEFINE t == req[r].cred
  <2>1. req[r].world \in Worlds /\ t \in Tokens /\ Issued(t)
    BY DEF logout, InNewest, TypeOK, Presented
  <2>2. CASE t \in sessions[req[r].world]
    <3>1. home[t] = req[r].world /\ t \notin rows
      BY <2>1, <2>2 DEF Stored, Worlds
    <3>2. /\ \A w \in Worlds : sessions'[w] \subseteq sessions[w] /\ t \notin sessions'[w]
          /\ spent' = spent \cup {t}
      BY <2>1, <2>2, <3>1 DEF logout, TypeOK, Stored
    <3>3. \A w \in Worlds : t \notin tickets[w]
      BY <2>1 DEF TypeOK
    <3> HIDE DEF t
    <3> QED
      BY <2>1, <3>1, <3>2, <3>3 DEF logout, Stored, Issued
  <2>3. CASE t \notin sessions[req[r].world]
    BY <2>1, <2>3 DEF logout, TypeOK, Stored, Issued
  <2> QED
    BY <2>2, <2>3
<1>5. Presented' /\ InNewest'
  BY <1>1 DEF logout, TypeOK, Presented, InNewest, Issued
<1>6. StaleIsDead'
  BY <1>1 DEF logout, TypeOK, StaleIsDead, Presented, Stored, Dead, DeadToken, Issued
<1>7. OneUse'
  BY <1>1 DEF logout, TypeOK, OneUse, Redeeming, Presented, Stored, Issued, Worlds, Unissued
<1>8. Cleared'
  BY <1>1 DEF logout, TypeOK, Cleared, Published, InNewest, Presented, Issued
<1> QED
  BY <1>2, <1>3, <1>4, <1>5, <1>6, <1>7, <1>8

\* A new row belongs to no world.
LEMMA create_tokenKeeps ==
    ASSUME IInv, NEW r \in Requests, create_token(r)
    PROVE  IInv'
<1> USE LoginAssumption DEF IInv
<1>1. /\ req' \in [Requests -> Request]
      /\ req'[r].at = "idle" /\ ~req'[r].stale
      /\ \A s \in Requests : s # r => req'[s] = req[s]
  BY Leave DEF create_token, Answer
<1> USE DEF UnchangedByRequest, lockVars, credVars, Answer
<1>2. TypeOK'
  BY <1>1 DEF create_token, TypeOK, Worlds, Unissued, Request
<1>3. Published'
  BY DEF create_token, Published
<1>4. Stored'
  BY DEF create_token, TypeOK, Stored, Presented, Issued, Worlds, Unissued
<1>5. Presented' /\ InNewest'
  BY <1>1 DEF create_token, TypeOK, Presented, InNewest, Issued
<1>6. StaleIsDead'
  BY <1>1 DEF create_token, TypeOK, StaleIsDead, Presented, Stored, Dead, DeadToken, Issued
<1>7. OneUse'
  BY <1>1 DEF create_token, TypeOK, OneUse, Redeeming, Presented, Stored, Issued, Worlds, Unissued
<1>8. Cleared'
  BY <1>1 DEF create_token, TypeOK, Cleared, Published, InNewest, Presented, Issued
<1> QED
  BY <1>2, <1>3, <1>4, <1>5, <1>6, <1>7, <1>8

\* A row that is deleted is spent and gone.
LEMMA delete_tokenKeeps ==
    ASSUME IInv, NEW r \in Requests, delete_token(r)
    PROVE  IInv'
<1> USE LoginAssumption DEF IInv
<1>1. /\ req' \in [Requests -> Request]
      /\ req'[r].at = "idle" /\ ~req'[r].stale
      /\ \A s \in Requests : s # r => req'[s] = req[s]
  BY Leave DEF delete_token, Answer
<1> USE DEF UnchangedByRequest, lockVars, credVars, Answer
<1>2. TypeOK'
  BY <1>1 DEF delete_token, TypeOK, Worlds, Unissued, Request
<1>3. Published'
  BY DEF delete_token, Published
<1>4. Stored'
  BY DEF delete_token, TypeOK, Stored, Presented, Issued, Worlds, Unissued
<1>5. Presented' /\ InNewest'
  BY <1>1 DEF delete_token, TypeOK, Presented, InNewest, Issued
<1>6. StaleIsDead'
  BY <1>1 DEF delete_token, TypeOK, StaleIsDead, Presented, Stored, Dead, DeadToken, Issued
<1>7. OneUse'
  BY <1>1 DEF delete_token, OneUse, Redeeming, Issued
<1>8. Cleared'
  BY <1>1 DEF delete_token, TypeOK, Cleared, Published, InNewest, Presented, Issued
<1> QED
  BY <1>2, <1>3, <1>4, <1>5, <1>6, <1>7, <1>8

\* A ticket is issued in its world for an issued principal.
LEMMA InsertTicketKeeps ==
    ASSUME IInv, NEW r \in Requests, InsertTicket(r)
    PROVE  IInv'
<1> USE LoginAssumption DEF IInv
<1>1. /\ req' \in [Requests -> Request]
      /\ req'[r].at = "idle" /\ ~req'[r].stale
      /\ \A s \in Requests : s # r => req'[s] = req[s]
  BY Leave DEF InsertTicket, Answer
<1> USE DEF UnchangedByRequest, lockVars, credVars
<1>2. TypeOK'
  <2>1. req[r].world = built /\ built \in Worlds
    BY DEF InsertTicket, InNewest, TypeOK
  <2>2. req[r].cred \in Tokens
    BY DEF InsertTicket, Presented
  <2>3. PICK k \in Tickets : /\ tickets' = [tickets EXCEPT ![built] = @ \cup {k}]
                             /\ home' = [home EXCEPT ![k] = built]
                             /\ by' = [by EXCEPT ![k] = req[r].cred]
    BY <2>1 DEF InsertTicket
  <2>4. /\ tickets' \in [Worlds -> SUBSET Tickets] /\ by' \in [Tickets -> Tokens \cup {None}]
        /\ home' \in [Tokens \cup Tickets -> 0..Unissued]
    BY <2>1, <2>2, <2>3 DEF TypeOK, Worlds, Unissued
  <2> QED
    BY <1>1, <2>4 DEF InsertTicket, TypeOK
<1>3. Published'
  BY DEF InsertTicket, Published
<1>4. Stored'
  BY DEF InsertTicket, TypeOK, Stored, Presented, Issued, Worlds, Unissued
<1>5. Presented' /\ InNewest'
  BY <1>1 DEF InsertTicket, TypeOK, Presented, InNewest, Issued
<1>6. StaleIsDead'
  BY <1>1 DEF InsertTicket, TypeOK, StaleIsDead, Presented, Stored, Dead, DeadToken, Issued
<1>7. OneUse'
  BY <1>1 DEF InsertTicket, TypeOK, OneUse, Redeeming, Presented, Stored, Issued, Worlds, Unissued
<1>8. Cleared'
  BY <1>1 DEF InsertTicket, TypeOK, Cleared, Published, InNewest, Presented, Issued
<1> QED
  BY <1>2, <1>3, <1>4, <1>5, <1>6, <1>7, <1>8

\* The stream uses up what the request had of its ticket.
LEMMA OpenStreamKeeps ==
    ASSUME IInv, NEW r \in Requests, OpenStream(r)
    PROVE  IInv'
<1> USE LoginAssumption DEF IInv
<1>1. /\ req' \in [Requests -> Request]
      /\ req'[r].at = "idle" /\ ~req'[r].stale
      /\ \A s \in Requests : s # r => req'[s] = req[s]
  BY Leave DEF OpenStream, Answer
<1> USE DEF lockVars, credVars
<1>2. TypeOK'
  <2>1. opened' = [opened EXCEPT ![req[r].cred] = @ + 1] /\ req[r].cred \in Tickets
    BY DEF OpenStream, Presented
  <2>2. opened' \in [Tickets -> Nat]
    BY <2>1 DEF TypeOK
  <2> QED
    BY <1>1, <2>2 DEF OpenStream, TypeOK
<1>3. Published'
  BY DEF OpenStream, Published
<1>4. Stored'
  BY DEF OpenStream, TypeOK, Stored, Presented, Issued, Worlds, Unissued
<1>5. Presented' /\ InNewest'
  BY <1>1 DEF OpenStream, TypeOK, Presented, InNewest, Issued
<1>6. StaleIsDead'
  BY <1>1 DEF OpenStream, TypeOK, StaleIsDead, Presented, Stored, Dead, DeadToken, Issued
<1>7. OneUse'
  BY <1>1 DEF OpenStream, TypeOK, OneUse, Redeeming, Presented, Stored, Issued, Worlds, Unissued
<1>8. Cleared'
  BY <1>1 DEF OpenStream, TypeOK, Cleared, Published, InNewest, Presented, Issued
<1> QED
  BY <1>2, <1>3, <1>4, <1>5, <1>6, <1>7, <1>8

\* A new request presents what has been issued, and is marked by it.
LEMMA ForwardKeeps ==
    ASSUME IInv, NEW r \in Requests, Forward(r)
    PROVE  IInv'
<1> USE LoginAssumption DEF IInv
<1>1. PICK kind \in {"login", "logout", "mint", "revoke", "ticket", "stream"},
           x \in Tokens \cup Tickets \cup {None} :
        /\ forward(r, kind, x)
        /\ kind = "login" => x = None
        /\ kind \in {"logout", "mint", "revoke", "ticket"} => x \in Tokens /\ Issued(x)
        /\ kind = "stream" => x \in Tickets /\ Issued(x)
  BY DEF Forward, Issued
<1> DEFINE a == CASE kind = "login" -> "run" [] kind = "stream" -> "redeem" [] OTHER -> "auth"
<1> DEFINE q == [kind |-> kind, world |-> live, cred |-> x, stale |-> Dead(x, live), at |-> a]
<1>2. /\ req' = [req EXCEPT ![r] = q]
      /\ live # 0 /\ sent < MaxRequests /\ sent' = sent + 1
      /\ UNCHANGED <<lockVars, credVars, opened>>
  BY <1>1 DEF forward
<1>3. a \in {"auth", "run", "redeem"} /\ (a = "run" <=> kind = "login")
      /\ (a = "redeem" <=> kind = "stream")
  BY <1>1
<1>4. q \in Request
  BY <1>1, <1>3 DEF Request, Dead, DeadToken, TypeOK
<1>5. /\ req' \in [Requests -> Request]
      /\ req'[r] = q
      /\ \A s \in Requests : s # r => req'[s] = req[s]
  BY <1>2, <1>4 DEF TypeOK
<1>6. /\ req'[r].at = a /\ req'[r].kind = kind /\ req'[r].world = live
      /\ req'[r].cred = x /\ req'[r].stale = Dead(x, live)
  BY <1>5
<1>7. x = None => ~Dead(x, live)
  BY DEF Dead
<1> HIDE DEF a, q
<1> USE <1>2 DEF lockVars, credVars
<1>8. TypeOK'
  BY <1>5 DEF TypeOK
<1>9. Published' /\ Stored'
  BY DEF Published, Stored, Issued
<1>10. Presented'
  BY <1>1, <1>3, <1>5, <1>6 DEF Presented, Issued
<1>11. InNewest'
  BY <1>5, <1>6 DEF InNewest, Published
<1>12. StaleIsDead'
  <2>1. req'[r].stale => /\ req'[r].at \in {"auth", "redeem"}
                         /\ req'[r].at = "auth" => DeadToken(x, live)
    BY <1>1, <1>3, <1>6, <1>7 DEF Dead
  <2> QED
    BY <1>5, <1>6, <2>1 DEF StaleIsDead, Dead, DeadToken
<1>13. OneUse'
  BY <1>3, <1>5, <1>6 DEF OneUse, Redeeming, Issued
<1>14. Cleared'
  BY DEF Cleared, Published
<1> QED
  BY <1>8, <1>9, <1>10, <1>11, <1>12, <1>13, <1>14

\* The ticket leaves the map with this request, and with no other.
LEMMA RedeemTicketKeeps ==
    ASSUME IInv, NEW r \in Requests, RedeemTicket(r)
    PROVE  IInv'
<1> USE LoginAssumption DEF IInv
<1>0. PICK k : k = req[r].cred
  OBVIOUS
<1> USE <1>0
<1>1. /\ req' \in [Requests -> Request]
      /\ req'[r].at = "check"
      /\ req'[r].kind = req[r].kind /\ req'[r].world = req[r].world
      /\ req'[r].cred = k /\ req'[r].stale = req[r].stale
      /\ \A s \in Requests : s # r => req'[s] = req[s]
  BY Advance DEF RedeemTicket, Stages
<1>2. req[r].world \in Worlds /\ k \in Tickets /\ Issued(k) /\ req[r].at = "redeem"
  BY DEF RedeemTicket, InNewest, TypeOK, Presented
<1>3. k \in tickets[req[r].world] /\ home[k] = req[r].world /\ k \notin spent
  BY <1>2 DEF RedeemTicket, Stored
<1>4. /\ tickets' = [tickets EXCEPT ![req[r].world] = @ \ {k}]
      /\ spent' = spent \cup {k}
      /\ UNCHANGED <<lockVars, sessions, rows, home, by, opened, sent>>
  BY DEF RedeemTicket, UnchangedByRequest
<1>5. /\ tickets' \in [Worlds -> SUBSET Tickets]
      /\ \A w \in Worlds : tickets'[w] \subseteq tickets[w] /\ k \notin tickets'[w]
  BY <1>2, <1>3, <1>4 DEF TypeOK, Stored
<1>6. k \notin Tokens
  BY <1>2
<1> USE <1>4 DEF lockVars
<1>7. TypeOK'
  BY <1>1, <1>2, <1>5 DEF TypeOK
<1>8. Published' /\ InNewest'
  BY <1>1, <1>2 DEF Published, InNewest
<1>9. Stored'
  <2>1. (\A w \in Worlds : sessions[w] \subseteq Tokens) /\ rows \subseteq Tokens
    BY DEF TypeOK
  <2> QED
    BY <1>2, <1>5, <1>6, <2>1 DEF Stored, Issued
<1>10. Presented'
  BY <1>1, <1>2 DEF Presented, Issued
<1>11. StaleIsDead'
  <2>1. req[r].stale => DeadToken(by[k], req[r].world)
    BY <1>2, <1>3, <1>6 DEF StaleIsDead, Dead
  <2> QED
    BY <1>1, <2>1 DEF StaleIsDead, Dead, DeadToken
<1>12. OneUse'
  <2>1. opened[k] = 0 /\ \A s \in Requests : ~Redeeming(s, k)
    BY <1>2, <1>3 DEF OneUse
  <2>2. \A s \in Requests : Redeeming(s, k)' => s = r
    BY <1>1, <2>1 DEF Redeeming
  <2>3. \A j \in Tickets, s \in Requests : j # k => (Redeeming(s, j)' <=> Redeeming(s, j))
    BY <1>1, <1>2 DEF Redeeming
  <2>4. \A w \in Worlds : k \notin tickets'[w]
    BY <1>5
  <2> QED
    BY <1>2, <1>5, <2>1, <2>2, <2>3, <2>4 DEF OneUse, Issued
<1>13. Cleared'
  BY <1>1 DEF Cleared
<1> QED
  BY <1>7, <1>8, <1>9, <1>10, <1>11, <1>12, <1>13

\* An expired session or ticket is spent and gone.
LEMMA ExpireKeeps ==
    ASSUME IInv, NEW w \in Worlds, Expire(w)
    PROVE  IInv'
<1> USE LoginAssumption DEF IInv, lockVars
<1>1. UNCHANGED <<lockVars, rows, home, by, opened, req, sent>>
  BY DEF Expire
<1>2. CASE \E t \in sessions[w] : /\ sessions' = [sessions EXCEPT ![w] = @ \ {t}]
                                  /\ spent' = spent \cup {t}
                                  /\ UNCHANGED tickets
  <2>1. PICK t \in sessions[w] : /\ sessions' = [sessions EXCEPT ![w] = @ \ {t}]
                                 /\ spent' = spent \cup {t}
                                 /\ UNCHANGED tickets
    BY <1>2
  <2>2. t \in Tokens /\ home[t] = w /\ t \notin rows /\ \A v \in Worlds : t \notin tickets[v]
    BY DEF TypeOK, Stored, Worlds
  <2>3. /\ sessions' \in [Worlds -> SUBSET Tokens]
        /\ \A v \in Worlds : sessions'[v] \subseteq sessions[v] /\ t \notin sessions'[v]
    BY <2>1, <2>2 DEF TypeOK, Stored
  <2>4. TypeOK'
    BY <1>1, <2>1, <2>2, <2>3 DEF TypeOK
  <2>5. Stored'
    BY <1>1, <2>1, <2>2, <2>3 DEF Stored, Issued, Worlds, Unissued
  <2>6. Published' /\ Presented' /\ InNewest' /\ OneUse'
    BY <1>1, <2>1 DEF Published, Presented, InNewest, OneUse, Redeeming, Issued
  <2>7. StaleIsDead'
    BY <1>1, <2>1 DEF StaleIsDead, Dead, DeadToken
  <2>8. Cleared'
    BY <1>1, <2>3 DEF Cleared, TypeOK
  <2> QED
    BY <2>4, <2>5, <2>6, <2>7, <2>8
<1>3. CASE \E k \in tickets[w] : /\ tickets' = [tickets EXCEPT ![w] = @ \ {k}]
                                 /\ spent' = spent \cup {k}
                                 /\ UNCHANGED sessions
  <2>1. PICK k \in tickets[w] : /\ tickets' = [tickets EXCEPT ![w] = @ \ {k}]
                                /\ spent' = spent \cup {k}
                                /\ UNCHANGED sessions
    BY <1>3
  <2>2. k \in Tickets /\ home[k] = w /\ k \notin rows /\ \A v \in Worlds : k \notin sessions[v]
    BY DEF TypeOK, Stored, Worlds
  <2>3. /\ tickets' \in [Worlds -> SUBSET Tickets]
        /\ \A v \in Worlds : tickets'[v] \subseteq tickets[v] /\ k \notin tickets'[v]
    BY <2>1, <2>2 DEF TypeOK, Stored
  <2>4. TypeOK'
    BY <1>1, <2>1, <2>2, <2>3 DEF TypeOK
  <2>5. Stored'
    BY <1>1, <2>1, <2>2, <2>3 DEF Stored, Issued, Worlds, Unissued
  <2>6. Published' /\ Presented' /\ InNewest' /\ Cleared'
    BY <1>1, <2>1 DEF Published, Presented, InNewest, Cleared, Issued
  <2>7. StaleIsDead'
    BY <1>1, <2>1 DEF StaleIsDead, Dead, DeadToken
  <2>8. OneUse'
    BY <1>1, <2>3 DEF OneUse, Redeeming, Issued
  <2> QED
    BY <2>4, <2>5, <2>6, <2>7, <2>8
<1> QED
  BY <1>2, <1>3 DEF Expire

\* The lock and the unlock leave requests and credentials' histories alone.
LEMMA LockKeeps ==
    ASSUME IInv, SwapNone \/ ClearSessions \/ ClearTickets \/ Unlock
    PROVE  IInv'
<1> USE LoginAssumption DEF IInv
<1>1. /\ UNCHANGED <<rows, by, home, spent, req, opened, sent>>
      /\ built \in Worlds
  BY DEF SwapNone, ClearSessions, ClearTickets, Unlock, UnchangedByLock, TypeOK
<1>2. /\ sessions' \in [Worlds -> SUBSET Tokens] /\ tickets' \in [Worlds -> SUBSET Tickets]
      /\ \A w \in Worlds : sessions'[w] \subseteq sessions[w] /\ tickets'[w] \subseteq tickets[w]
  BY DEF SwapNone, ClearSessions, ClearTickets, Unlock, TypeOK
<1>3. TypeOK'
  BY <1>1, <1>2 DEF TypeOK, SwapNone, ClearSessions, ClearTickets, Unlock, Worlds
<1>4. Published'
  BY <1>1 DEF Published, SwapNone, ClearSessions, ClearTickets, Unlock, Worlds
<1>5. Stored'
  BY <1>1, <1>2 DEF Stored, Issued
<1>6. Presented' /\ StaleIsDead'
  BY <1>1 DEF Presented, StaleIsDead, Dead, DeadToken, Issued
<1>7. InNewest'
  BY <1>1 DEF InNewest, SwapNone, ClearSessions, ClearTickets, Unlock, NoRequest
<1>8. OneUse'
  BY <1>1, <1>2 DEF OneUse, Redeeming, Issued
<1>9. Cleared'
  <2>1. CASE SwapNone
    BY <2>1 DEF SwapNone, Cleared
  <2>2. CASE ClearSessions
    BY <1>1, <2>2 DEF ClearSessions, Cleared, TypeOK
  <2>3. CASE ClearTickets
    BY <1>1, <2>3 DEF ClearTickets, Cleared
  <2>4. CASE Unlock
    BY <2>4 DEF Unlock, Cleared
  <2> QED
    BY <2>1, <2>2, <2>3, <2>4
<1> QED
  BY <1>3, <1>4, <1>5, <1>6, <1>7, <1>8, <1>9

\* Every step keeps the invariant.
LEMMA NextKeeps == IInv /\ [Next]_vars => IInv'
<1> SUFFICES ASSUME IInv, [Next]_vars PROVE IInv'
  OBVIOUS
<1>1. ASSUME NEW r \in Requests, RequestStep(r) PROVE IInv'
  BY <1>1, ForwardKeeps, EndRequestKeeps, require_authKeeps, loginKeeps, logoutKeeps,
     create_tokenKeeps, delete_tokenKeeps, IssueTicketKeeps, InsertTicketKeeps,
     RedeemTicketKeeps, CheckPrincipalKeeps, OpenStreamKeeps
     DEF RequestStep
<1>2. CASE UNCHANGED vars
  BY <1>2 DEF vars, lockVars, credVars, IInv, TypeOK, Published, Stored, Presented, InNewest,
     StaleIsDead, OneUse, Redeeming, Cleared, Issued, Dead, DeadToken
<1> QED
  BY <1>1, <1>2, ExpireKeeps, LockKeeps DEF Next

\* The inductive invariant holds in every reachable state.
THEOREM Inductive == Spec => []IInv
  BY InitIInv, NextKeeps, PTL DEF Spec

-----------------------------------------------------------------------------
\* The type invariant, for any constants.
THEOREM TypeCorrect == Spec => []TypeOK
<1>1. IInv => TypeOK
  BY DEF IInv
<1> QED
  BY <1>1, Inductive, PTL

\* No request gets past require_auth, or through a ticket, with a credential
\* that was dead when it came in, for any number of worlds and requests.
THEOREM DeadCredentialsStayDead == Spec => []DeadStaysDead
<1>1. IInv => DeadStaysDead
  BY DEF IInv, StaleIsDead, DeadStaysDead
<1> QED
  BY <1>1, Inductive, PTL

\* require_stream_ticket admits one stream for a ticket, whoever presents it
\* and however often.
THEOREM OneStreamPerTicket == Spec => []TicketOpensOne
<1>1. IInv => TicketOpensOne
  BY DEF IInv, OneUse, TicketOpensOne
<1> QED
  BY <1>1, Inductive, PTL

\* Only require_auth takes a request from its check to its handler.
LEMMA OnlyAuthAdmits ==
    ASSUME IInv, Next, NEW r \in Requests, req[r].at = "auth", req'[r].at = "run"
    PROVE  require_auth(r)
<1>1. req \in [Requests -> Request]
  BY DEF IInv, TypeOK
<1>2. PICK s \in Requests : RequestStep(s)
  BY DEF Next, Expire, SwapNone, ClearSessions, ClearTickets, Unlock, UnchangedByLock
<1>3. s # r => req'[r] = req[r]
  BY <1>1, <1>2 DEF RequestStep, Forward, forward, EndRequest, require_auth, login, logout,
     create_token, delete_token, IssueTicket, InsertTicket, RedeemTicket, CheckPrincipal,
     OpenStream, Answer
<1>4. s = r
  BY <1>3
<1>5. ~Forward(r)
  BY DEF Forward, forward, NoRequest
<1>6. ~EndRequest(r)
  BY <1>1 DEF EndRequest, NoRequest
<1> QED
  BY <1>2, <1>4, <1>5, <1>6 DEF RequestStep, login, logout, create_token, delete_token,
     IssueTicket, InsertTicket, RedeemTicket, CheckPrincipal, OpenStream, Answer

\* Step 4 of RuntimeGuard::lock is final: after the clear no request gets in
\* with a session of that world.
THEOREM ClearIsFinal == Spec => ClearedIsFinal
<1>1. ASSUME IInv, [Next]_vars, NEW r \in Requests,
             req[r].at = "auth", req'[r].at = "run", closing \in {"tickets", "done"}
      PROVE  req[r].cred \in rows
  <2>1. Next
    BY <1>1 DEF vars
  <2>2. req[r].cred \in sessions[req[r].world] \/ req[r].cred \in rows
    BY <1>1, <2>1, OnlyAuthAdmits DEF require_auth, authenticate
  <2>3. req[r].world = built /\ req[r].cred \notin sessions[built]
    BY <1>1 DEF IInv, InNewest, Cleared
  <2> QED
    BY <2>2, <2>3
<1>2. IInv /\ [Next]_vars =>
        [\A r \in Requests :
           req[r].at = "auth" /\ req'[r].at = "run" /\ closing \in {"tickets", "done"}
              => req[r].cred \in rows]_vars
  BY <1>1
<1> QED
  BY <1>2, Inductive, PTL DEF Spec, ClearedIsFinal

=============================================================================

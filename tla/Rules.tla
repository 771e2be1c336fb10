------------------------------- MODULE Rules -------------------------------
(***************************************************************************)
(* The life of a ConnectorEvent rule: its row in the store                 *)
(* (springtale-store/src/backend/sqlite/rules.rs), its copy in the rule    *)
(* engine (springtale-core/src/rule/engine.rs), the subscriptions that the *)
(* trigger registry keeps for it (springtale-runtime/src/triggers/) and    *)
(* the handlers on the connector hosts, under concurrent calls of          *)
(*   - the management API (operations/rules/, apps/springtaled/src/api/    *)
(*     rules.rs), also used by the desktop shell and recipes,              *)
(*   - the chat commands /newrule, /toggle and /delrule                    *)
(*     (springtale-bot/src/handler/builtin/),                              *)
(*   - connector set-up, hot reload and removal (operations/connectors/),  *)
(* and a restart of the daemon.                                            *)
(*                                                                         *)
(* A call is the list of the steps it still has to take; a step is what    *)
(* the code does between two awaits.  The trigger of a rule is fixed by    *)
(* its id: an update that would change it never succeeds on a stored rule, *)
(* because insert_rule refuses an id it already has.  MAX_RULES is taken   *)
(* to be out of reach.                                                     *)
(***************************************************************************)
EXTENDS Naturals, Sequences, FiniteSets

CONSTANTS
    Rules,          \* rule ids, all with a ConnectorEvent trigger
    Connectors,     \* connector names, all native (a WASM host ignores handlers)
    Events,         \* event names
    ListensTo,      \* the trigger of a rule: <<connector, event>>
    Callers,        \* request handlers and chat commands in progress
    NoRule,         \* the rule of an idle caller
    MaxSubs,        \* bound: subscriptions one host instance issues
    MaxOps          \* bound: operations and restarts

ASSUME RulesAssumption ==
    /\ ListensTo \in [Rules -> Connectors \X Events]
    /\ NoRule \notin Rules
    /\ MaxSubs \in Nat /\ MaxOps \in Nat

Status == {"enabled", "disabled"}

\* What a rule's text says: its status, or a condition with a pattern that
\* does not compile (add_rule refuses it; its status is then "enabled").
Body == Status \cup {"invalid"}

StatusOf_Raw(b) == b

StatusOf(b) == IF b = "invalid" THEN "enabled" ELSE b

\* A row has the text of the rule (rule_toml) and a column next to it.
Row == [column : Status, toml : Body]
NoRow == [column |-> "none", toml |-> "none"]

ConnectorOf(r) == ListensTo[r][1]

\* A subscription as ActiveSub keeps it, and a handler on a host.  Ids are
\* unique within one host instance only.  A handler remembers the rule
\* that attached it for the properties; the code's closure holds no more
\* than the rule's connector and event.
Subscription == [connector : Connectors, id : 1..MaxSubs]
Handler == [id : 1..MaxSubs, rule : Rules]
Host == [up : BOOLEAN, next : 1..(MaxSubs + 1), handlers : SUBSET Handler]

VARIABLES
    row,        \* the rules table: rule -> row
    engine,     \* RuleEngine.rules: rule -> status, or "absent"
    active,     \* TriggerRegistry.active: rule -> its subscriptions
    host,       \* ConnectorRegistry: connector -> its current host
    call,       \* caller -> the call it is in
    refused,    \* history: rules whose text add, update or boot refused
    replaced,   \* history: connectors whose host changed since boot
    ops         \* how many operations have begun

vars == <<row, engine, active, host, call, refused, replaced, ops>>

Steps == {"insert", "add", "replace", "lookup", "need", "read", "flag", "list",
          "swap", "flip", "set", "remove", "erase", "attach", "record",
          "detach", "unhook", "purge", "uninstall"}

\* body: the rule text (or wanted status) the call works with; held: the
\* copy of the rule it took from the engine; subs: subscriptions in hand.
Call == [todo : Seq(Steps), rule : Rules \cup {NoRule},
         body : Body \cup {"absent"}, held : Body \cup {"absent"},
         subs : SUBSET Subscription, work : SUBSET Rules]

NewCall(todo, r, body, held, work) ==
    [todo |-> todo, rule |-> r, body |-> body, held |-> held, subs |-> {}, work |-> work]

Idle == NewCall(<<>>, NoRule, "absent", "absent", {})

Current(p) == Head(call[p].todo)
At(p, step) == call[p].todo # <<>> /\ Current(p) = step

(***************************************************************************)
(* Boot                                                                    *)
(***************************************************************************)

\* init_engine loads the texts; a text the engine refuses is skipped.
LoadedEngine(rows) ==
    [r \in Rules |-> IF rows[r].toml \in Status THEN rows[r].toml ELSE "absent"]

\* wire_connector_events tries ONE enabled rule for each (connector, event)
\* pair, in the order of a hash map; the connector may refuse it.  A wiring
\* says which rule got which of the ids that a host counts from 1.
Wirings(eng, up) ==
    LET wanted == {r \in Rules : eng[r] = "enabled" /\ ConnectorOf(r) \in up}
        OnePerEvent(W) ==
            \A r, s \in W : ListensTo[r] = ListensTo[s] => r = s
        Numbered(f) == \A r \in DOMAIN f :
            LET mine == {s \in DOMAIN f : ConnectorOf(s) = ConnectorOf(r)}
            IN f[r] <= Cardinality(mine) /\ \A s \in mine : f[s] = f[r] => s = r
    IN {f \in UNION {[W -> 1..MaxSubs] : W \in {V \in SUBSET wanted : OnePerEvent(V)}} :
            Numbered(f)}

WiredActive(w) ==
    [r \in Rules |-> IF r \in DOMAIN w
                     THEN {[connector |-> ConnectorOf(r), id |-> w[r]]} ELSE {}]

WiredHost(w, up) ==
    [c \in Connectors |->
        LET mine == {r \in DOMAIN w : ConnectorOf(r) = c}
        IN [up |-> c \in up, next |-> Cardinality(mine) + 1,
            handlers |-> {[id |-> w[r], rule |-> r] : r \in mine}]]

Init ==
    /\ row \in [Rules -> {NoRow} \cup {[column |-> s, toml |-> s] : s \in Status}]
    /\ engine = LoadedEngine(row)
    /\ \E w \in Wirings(engine, Connectors) :
          active = WiredActive(w) /\ host = WiredHost(w, Connectors)
    /\ call = [p \in Callers |-> Idle]
    /\ refused = {} /\ replaced = {}
    /\ ops = 0

\* The daemon stops, wherever its calls are, and boots again.  A removed
\* connector stays removed (connector-removed flag in the config).
Restart ==
    /\ ops < MaxOps
    /\ LET up == {c \in Connectors : host[c].up}
       IN \E w \in Wirings(LoadedEngine(row), up) :
             active' = WiredActive(w) /\ host' = WiredHost(w, up)
    /\ engine' = LoadedEngine(row)
    /\ call' = [p \in Callers |-> Idle]
    /\ refused' = refused \cup {r \in Rules : row[r].toml = "invalid"}
    /\ replaced' = {}
    /\ ops' = ops + 1
    /\ UNCHANGED row

(***************************************************************************)
(* Calls                                                                   *)
(***************************************************************************)

Begin(p, r, todo, body, held) ==
    /\ call[p].todo = <<>> /\ ops < MaxOps
    /\ call' = [call EXCEPT ![p] = NewCall(todo, r, body, held, {})]
    /\ ops' = ops + 1
    /\ UNCHANGED <<row, engine, active, host, refused, replaced>>

\* POST /rules, recipe deployment: create_and_activate.
CreateRule(p, r, b) == Begin(p, r, <<"insert", "add", "attach">>, b, b)

\* POST /rules/connector: stored disabled, read back and attached.
CreateConnectorRule(p, r) ==
    Begin(p, r, <<"insert", "add", "read", "attach">>, "disabled", "absent")

\* PUT /rules/{id}: update_and_reactivate.
UpdateRule(p, r, b) ==
    Begin(p, r, <<"lookup", "detach", "insert", "replace", "attach">>, b, "absent")

\* DELETE /rules/{id}: delete_and_deactivate.
DeleteRule(p, r) ==
    Begin(p, r, <<"lookup", "detach", "remove", "erase">>, "absent", "absent")

\* POST /rules/{id}/toggle.
EnableRule(p, r) ==
    Begin(p, r, <<"read", "flag", "list", "swap", "attach">>, "enabled", "absent")
DisableRule(p, r) ==
    Begin(p, r, <<"read", "flag", "list", "swap", "detach">>, "disabled", "absent")

\* POST /rules/{id}/reassign, to whichever connector.
ReassignRule(p, r) ==
    Begin(p, r, <<"detach", "need", "insert", "replace", "read", "attach">>,
          "absent", "absent")

\* The chat commands never touch the trigger registry.
NewRuleCommand(p, r, b) == Begin(p, r, <<"insert", "add">>, b, b)
ToggleCommand(p, r) == Begin(p, r, <<"flip", "set", "flag">>, "absent", "absent")
DelRuleCommand(p, r) == Begin(p, r, <<"need", "remove", "erase">>, "absent", "absent")

\* DELETE /connectors/{name}?cascade: the rules of a snapshot of the table,
\* then the host.  Until there is a rule in hand any rule of the connector
\* stands for it.
RemoveConnectorCascade(p, c) ==
    /\ call[p].todo = <<>> /\ ops < MaxOps
    /\ LET victims == {r \in Rules : row[r] # NoRow /\ ConnectorOf(r) = c}
       IN \E r \in Rules :
             /\ ConnectorOf(r) = c
             /\ call' = [call EXCEPT ![p] = NewCall(<<"purge">>, r, "absent", "absent", victims)]
    /\ ops' = ops + 1
    /\ UNCHANGED <<row, engine, active, host, refused, replaced>>

\* The caller goes on with the rest of its steps, or returns.
Go(p, c) == call' = [call EXCEPT ![p] = IF c.todo = <<>> THEN Idle ELSE c]
Rest(p) == [call[p] EXCEPT !.todo = Tail(@)]
Then(p, step) == [call[p] EXCEPT !.todo = <<step>> \o Tail(@)]
Return(p) == call' = [call EXCEPT ![p] = Idle]

(***************************************************************************)
(* Steps in the store                                                      *)
(***************************************************************************)

\* insert_rule is a plain INSERT: a second one of the same id is an error,
\* and every caller gives up.
Insert(p) ==
    /\ At(p, "insert")
    /\ LET r == call[p].rule  b == call[p].body IN
       \/ /\ row[r] = NoRow
          /\ row' = [row EXCEPT ![r] = [column |-> StatusOf(b), toml |-> b]]
          /\ Go(p, Rest(p))
       \/ row[r] # NoRow /\ Return(p) /\ UNCHANGED row
    /\ UNCHANGED <<engine, active, host, refused, replaced, ops>>

\* toggle_rule of the store changes the column, not the text.
Flag(p) ==
    /\ At(p, "flag")
    /\ LET r == call[p].rule IN
       \/ /\ row[r] # NoRow
          /\ row' = [row EXCEPT ![r].column = call[p].body]
          /\ Go(p, Rest(p))
       \/ row[r] = NoRow /\ Return(p) /\ UNCHANGED row
    /\ UNCHANGED <<engine, active, host, refused, replaced, ops>>

\* list_rules reads the texts.
List(p) ==
    /\ At(p, "list")
    /\ LET r == call[p].rule IN
       Go(p, [Rest(p) EXCEPT !.body = IF row[r] = NoRow THEN "absent" ELSE row[r].toml])
    /\ UNCHANGED <<row, engine, active, host, refused, replaced, ops>>

\* delete_rule; a cascade stops half-way when the row is already gone.
Erase(p) ==
    /\ At(p, "erase")
    /\ LET r == call[p].rule IN
       \/ /\ row[r] # NoRow
          /\ row' = [row EXCEPT ![r] = NoRow]
          /\ Go(p, Rest(p))
       \/ row[r] = NoRow /\ Return(p) /\ UNCHANGED row
    /\ UNCHANGED <<engine, active, host, refused, replaced, ops>>

(***************************************************************************)
(* Steps in the engine, each under its read or write lock                  *)
(***************************************************************************)

\* add_rule, and the roll-back of the insert when the engine refuses.
Add(p) ==
    /\ At(p, "add")
    /\ LET r == call[p].rule  b == call[p].body IN
       \/ /\ b # "invalid"
          /\ engine' = [engine EXCEPT ![r] = b]
          /\ Go(p, Rest(p))
          /\ UNCHANGED refused
       \/ /\ b = "invalid"
          /\ refused' = refused \cup {r}
          /\ Go(p, [call[p] EXCEPT !.todo = <<"erase">>])
          /\ UNCHANGED engine
    /\ UNCHANGED <<row, active, host, replaced, ops>>

\* update_rule removes the old copy; a refused text is not rolled back.
Replace(p) ==
    /\ At(p, "replace")
    /\ LET r == call[p].rule  b == call[p].body IN
       \/ /\ b # "invalid"
          /\ engine' = [engine EXCEPT ![r] = b]
          /\ Go(p, [Rest(p) EXCEPT !.held = b])
          /\ UNCHANGED refused
       \/ /\ b = "invalid"
          /\ engine' = [engine EXCEPT ![r] = "absent"]
          /\ refused' = refused \cup {r}
          /\ Return(p)
    /\ UNCHANGED <<row, active, host, replaced, ops>>

Swap_ForgetsAdd(p) ==
    /\ At(p, "swap")
    /\ engine' = [engine EXCEPT ![call[p].rule] = "absent"]
    /\ Go(p, Rest(p))
    /\ UNCHANGED <<row, active, host, refused, replaced, ops>>

\* toggle_rule replaces the engine's copy by the text it has listed.
Swap(p) ==
    /\ At(p, "swap")
    /\ LET r == call[p].rule  b == call[p].body IN
       engine' = IF b = "absent" THEN engine
                 ELSE [engine EXCEPT ![r] = IF b = "invalid" THEN "absent" ELSE b]
    /\ Go(p, Rest(p))
    /\ UNCHANGED <<row, active, host, refused, replaced, ops>>

\* The old rule is looked up for its triggers; not found, nothing to detach.
Lookup(p) ==
    /\ At(p, "lookup")
    /\ LET r == call[p].rule IN
       Go(p, IF engine[r] = "absent" THEN [Rest(p) EXCEPT !.todo = Tail(@)]
                                     ELSE [Rest(p) EXCEPT !.held = engine[r]])
    /\ UNCHANGED <<row, engine, active, host, refused, replaced, ops>>

\* A copy for later, or not found.
Read(p) ==
    /\ At(p, "read")
    /\ Go(p, [Rest(p) EXCEPT !.held = engine[call[p].rule]])
    /\ UNCHANGED <<row, engine, active, host, refused, replaced, ops>>

\* A call that ends when the engine does not know the rule.
Need(p) ==
    /\ At(p, "need")
    /\ LET s == engine[call[p].rule] IN
       \/ s # "absent" /\ Go(p, [Rest(p) EXCEPT !.body = s])
       \/ s = "absent" /\ Return(p)
    /\ UNCHANGED <<row, engine, active, host, refused, replaced, ops>>

\* /toggle computes the opposite status under the read lock ...
Flip(p) ==
    /\ At(p, "flip")
    /\ LET s == engine[call[p].rule] IN
       \/ s # "absent" /\ Go(p, [Rest(p) EXCEPT !.body =
                                   IF s = "enabled" THEN "disabled" ELSE "enabled"])
       \/ s = "absent" /\ Return(p)
    /\ UNCHANGED <<row, engine, active, host, refused, replaced, ops>>

\* ... and sets it under the write lock, if the rule is still there.
SetStatus(p) ==
    /\ At(p, "set")
    /\ LET r == call[p].rule IN
       engine' = IF engine[r] = "absent" THEN engine
                 ELSE [engine EXCEPT ![r] = call[p].body]
    /\ Go(p, Rest(p))
    /\ UNCHANGED <<row, active, host, refused, replaced, ops>>

Remove(p) ==
    /\ At(p, "remove")
    /\ engine' = [engine EXCEPT ![call[p].rule] = "absent"]
    /\ Go(p, Rest(p))
    /\ UNCHANGED <<row, active, host, refused, replaced, ops>>

(***************************************************************************)
(* Steps in the trigger registry                                           *)
(***************************************************************************)

\* on_event of a connector: the host's counter gives the id.
on_event_SameId(h, r) == [h EXCEPT !.handlers = @ \cup {[id |-> h.next, rule |-> r]}]
on_event(h, r) ==
    [up |-> h.up, next |-> h.next + 1,
     handlers |-> h.handlers \cup {[id |-> h.next, rule |-> r]}]

\* attach_rule: only an enabled rule whose connector is installed, and the
\* connector may refuse the event; a refusal is kept with the rule for the
\* dashboard, and the call goes on.  The registry's read lock is held from
\* here until the entry is recorded.
Attach(p) ==
    /\ At(p, "attach")
    /\ LET r == call[p].rule
           c == ConnectorOf(r)
           h == host[c] IN
       \/ /\ call[p].held = "enabled" /\ h.up
          /\ h.next <= MaxSubs
          /\ host' = [host EXCEPT ![c] = on_event(h, r)]
          /\ Go(p, [Then(p, "record") EXCEPT !.subs = {[connector |-> c, id |-> h.next]}])
       \/ Go(p, Rest(p)) /\ UNCHANGED host
    /\ UNCHANGED <<row, engine, active, refused, replaced, ops>>

Record(p) ==
    /\ At(p, "record")
    /\ active' = [active EXCEPT ![call[p].rule] = @ \cup call[p].subs]
    /\ Go(p, [Rest(p) EXCEPT !.subs = {}])
    /\ UNCHANGED <<row, engine, host, refused, replaced, ops>>

Detach_ForgetsHost(p) ==
    /\ At(p, "detach")
    /\ active' = [active EXCEPT ![call[p].rule] = {}]
    /\ Go(p, Rest(p))
    /\ UNCHANGED <<row, engine, host, refused, replaced, ops>>

\* detach_rule takes the rule's entries out of the map ...
Detach(p) ==
    /\ At(p, "detach")
    /\ LET subs == active[call[p].rule] IN
       /\ active' = [active EXCEPT ![call[p].rule] = {}]
       /\ Go(p, IF subs = {} THEN Rest(p) ELSE [Then(p, "unhook") EXCEPT !.subs = subs])
    /\ UNCHANGED <<row, engine, host, refused, replaced, ops>>

\* ... and then removes each, by id, from whatever host is installed now.
RemoveEvent(h, c, subs) ==
    [h EXCEPT !.handlers = {x \in @ : [connector |-> c, id |-> x.id] \notin subs}]

Unhook(p) ==
    /\ At(p, "unhook")
    /\ host' = [c \in Connectors |-> RemoveEvent(host[c], c, call[p].subs)]
    /\ Go(p, [Rest(p) EXCEPT !.subs = {}])
    /\ UNCHANGED <<row, engine, active, refused, replaced, ops>>

(***************************************************************************)
(* Connectors                                                              *)
(***************************************************************************)

\* Nobody holds the registry's read lock over an await.
RegistryFree == \A p \in Callers : ~At(p, "record")

FreshHost == [up |-> TRUE, next |-> 1, handlers |-> {}]
GoneHost == [up |-> FALSE, next |-> 1, handlers |-> {}]

\* setup_connector and reload_connector put a new instance in the place of
\* the old one; neither attaches the rules to it.
SetupConnector(c) ==
    /\ ops < MaxOps /\ RegistryFree
    /\ host' = [host EXCEPT ![c] = FreshHost]
    /\ replaced' = replaced \cup {c}
    /\ ops' = ops + 1
    /\ UNCHANGED <<row, engine, active, call, refused>>

RemoveConnector(c) ==
    /\ ops < MaxOps /\ RegistryFree
    /\ host[c].up
    /\ host' = [host EXCEPT ![c] = GoneHost]
    /\ replaced' = replaced \cup {c}
    /\ ops' = ops + 1
    /\ UNCHANGED <<row, engine, active, call, refused>>

\* The cascade deletes its rules one by one, then uninstalls the host.
Purge(p) ==
    /\ At(p, "purge")
    /\ \/ \E r \in call[p].work :
             Go(p, NewCall(<<"remove", "erase", "purge">>, r, "absent", "absent",
                           call[p].work \ {r}))
       \/ /\ call[p].work = {}
          /\ Go(p, [call[p] EXCEPT !.todo = <<"uninstall">>])
    /\ UNCHANGED <<row, engine, active, host, refused, replaced, ops>>

Uninstall(p) ==
    /\ At(p, "uninstall") /\ RegistryFree
    /\ LET c == ConnectorOf(call[p].rule) IN
       /\ host' = [host EXCEPT ![c] = GoneHost]
       /\ replaced' = replaced \cup {c}
    /\ Go(p, Rest(p))
    /\ UNCHANGED <<row, engine, active, refused, ops>>

(***************************************************************************)
(* Specification                                                           *)
(***************************************************************************)

ApiCall(p, r) ==
    \/ \E b \in Body : CreateRule(p, r, b) \/ UpdateRule(p, r, b)
    \/ CreateConnectorRule(p, r) \/ DeleteRule(p, r)
    \/ EnableRule(p, r) \/ DisableRule(p, r) \/ ReassignRule(p, r)

ChatCommand(p, r) ==
    \/ \E b \in Body : NewRuleCommand(p, r, b)
    \/ ToggleCommand(p, r) \/ DelRuleCommand(p, r)

Step(p) ==
    \/ Insert(p) \/ Flag(p) \/ List(p) \/ Erase(p)
    \/ Add(p) \/ Replace(p) \/ Swap(p) \/ Lookup(p) \/ Read(p) \/ Need(p)
    \/ Flip(p) \/ SetStatus(p) \/ Remove(p)
    \/ Attach(p) \/ Record(p) \/ Detach(p) \/ Unhook(p)
    \/ Purge(p) \/ Uninstall(p)

\* The bound is used up and every call has returned; any other state without
\* a successor would be a call that is stuck.
Quiet ==
    /\ ops = MaxOps
    /\ \A p \in Callers : call[p].todo = <<>>
    /\ UNCHANGED vars

Next ==
    \/ \E p \in Callers, r \in Rules : ApiCall(p, r) \/ ChatCommand(p, r)
    \/ \E p \in Callers, c \in Connectors : RemoveConnectorCascade(p, c)
    \/ \E p \in Callers : Step(p)
    \/ \E c \in Connectors : SetupConnector(c) \/ RemoveConnector(c)
    \/ Restart
    \/ Quiet

Spec == Init /\ [][Next]_vars

(***************************************************************************)
(* Properties                                                              *)
(***************************************************************************)

TypeOK ==
    /\ row \in [Rules -> Row \cup {NoRow}]
    /\ engine \in [Rules -> Status \cup {"absent"}]
    /\ active \in [Rules -> SUBSET Subscription]
    /\ host \in [Connectors -> Host]
    /\ call \in [Callers -> Call]
    /\ refused \in SUBSET Rules /\ replaced \in SUBSET Connectors
    /\ ops \in 0..MaxOps

\* No handler leaks: every handler on an installed host is on record for
\* the rule that attached it, or in the hands of the call that is just
\* attaching or detaching that rule; so detaching rules can silence a host
\* whatever attach, detach and reload overlapped (triggers/registry.rs).
HandlersAccounted ==
    \A c \in Connectors : \A h \in host[c].handlers :
        LET sub == [connector |-> c, id |-> h.id] IN
        \/ sub \in active[h.rule]
        \/ \E p \in Callers : call[p].rule = h.rule /\ sub \in call[p].subs

\* Detaching one rule never deafens another: as long as a connector keeps
\* the host it booted with, what the registry has on record for a rule is a
\* handler of that rule on that host (registry.rs, subscription.rs).  A host
\* that replaces another counts its ids from 1 again, and there it fails.
RecordedIsHeard ==
    \A r \in Rules : \A sub \in active[r] :
        sub.connector \notin replaced =>
            [id |-> sub.id, rule |-> r] \in host[sub.connector].handlers

\* A stored rule is never silently missing from the engine: while a row
\* has no copy in the engine, some call is between the two (a create on its
\* way in, a delete on its way out) and will settle it.  Rules whose text
\* the engine refused at some time are exempt (operations/rules/create.rs,
\* bot /newrule and /delrule, the connector cascade).
RowsAreLoaded ==
    \A r \in Rules \ refused :
        row[r] # NoRow /\ row[r].toml # "invalid" /\ engine[r] = "absent" =>
            \E p \in Callers : /\ call[p].rule = r
                               /\ At(p, "add") \/ At(p, "replace") \/ At(p, "erase")

\* The doc of toggle_rule (operations/rules/create.rs:53): "Toggle a rule's
\* enabled/disabled status in both store and engine".  With no call in
\* progress, what the column says is what the engine goes by.
ToggledInBoth ==
    (\A p \in Callers : call[p] = Idle) =>
        \A r \in Rules : row[r] # NoRow /\ engine[r] # "absent" =>
            engine[r] = row[r].column
=============================================================================

----------------------------- MODULE Algorithms -----------------------------
(***************************************************************************)
(* The functional parts of the system against what is expected of them:    *)
(* one call at a time, for every input of the sets below.  A case holds    *)
(* the input and what the code made of it.                                 *)
(*                                                                         *)
(* Each of these parts decides alone, without waiting for anybody: the     *)
(* maintenance windows and gates of the automation, the adapters, the      *)
(* script chains of both pipeline stages, the integrations of an event, a  *)
(* collection cycle, the in-memory store and the lists of the API.         *)
(***************************************************************************)
EXTENDS Response, StageA, Integrations, SnmpPoll, MemStore, Paging, Relation

CONSTANTS
    WindowCases,     \* [window, now, dev]
    ResponseCases,   \* [recorded, current: files, policy, event, scripted, device, later, globalDry, world]
    ChainCases,      \* [raw, scripts]
    EnrichCases,     \* [o, dev, scripts]
    EventCases,      \* [msg, scripts, attempts]
    InvokeCases,     \* [script, attempt]
    PollCases,       \* [profiles, configured, sysObjectID, agent, batch]
    StoreCases,      \* what may be asked of a store: [calls, ops, steps]
    StoreTimes,      \* instants the queries of a store ask for
    PageCases        \* [tables, filter, limit]

\* The shape of the inputs.
IsTimed(w, now) == /\ w.from \in Int /\ w.until \in Int
                   /\ w.recurring # NoSchedule => w.recurring.zone[now] \in Int
IsPolicy(p) ==
    p = [ id |-> p.id, event |-> p.event, action |-> p.action, target |-> p.target, params |-> p.params,
          script |-> p.script, allowed |-> p.allowed, dryRun |-> p.dryRun, requireTag |-> p.requireTag,
          deviceTypes |-> p.deviceTypes, site |-> p.site, minSeverity |-> p.minSeverity, tags |-> p.tags ]
IsObservation(o) ==
    o = [ ident |-> o.ident, received |-> o.received, metric |-> o.metric, value |-> o.value,
          labels |-> o.labels, metadata |-> o.metadata, future |-> o.future ]
AreScripts(q) ==
    /\ q \in Seq(ToSet(q))
    /\ \A i \in DOMAIN q : q[i].does \in { "throw", "inactive", "saturated", "null", "garbage", "rename", "misname",
                                           "steal", "restamp", "adjust", "annotate" }
IsIntegration(s) ==
    /\ s.does \in Seq(ToSet(s.does))
    /\ \A i \in DOMAIN s.does : /\ s.does[i].fn \in {"emit", "metric", "http"}
                                /\ s.does[i].arg \in {"good", "refused", "malformed"}
                                /\ s.does[i].caught \in BOOLEAN
IsTable(q) ==
    /\ q \in Seq(ToSet(q))
    /\ \A i \in DOMAIN q : q[i].t \in Nat /\ q[i].id \in Nat
    /\ \A i, j \in DOMAIN q : q[i].id = q[j].id => i = j
Rows(tables) == UNION { ToSet(tables[k]) : k \in DOMAIN tables }

\* Only a claim makes a request executing, and a batch of the outbox is not
\* empty.
IsRequest(r) ==
    /\ r = [status |-> r.status, created |-> r.created, notBefore |-> r.notBefore, by |-> r.by, claimed |-> r.claimed]
    /\ r.status # "executing" /\ r.claimed = Never /\ r.created \in Int
IsStoreCall(o) ==
    /\ o.op \in { "InsertAutomationRequest", "ClaimAutomation", "SetAutomationStatus", "ApproveAutomation",
                  "CompleteAutomation", "UpsertDevices", "UpdateDeviceAttributes", "DrainOutbox" }
    /\ o.op = "InsertAutomationRequest" => IsRequest(o.request) /\ o.id \in Nat
    /\ o.op = "ClaimAutomation" => o.now \in Int
    /\ o.op = "SetAutomationStatus" => o.to # "executing"
    /\ o.op = "CompleteAutomation" => o.status # "executing"
    /\ o.op = "DrainOutbox" => o.limit \in Nat \ {0}
IsStoreOp(o) ==
    /\ o.op \in { "InsertObservation", "InsertTransition", "InsertEvent", "PutState", "TouchDevice", "OpenAlert",
                  "ResolveAlert", "Enqueue" }
    /\ o.op = "InsertObservation" => o.row.at \in Int
    /\ o.op = "TouchDevice" => o.at \in Int

ASSUME AlgorithmsAssumption ==
    /\ \A c \in WindowCases : c.now \in Int /\ IsTimed(c.window, c.now)
    /\ \A c \in ResponseCases :
           /\ \A p \in c.current.policies : IsPolicy(p)
           /\ \A w \in c.current.windows : IsTimed(w, c.world.now)
           /\ c.world.now \in Int
    /\ \A c \in ChainCases : IsObservation(c.raw) /\ AreScripts(c.scripts)
    /\ \A c \in EnrichCases : IsObservation(c.o) /\ AreScripts(c.scripts)
    /\ \A c \in EventCases :
           /\ c.scripts \in Seq(ToSet(c.scripts)) /\ \A i \in DOMAIN c.scripts : IsIntegration(c.scripts[i])
           /\ c.attempts \in Seq(ToSet(c.attempts)) /\ Len(c.attempts) > 0
           /\ \A k \in DOMAIN c.attempts : c.attempts[k].up \in BOOLEAN
    /\ \A c \in InvokeCases : IsIntegration(c.script) /\ c.attempt.up \in BOOLEAN
    /\ StoreTimes \subseteq Int
    /\ \A c \in StoreCases : (\A o \in c.calls : IsStoreCall(o)) /\ \A o \in c.ops : IsStoreOp(o)
    \* A row keeps its time, and there are more requests than rows.
    /\ \A c \in PageCases :
           /\ c.limit \in Int /\ c.tables \in Seq(ToSet(c.tables))
           /\ \A k \in DOMAIN c.tables : IsTable(c.tables[k])
           /\ \A a, b \in Rows(c.tables) : a.id = b.id => a.t = b.t
           /\ Cardinality({ r.id : r \in Rows(c.tables) }) < Len(c.tables)

VARIABLE case

Idle == [part |-> "none"]

Init == case = Idle

-----------------------------------------------------------------------------
(* The calls.                                                              *)

TryWindow ==
    /\ case = Idle
    /\ \E c \in WindowCases :
           /\ ValidWindow(c.window)
           /\ case' = [part |-> "window", in |-> c, active |-> Active(c.window, c.now, c.dev)]

\* An event is handled with one policy file and inventory, and its request is
\* processed with what is configured then.
TryResponse ==
    /\ case = Idle
    /\ \E c \in ResponseCases :
           /\ ValidFile(c.recorded) /\ ValidFile(c.current)
           /\ \E p \in Match(c.recorded, c.event, c.device) :
                  LET req == Request(p, c.event, c.device, c.scripted, c.globalDry)
                  IN  case' = [ part |-> "response", in |-> c, policy |-> p, request |-> req,
                                out |-> Process(req, c.later, c.current, c.world) ]

TryChain ==
    /\ case = Idle
    /\ \E c \in ChainCases : case' = [part |-> "chain", in |-> c, out |-> NormalizeMessage(c.raw, c.scripts)]

TryEnrich ==
    /\ case = Idle
    /\ \E c \in EnrichCases : case' = [part |-> "enrich", in |-> c, out |-> Enrich(c.o, c.dev, c.scripts)]

\* An event is delivered until it is settled or out of attempts.
TryIntegrations ==
    /\ case = Idle
    /\ \E c \in EventCases :
           case' = [part |-> "integrations", in |-> c, out |-> DeliverMessage(c.msg, c.scripts, c.attempts)]

TryInvoke ==
    /\ case = Idle
    /\ \E c \in InvokeCases :
           case' = [part |-> "invoke", in |-> c, out |-> Invoke("req", c.script, c.attempt, NewWorld)]

\* Profiles that cannot be flattened are refused when they are loaded.
TryPoll ==
    /\ case = Idle
    /\ \E c \in PollCases :
           LET flat == Flatten(c.profiles)
               bad  == \E id \in DOMAIN c.profiles : flat[id].error \/ ~ValidProfile(c.profiles[id])
           IN  IF bad THEN case' = [part |-> "profiles", in |-> c]
               ELSE \E id \in SelectProfile(c.profiles, c.configured, c.sysObjectID, c.agent) :
                        case' = [ part |-> "poll", in |-> c, id |-> id, out |-> Cycle(c.agent, flat, id, c.batch),
                                  metrics |-> IF id \in DOMAIN flat THEN flat[id].metrics ELSE <<>> ]

\* The same calls and transactions, made to both stores.  Do holds the store's
\* mutex, so nobody sees what is between its steps: mem is the in-memory store
\* with its undo functions, db the tables as the caller sees them and old the
\* tables a failing transaction returns to.
Stores(c, phase, steps, mem, db, old) ==
    [part |-> "store", in |-> c, phase |-> phase, steps |-> steps, mem |-> mem, db |-> db, old |-> old]

InPhase(phase) == case.part = "store" /\ case.phase = phase
MayStep == case.steps < case.in.steps

TryStore ==
    /\ case = Idle
    /\ \E c \in StoreCases : case' = Stores(c, "closed", 0, NoChange(NewMemStore), Empty, Empty)

StoreCall ==
    /\ InPhase("closed") /\ MayStep
    /\ \E o \in case.in.calls :
           case' = Stores(case.in, "closed", case.steps + 1, NoChange(MemCall(case.mem.s, o)), Call(case.db, o), Empty)

StoreBegin ==
    /\ InPhase("closed") /\ MayStep
    /\ case' = Stores(case.in, "open", case.steps, case.mem, case.db, case.db)

\* recordEvent opens an alert for an event it has just inserted, so an event
\* opens one at most.
StoreOp ==
    /\ InPhase("open") /\ MayStep
    /\ \E o \in case.in.ops :
           /\ o.op = "OpenAlert" => \A a \in case.db.alerts : a.event # o.event
           /\ case' = Stores(case.in, "open", case.steps + 1, MemDo(case.mem, o), Apply(case.db, o), case.old)

StoreCommit ==
    /\ InPhase("open")
    /\ case' = Stores(case.in, "closed", case.steps, NoChange(case.mem.s), case.db, Empty)

StoreFail ==
    /\ InPhase("open")
    /\ case' = Stores(case.in, "undoing", case.steps, case.mem, case.old, Empty)

StoreUndo ==
    /\ InPhase("undoing") /\ case.mem.undo # <<>>
    /\ case' = Stores(case.in, "undoing", case.steps, UndoLast(case.mem), case.db, Empty)

StoreUndone ==
    /\ InPhase("undoing") /\ case.mem.undo = <<>>
    /\ case' = Stores(case.in, "closed", case.steps, case.mem, case.db, Empty)

TryPages ==
    /\ case = Idle
    /\ \E c \in PageCases :
           case' = [ part |-> "pages", in |-> c, mem |-> Walked(c.tables, c.filter, c.limit),
                     pg |-> PgWalked(c.tables, c.filter, c.limit) ]

Return ==
    /\ case # Idle
    /\ case' = Idle

Next ==
    \/ TryWindow \/ TryResponse \/ TryChain \/ TryEnrich \/ TryIntegrations \/ TryInvoke
    \/ TryPoll \/ TryPages \/ Return
    \/ TryStore \/ StoreCall \/ StoreBegin \/ StoreOp \/ StoreCommit \/ StoreFail \/ StoreUndo \/ StoreUndone

Spec == Init /\ [][Next]_case

-----------------------------------------------------------------------------
(* Maintenance windows and the gates of the automation.                    *)

\* An instant is under maintenance exactly if the clocks of the window's zone
\* show a time inside an occurrence, counted in days from its start: on these
\* clocks an occurrence that crosses midnight, belongs to a chosen day or to
\* another zone is neither cut nor doubled.  On a day the zone's offset changes
\* the clocks themselves skip or repeat a stretch, and an occurrence in it is
\* shorter, longer or interrupted in elapsed time (Window.Active).
WindowIsItsOccurrences ==
    case.part = "window" =>
        case.active = UnderMaintenance([windows |-> {case.in.window}], case.in.now, case.in.dev)

DeviceChanges == {"down", "up", "online", "description", "config", "task"}
DidSomething  == case.part = "response" /\ case.out.did # <<>>
DidToDevice   == DidSomething /\ \E i \in DOMAIN case.out.did : case.out.did[i] \in DeviceChanges

\* Nothing happens outside the platform's records unless everybody said so: the
\* policy says dry_run: false when the event is handled and again when the
\* request is processed, neither process runs in global dry-run, the device is
\* then enabled, tagged, capable and of a type the action is made for, the
\* alert still fires and no window covers the moment; and a device is only
\* changed while the file lists it (Engine.HandleEvent, process, execute).
ChangedOnlyThroughGates ==
    DidSomething =>
        LET c   == case.in
            now == { p \in c.current.policies : p.id = case.policy.id }
            act == Actions[case.request.proposal.action]
        IN  /\ ~c.globalDry /\ ~c.world.globalDry /\ c.world.firing
            /\ case.policy.dryRun = "false"
            /\ \A p \in now : /\ p.dryRun = "false"
                              /\ (IF p.requireTag = "" THEN DefaultTag ELSE p.requireTag) \in c.later.tags
                              /\ p.script # "" => case.request.proposal.action \in p.allowed
            /\ now # {} /\ c.later.enabled
            /\ act.types # {} => c.later.type \in act.types
            /\ act.capability # "" => act.capability \in c.later.capabilities
            /\ ~UnderMaintenance(c.current, c.world.now, c.later)
            /\ DidToDevice => c.later.id \in c.current.allowlist

\* What each action does when nothing goes wrong.
Effect(action) ==
    CASE action = "disable_interface"  -> <<"down">>
      [] action = "enable_interface"   -> <<"up">>
      [] action = "bounce_interface"   -> <<"down", "up">>
      [] action \in {"restart_ap_service", "restart_service"} -> <<"online">>
      [] action = "set_interface_description" -> <<"description">>
      [] action = "update_ap_config"   -> <<"config">>
      [] action = "run_maintenance_task" -> <<"task">>
      [] action = "send_webhook"       -> <<"post">>
      [] action = "create_event_record" -> <<"record">>
      [] action = "invoke_extension"   -> <<"invoke">>
      [] OTHER                         -> <<>>

\* The audit trail tells what happened: a request that succeeded did all of its
\* action, one that was refused, expired or a dry run did nothing, and one that
\* failed did nothing either, except that the answer of a call was lost, or that
\* the second half of bounce_interface failed and the port stays down
\* (Engine.execute, Switch.mutate).
ReportMatchesDevice ==
    case.part = "response" =>
        LET action == case.request.proposal.action
            out    == case.out
        IN  /\ out.status = "succeeded" => out.did = Effect(action)
            /\ out.status \in {"denied", "expired", "dry_run"} => out.did = <<>>
            /\ out.status = "failed" /\ out.did # <<>> =>
                   \/ \E i \in DOMAIN out.did : case.in.world.replies[i] = "lost"
                   \/ action = "bounce_interface" /\ out.did = <<"down">>
            /\ out.changed <=> out.status = "succeeded" /\ Effect(action) # <<>>

-----------------------------------------------------------------------------
(* Script chains.                                                          *)

\* Scripts whose result nobody may see.
BrokenTransforms == {"throw", "inactive", "garbage", "misname", "steal", "restamp"}
BrokenEnrichers  == BrokenTransforms \cup {"null", "rename", "adjust"}

\* A script can spoil nothing but its own contribution: without a broken script
\* the chain has the same outcome, what is published is valid and still the
\* observation that was received, and an enricher changes nothing but metadata
\* (Extensions.Transform and Enrich, decodeTransform, decodeEnrich).
ScriptsAreContained ==
    /\ case.part = "chain" =>
           LET c == case.in
           IN  /\ \A i \in DOMAIN c.scripts : c.scripts[i].does \in BrokenTransforms =>
                      case.out = NormalizeMessage(c.raw, RemoveAt(c.scripts, i))
               /\ case.out.status = "ok" => Valid(case.out.o) /\ case.out.o.ident = c.raw.ident
                                            /\ c.raw.received \in {"", case.out.o.received}
                                            /\ case.out.o.received \in {"now", c.raw.received}
    /\ case.part = "enrich" =>
           LET c == case.in
           IN  /\ \A i \in DOMAIN c.scripts : c.scripts[i].does \in BrokenEnrichers =>
                      case.out = Enrich(c.o, c.dev, RemoveAt(c.scripts, i))
               /\ case.out.status = "ok" => [case.out.o EXCEPT !.metadata = c.o.metadata] = c.o

-----------------------------------------------------------------------------
(* Integrations.                                                           *)

\* Call i of a script ends in an exception: a bad argument, a network error,
\* or as many calls of the function before it as the budget has.
Counts(call)   == call.arg = "good" \/ (call.fn = "http" /\ call.arg = "refused")
Throws(s, i, up) ==
    \/ s.does[i].arg # "good"
    \/ s.does[i].fn = "http" /\ ~up
    \/ Cardinality({ j \in 1..(i - 1) : s.does[j].fn = s.does[i].fn /\ Counts(s.does[j]) }) >= Budget[s.does[i].fn]
Uncaught(s, i, up) == Throws(s, i, up) /\ ~s.does[i].caught
Behaves(s, up)     == s.active /\ ReturnsResult(s) /\ \A i \in DOMAIN s.does : ~Uncaught(s, i, up)

\* The events and the requests of a script that nothing disturbs.
EmittedBy(s, up) ==
    { s.does[i].what : i \in { j \in DOMAIN s.does : Behaves(s, up) /\ s.does[j].fn = "emit" /\ ~Throws(s, j, up) } }
SentBy(s, up) ==
    { s.does[i].what : i \in { j \in DOMAIN s.does : /\ s.active /\ s.does[j].fn = "http" /\ ~Throws(s, j, TRUE)
                                                    /\ \A k \in 1..(j - 1) : ~Uncaught(s, k, up) } }

Emissions(c, up) ==
    UNION { { <<s.key, e, c.msg.event.id>> : e \in EmittedBy(s, up) } : s \in { x \in ToSet(c.scripts) : Interested(x, c.msg.event) } }
RequestsMade(c, up) ==
    UNION { { <<s.key, c.msg.event.id, q>> : q \in SentBy(s, up) } : s \in { x \in ToSet(c.scripts) : Interested(x, c.msg.event) } }

OnceEach(w) == IsInjective(w.outbox) /\ ToSet(w.outbox) = w.events

\* An event that is delivered again and again, with the platform failing in the
\* middle of a script or of storing, leaves what one undisturbed delivery would:
\* once it is acknowledged every script has made its requests, the events of
\* those that met their contract are recorded and announced once each, and
\* nothing of a script that failed; the same for an invoked extension, whose
\* result is a success only if all of it is stored (IntegrationRunner.Run and
\* Invoke, RunHandle, PersistEvent).
RedeliveryLeavesOneTrace ==
    /\ case.part = "integrations" =>
           LET c    == case.in
               out  == case.out
               runs == c.msg.complete /\ c.msg.deviceKnown
           IN  /\ OnceEach(out.world)
               /\ out.world.events \subseteq UNION { Emissions(c, c.attempts[k].up) : k \in 1..out.tries }
               /\ out.err = "" /\ runs =>
                      /\ Emissions(c, c.attempts[out.tries].up) \subseteq out.world.events
                      /\ RequestsMade(c, c.attempts[out.tries].up) \subseteq out.world.sent
               /\ ~runs => out.world = NewWorld
    /\ case.part = "invoke" =>
           LET s   == case.in.script
               all == { <<s.key, e, "req">> : e \in EmittedBy(s, case.in.attempt.up) }
           IN  /\ OnceEach(case.out.world) /\ case.out.world.events \subseteq all
               /\ case.out.err = "" => case.out.world.events = all /\ s.returns = "ok" /\ Behaves(s, case.in.attempt.up)

-----------------------------------------------------------------------------
(* Collection.                                                             *)

\* Which profiles a profile reaches by including.
Included(raw) ==
    TransitiveClosure([a, b \in DOMAIN raw |-> b \in ToSet(raw[a].include)], DOMAIN raw)

\* What a profile and the agent have in common, metric by metric.
Readable(agent, m) ==
    IF IsScalar(m) THEN m.oid \notin agent.unreadable
    ELSE ({m.table.oid} \cup { m.table.labels[l] : l \in DOMAIN m.table.labels }) \cap agent.unreadable = {}

\* The labels of a row, name by name.
LabelsOf(agent, t, r) ==
    LET Cell(l)     == agent.column[t.labels[l]]
        InColumn(l) == l \in DOMAIN t.labels /\ r \in DOMAIN Cell(l) /\ Cell(l)[r].kind # "missing"
        names       == { l \in DOMAIN t.labels \cup {t.index} : InColumn(l) \/ l = t.index }
    IN  { <<l, IF InColumn(l) THEN Cell(l)[r].v ELSE r>> : l \in names }

Values(agent, m) ==
    IF IsScalar(m) THEN { {} : v \in { x \in {agent.value[m.oid]} : x.kind # "missing" /\ Decodes(m.type, x) } }
    ELSE LET col == agent.column[m.table.oid]
         IN  { LabelsOf(agent, m.table, r) : r \in { x \in DOMAIN col : col[x].kind # "missing" /\ Decodes(m.type, col[x]) } }

\* A profile includes itself, or somebody unknown.
Misincludes(raw) ==
    \E id \in DOMAIN raw : Included(raw)[id, id] \/ ~(ToSet(raw[id].include) \subseteq DOMAIN raw)

Reached(raw, id) == { b \in DOMAIN raw : b = id \/ (id \in DOMAIN raw /\ Included(raw)[id, b]) }

\* A cycle publishes, for every metric the profile has or includes, exactly the
\* values the agent has of it, each once, whatever the size of the batches; or
\* no profile was found or the agent could not be read, and nothing but the
\* failure is published.  Profiles are refused exactly if one of them includes
\* itself, also through others, or somebody unknown, or is not valid (validate,
\* flatten, Poll, PollOnce).
CycleIsCompleteOrFailed ==
    /\ case.part \in {"profiles", "poll"} =>
           LET raw == case.in.profiles
           IN  case.part = "profiles" <=> Misincludes(raw) \/ \E id \in DOMAIN raw : ~ValidProfile(raw[id])
    /\ case.part = "poll" =>
           LET raw   == case.in.profiles
               agent == case.in.agent
               ms    == { case.metrics[i] : i \in DOMAIN case.metrics }
               names == UNION { { raw[id].metrics[i].name : i \in DOMAIN raw[id].metrics } : id \in Reached(raw, case.id) }
               all   == UNION { { <<m.name, l>> : l \in Values(agent, m) } : m \in ms }
               obs   == case.out.obs
           IN  /\ { m.name : m \in ms } = names
               /\ \A m1, m2 \in ms : m1.name = m2.name => m1 = m2
               /\ case.out.success = (case.id # NoProfile /\ ~agent.down /\ \A m \in ms : Readable(agent, m))
               /\ IF ~case.out.success THEN obs = <<>>
                  ELSE /\ { <<obs[i].metric, obs[i].labels>> : i \in DOMAIN obs } = all
                       /\ Len(obs) = Cardinality(all)

-----------------------------------------------------------------------------
(* Storage and lists.                                                      *)

\* Requests were inserted in the order of their creation.
InsertedAsCreated(s) ==
    \A i, j \in DOMAIN s.autoOrder : i < j => CreatedBefore(Contents(s), s.autoOrder[i], s.autoOrder[j])

\* A batch of due requests.  The stores may choose other requests for it where
\* more are due than it holds: the first inserted or the first created.
SameBatch(s, db, now, limit) ==
    LET due == DueRequests(db, now)
        mem == MemDueAutomation(s, now, limit)
        pg  == DueAutomation(db, now, limit)
    IN  /\ Len(mem) = Len(pg) /\ ToSet(mem) \cup ToSet(pg) \subseteq due
        /\ Cardinality(due) <= limit => ToSet(mem) = due /\ ToSet(pg) = due
        /\ InsertedAsCreated(s) => mem = pg

\* The in-memory store holds what PostgreSQL would, within a transaction and
\* after it: of one that failed nothing is left, not even in the order of
\* insertion or in the numbers of the outbox, and later operations see the same
\* rows.  Its queries find the same rows, and a batch of due requests is as
\* long, is the same when all of them fit, and is the same in the same order
\* when requests were inserted as they were created (MemStore.Do, the undo
\* functions and every method).
MemImplementsDatabase ==
    case.part = "store" /\ case.phase # "undoing" =>
        LET s  == case.mem.s
            db == case.db
        IN  /\ Contents(s) = db
            /\ \A t \in DOMAIN s.order : /\ ToSet(s.order[t]) = { r.id : r \in s[t] }
                                         /\ Len(s.order[t]) = Cardinality(s[t])
            /\ \A i \in DOMAIN s.outbox : s.outbox[i].id = i
            /\ s.next = Len(s.outbox)
            /\ \A now \in StoreTimes :
                   /\ \A limit \in 1..(Len(s.autoOrder) + 1) : SameBatch(s, db, now, limit)
                   /\ ToSet(MemAwaitingApprovalBefore(s, now)) = AwaitingApprovalBefore(db, now)
                   /\ ToSet(MemAutomationHistory(s, now)) = AutomationHistory(db, now)
            /\ MemAttemptsForAlert(s) = AttemptsForAlert(db)
            /\ \A dev \in DOMAIN s.devices :
                   /\ \A from, to \in StoreTimes :
                          LET q == MemSamples(s, dev, from, to)
                          IN  ToSet(q) = Samples(db, dev, from, to) /\ \A i, j \in DOMAIN q : i < j => q[i].at <= q[j].at
                   /\ MemLatest(s, dev) \subseteq Latest(db, dev)
                   /\ Latest(db, dev) # {} => MemLatest(s, dev) # {}

\* Following the cursors to the end lists the rows newest first, none twice,
\* and leaves out none that the filter selects from the first request to the
\* last, also when times tie and rows come, or stop matching, between the
\* pages; and the two stores list the same (pageOf, ListEvents, ListAlerts,
\* ListAutomation).
PagesAreTheList ==
    case.part = "pages" =>
        LET c      == case.in
            listed == case.mem.listed
            Found(k) == { r.id : r \in Hits(c.tables[k], c.filter) }
        IN  /\ case.mem = case.pg /\ case.mem.done
            /\ \A i, j \in DOMAIN listed : i < j => Newer(listed[i], listed[j])
            /\ { id \in Found(1) : \A k \in DOMAIN c.tables : id \in Found(k) } \subseteq { listed[i].id : i \in DOMAIN listed }
            /\ \A i \in DOMAIN listed : \E k \in DOMAIN c.tables : listed[i].id \in Found(k)
=============================================================================

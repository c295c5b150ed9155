------------------------------- MODULE StageB -------------------------------
(***************************************************************************)
(* Stage B of the processor (internal/pipeline, internal/state,            *)
(* internal/rules, internal/persistence): normalized observations, real    *)
(* ones from the stream and synthetic ones from the stale-data sweepers,   *)
(* are applied to the state records, and events, alerts, the transition    *)
(* audit and the outbox change with them in one database transaction.      *)
(*                                                                         *)
(* The stream delivers at least once and in any order: a published         *)
(* observation may be processed at any later time, any number of times.    *)
(* Several processors share the database; their transactions on one state  *)
(* key are serialised by the advisory lock of GetState, so a transaction   *)
(* is one atomic step and a rolled-back one is no step.                    *)
(***************************************************************************)
EXTENDS RuleEngine

CONSTANTS
    Defs,          \* [definition id -> Definition]
    Rules,         \* [rule id -> Rule]
    Devices,       \* registered devices, polled over SNMP
    Enabled,       \* the enabled ones; the others' observations are dropped
    Applies,       \* the devices a definition or rule is for, by their types, sites and tags
    Labels,        \* label sets a series may carry
    NoLabel,       \* the empty label set
    Readings,      \* values a collector may report
    Processors,    \* processor instances, each with a sweeper
    StaleAfter,    \* silence before an entity is stale
    SweepInterval, \* sweep period and bucket of synthetic timestamps
    StartTime,     \* the clock when the system starts
    MaxTime        \* bound: the clock stops here

DefIds  == DOMAIN Defs
RuleIds == DOMAIN Rules

ASSUME StageBAssumption ==
    /\ \A d \in DefIds : Defs[d] \in Definition /\ ValidDefinition(Defs[d])
    /\ \A r \in RuleIds : Rules[r] \in Rule /\ ValidRule(Rules[r])
    /\ DefIds \cap RuleIds = {} /\ "collector" \notin DefIds
    /\ Enabled \subseteq Devices
    /\ Applies \in [DefIds \cup RuleIds -> SUBSET Devices]
    /\ NoLabel \in Labels
    /\ Readings \subseteq Values
    /\ SweepInterval \in Nat \ {0} /\ StaleAfter \in Nat
    /\ StartTime \in Nat \ {0} /\ MaxTime \in Nat
    /\ StaleAfter <= StartTime      \* the zero time is long ago

VARIABLES
    now,         \* wall clock
    published,   \* real observations on the normalized stream
    stored,      \* the observations table
    states,      \* state_current: [Keys -> Record]
    transitions, \* state_transitions
    events,      \* the events table
    alerts,      \* the alerts table: opening event and status
    outbox,      \* outbox rows: subject and event
    lastSeen,    \* devices.last_seen
    startedAt,   \* Processor.StartedAt of each instance
    sweeping     \* the synthetic samples each instance's sweep still has to feed

vars == <<now, published, stored, states, transitions, events, alerts, outbox,
          lastSeen, startedAt, sweeping>>

Observation ==
    [ device : Devices, label : Labels, metric : STRING, value : Values,
      at : Nat, source : {"snmp", "sweeper"},
      origin : DefIds \cup {"collector"} ]   \* part of a synthetic sample's id

Keys == (DefIds \cup RuleIds) \X Devices \X Labels

\* KeyFor: a definition keeps only its key labels, a rule keeps them all.
KeyLabel(id, label) ==
    IF id \in DefIds /\ ~Defs[id].keyed THEN NoLabel ELSE label
KeyFor(id, o) == <<id, o.device, KeyLabel(id, o.label)>>

Metric(id) == IF id \in DefIds THEN Defs[id].metric ELSE Rules[id].metric

\* The keys whose record an observation may change.
Touched(o) ==
    { KeyFor(id, o) : id \in { i \in DefIds \cup RuleIds : Metric(i) = o.metric /\ o.device \in Applies[i] } }

\* Deterministic event identity: key, kind and triggering observation.
Event(k, kind, o) == [key |-> k, kind |-> kind, obs |-> o]

-----------------------------------------------------------------------------
(* The transaction of Process.                                             *)

\* The record of key k after the transaction; `first` resolves the order of
\* equal timestamps in rule windows, which include o itself.
NextRecord(k, o, first) ==
    IF k[1] \in DefIds
    THEN Evaluate(Defs[k[1]], states[k], o)
    ELSE RuleEvaluate(states[k],
             Condition(Rules[k[1]], Samples(stored \cup {o}, Rules[k[1]], o), first), o)

\* A rule's first record is compared with UP, a definition's with no state.
FromState(k, rec) ==
    IF k[1] \in RuleIds /\ rec.state = "NONE" THEN "UP" ELSE rec.state

Transitioned(k, rec) == FromState(k, states[k]) # rec.state

\* The events of the transaction, given the new records.
NewEvents(o, recs) ==
    { Event(k, EventFor(FromState(k, states[k]), recs[k].state), o) :
        k \in { x \in Touched(o) : EventFor(FromState(x, states[x]), recs[x].state) # "none" } }

FiringFor(al, k) == { a \in al : a.opened.key = k /\ a.status = "firing" }

\* OpenAlert refuses a second firing alert per key; ResolveAlert closes the
\* firing one, if any.
OpensAlert(e) == e.kind = "alert" /\ FiringFor(alerts, e.key) = {}
ResolvesAlertSilently(e) ==      \* mutant: ResolveAlert reports no change
    FALSE
ResolvesAlert(e) == e.kind = "recovery" /\ FiringFor(alerts, e.key) # {}

ResolvedBy(a, evs) ==
    { e \in evs : e.kind = "recovery" /\ e.key = a.opened.key /\ a.status = "firing" }

\* recordEvent for each event that is new: the event row, the alert it opens
\* or resolves, and one notification per subject.
RecordEvents(evs) ==
    /\ events' = events \cup evs
    /\ alerts' = { IF ResolvedBy(a, evs) = {} THEN a ELSE [a EXCEPT !.status = "resolved"] :
                     a \in alerts }
                 \cup { [opened |-> e, status |-> "firing"] : e \in { x \in evs : OpensAlert(x) } }
    /\ outbox' = outbox
                 \cup { [subject |-> "events.device", event |-> e] : e \in evs }
                 \cup { [subject |-> "events.alert", event |-> e] :
                          e \in { x \in evs : OpensAlert(x) \/ ResolvesAlert(x) } }

\* PutState, InsertTransition and recordEvent for every touched key.
ApplyUpdates(o, recs) ==
    /\ states' = [k \in Keys |-> IF k \in Touched(o) THEN recs[k] ELSE states[k]]
    /\ transitions' = transitions \cup
         { [key |-> k, from |-> FromState(k, states[k]), to |-> recs[k].state, at |-> o.at] :
             k \in { x \in Touched(o) : Transitioned(x, recs[x]) } }
    /\ RecordEvents(NewEvents(o, recs) \ events)

\* Process: enrichment drops a disabled device, the insert is the duplicate
\* gate, and everything else happens only for a new observation.
Process(o) ==
    /\ o.device \in Enabled
    /\ o \notin stored
    /\ stored' = stored \cup {o}
    /\ lastSeen' = IF o.source = "sweeper" \/ o.at <= lastSeen[o.device] THEN lastSeen
                   ELSE [lastSeen EXCEPT ![o.device] = o.at]
    /\ \E first \in {"snmp", "sweeper"} :
          ApplyUpdates(o, [k \in Touched(o) |-> NextRecord(k, o, first)])

\* A duplicate or an observation of a disabled device changes nothing.
Skip(o) == /\ o \in stored \/ o.device \notin Enabled
           /\ UNCHANGED <<stored, states, transitions, events, alerts, outbox, lastSeen>>

-----------------------------------------------------------------------------
(* Sources of observations.                                                *)

\* A collector measures a series now and its observation reaches the stream.
Collect(dev, label, metric, val) ==
    /\ ~\E o \in published : /\ o.device = dev /\ o.label = label
                             /\ o.metric = metric /\ o.at = now
    /\ published' = published \cup
         { [device |-> dev, label |-> label, metric |-> metric, value |-> val,
            at |-> now, source |-> "snmp", origin |-> "collector"] }
    /\ UNCHANGED <<now, stored, states, transitions, events, alerts, outbox,
                   lastSeen, startedAt, sweeping>>

\* A worker handles one delivery: the first, a late or a repeated one.
Deliver(o) ==
    /\ o \in published
    /\ Process(o) \/ Skip(o)
    /\ UNCHANGED <<now, published, startedAt, sweeping>>

-----------------------------------------------------------------------------
(* The stale-data sweeper of each processor.                               *)

\* Sweep adds a record for every tracked device that never reported, last
\* seen when this processor started.
SweptRecord(p, k) ==
    IF states[k] = NoRecord /\ k[2] \in Enabled /\ k[3] = NoLabel
    THEN [NoRecord EXCEPT !.lastSeenAt = startedAt[p]]
    ELSE states[k]

SweptKeys == { k \in Keys : /\ k[1] \in DefIds /\ Defs[k[1]].stale
                            /\ \/ states[k] # NoRecord
                               \/ k[2] \in Enabled /\ k[3] = NoLabel }

\* StaleSamples' value: the bad boolean; a threshold definition gets `false`,
\* which its judge will reject as the wrong type.
StaleValue(def) == BoolValue(IF def.kind = "good_when" THEN ~def.equals ELSE FALSE)

Stamp(t) == (t \div SweepInterval) * SweepInterval

StaleSamples(p) ==
    { [device |-> k[2], label |-> k[3], metric |-> Metric(k[1]),
       value |-> StaleValue(Defs[k[1]]), at |-> Stamp(now), source |-> "sweeper",
       origin |-> k[1]] :
        k \in { x \in SweptKeys : /\ SweptRecord(p, x).state # "DOWN"
                                  /\ now - SweptRecord(p, x).lastSeenAt >= StaleAfter } }

\* Sweep reads the records in one query and feeds the samples one transaction
\* each: between the two, and between the samples, anything may happen.
SweepStart(p) ==
    /\ sweeping[p] = {}
    /\ sweeping' = [sweeping EXCEPT ![p] = StaleSamples(p)]
    /\ UNCHANGED <<now, published, stored, states, transitions, events, alerts,
                   outbox, lastSeen, startedAt>>

SweepFeed(p, o) ==
    /\ o \in sweeping[p]
    /\ Process(o) \/ Skip(o)
    /\ sweeping' = [sweeping EXCEPT ![p] = @ \ {o}]
    /\ UNCHANGED <<now, published, startedAt>>

\* A failed transaction ends the sweep; the next interval starts afresh.
SweepFail(p) ==
    /\ sweeping[p] # {}
    /\ sweeping' = [sweeping EXCEPT ![p] = {}]
    /\ UNCHANGED <<now, published, stored, states, transitions, events, alerts,
                   outbox, lastSeen, startedAt>>

Restart(p) ==
    /\ startedAt[p] # now \/ sweeping[p] # {}
    /\ startedAt' = [startedAt EXCEPT ![p] = now]
    /\ sweeping' = [sweeping EXCEPT ![p] = {}]
    /\ UNCHANGED <<now, published, stored, states, transitions, events, alerts,
                   outbox, lastSeen>>

Tick == /\ now < MaxTime
        /\ now' = now + 1
        /\ UNCHANGED <<published, stored, states, transitions, events, alerts,
                       outbox, lastSeen, startedAt, sweeping>>

-----------------------------------------------------------------------------
Metrics == { Metric(id) : id \in DefIds \cup RuleIds }

Init ==
    /\ now = StartTime
    /\ published = {} /\ stored = {}
    /\ states = [k \in Keys |-> NoRecord]
    /\ transitions = {} /\ events = {} /\ alerts = {} /\ outbox = {}
    /\ lastSeen = [d \in Devices |-> ZeroTime]
    /\ startedAt = [p \in Processors |-> StartTime]
    /\ sweeping = [p \in Processors |-> {}]

Next ==
    \/ Tick
    \/ \E dev \in Devices, label \in Labels, m \in Metrics, v \in Readings :
          Collect(dev, label, m, v)
    \/ \E o \in published : Deliver(o)
    \/ \E p \in Processors : \/ SweepStart(p)
                             \/ \E o \in sweeping[p] : SweepFeed(p, o)
                             \/ SweepFail(p)
                             \/ Restart(p)

Spec == Init /\ [][Next]_vars
-----------------------------------------------------------------------------
EventsOf(k) == { e \in events : e.key = k }
TransitionsOf(k) == { t \in transitions : t.key = k }

TypeOK ==
    /\ now \in Nat
    /\ published \subseteq Observation /\ stored \subseteq Observation
    /\ states \in [Keys -> Record]
    /\ transitions \subseteq [ key : Keys, from : HealthStates \cup {"NONE"},
                               to : HealthStates, at : Nat ]
    /\ events \subseteq [key : Keys, kind : {"alert", "recovery"}, obs : Observation]
    /\ alerts \subseteq [opened : events, status : {"firing", "resolved"}]
    /\ outbox \subseteq [subject : {"events.device", "events.alert"}, event : events]
    /\ lastSeen \in [Devices -> Nat] /\ startedAt \in [Processors -> Nat]
    /\ sweeping \in [Processors -> SUBSET Observation]

\* The alerts table and the state table agree whatever is redelivered,
\* reordered or swept: exactly one firing alert for an entity that is DOWN or
\* RECOVERING (an active rule included), none for any other.  The two are
\* written by different statements from different decisions (eventFor,
\* OpenAlert, ResolveAlert against step and PutState).
AlertMatchesState ==
    \A k \in Keys :
        IF states[k].state \in OutageStates
        THEN \E a \in FiringFor(alerts, k) : FiringFor(alerts, k) = {a}
        ELSE FiringFor(alerts, k) = {}

\* The events of an entity, in event time, are alert, recovery, alert, ... and
\* the last of them says whether it is in an outage now (recordEvent and
\* eventFor under reordering: a late sample must not slip an event in between).
EventsAlternate ==
    \A k \in Keys :
        LET E == EventsOf(k) IN
        /\ \A e, f \in E : e # f => e.obs.at # f.obs.at
        /\ \A e, f \in E : e.kind = f.kind /\ e.obs.at < f.obs.at =>
               \E g \in E : g.kind # e.kind /\ e.obs.at < g.obs.at /\ g.obs.at < f.obs.at
        /\ \A e \in E : (\A f \in E : e.obs.at <= f.obs.at) => e.kind = "alert"
        /\ \A e \in E : (\A f \in E : f.obs.at <= e.obs.at) =>
               ((e.kind = "alert") <=> states[k].state \in OutageStates)

\* The transition audit of an entity is a path: in time order every transition
\* starts where the one before it ended, and the last one ends in the current
\* state (InsertTransition against PutState).
AuditIsAPath ==
    \A k \in Keys :
        LET T == TransitionsOf(k) IN
        /\ \A t, u \in T : t # u => t.at # u.at
        /\ \A t \in T :
             IF \A u \in T : u.at <= t.at
             THEN t.to = states[k].state
             ELSE \E u \in T : /\ t.at < u.at /\ u.from = t.to
                               /\ \A w \in T : t.at < w.at => u.at <= w.at

\* Every event is announced on both subjects, exactly the stored events are,
\* and none is left out because the alerts table disagreed with the state
\* engine (recordEvent queues events.alert only when an alert row changed).
EveryEventIsNotified ==
    outbox = [subject : {"events.device", "events.alert"}, event : events]

\* Stage B implements the alert lifecycle: what is queued for events.alert is
\* exactly the sequence of raises and clears of each alert key.
Lifecycle == INSTANCE AlertLifecycle WITH
    firing    <- [k \in Keys |-> { a.opened : a \in FiringFor(alerts, k) }],
    announced <- { r.event : r \in { x \in outbox : x.subject = "events.alert" } }
ImplementsAlertLifecycle == Lifecycle!Spec

\* A real observation that the definition of key k judges good, or bad.
Heard(k, o, good) ==
    /\ o.source = "snmp" /\ k \in Touched(o) /\ o.value.type = "bool"
    /\ ((o.value.num = 1) <=> Defs[k[1]].equals) <=> good

\* A sweep acts on a snapshot.  Still, an alert raised by a synthetic sample
\* is never raised over a good sample of the last sweep interval, or one as new
\* as the synthetic sample itself, unless the device has reported a failure
\* since: for definitions that need two or more failures, a late or racing
\* sweep cannot report an entity that was last heard to be good.
SilenceAlertNeedsSilence ==
    [][ \A e \in events' \ events :
          e.kind = "alert" /\ e.obs.source = "sweeper" /\ e.key[1] \in DefIds =>
            \A o \in stored :
              Heard(e.key, o, TRUE) /\ o.at > e.obs.at - SweepInterval =>
                \E b \in stored : Heard(e.key, b, FALSE) /\ b.at >= o.at ]_vars
=============================================================================

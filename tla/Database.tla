------------------------------ MODULE Database ------------------------------
(***************************************************************************)
(* What the statements of the PostgreSQL store (internal/persistence/      *)
(* postgres.go, postgres_automation.go, postgres_reader.go) do to the      *)
(* tables of the schema, for one client at a time.  A table is a set of    *)
(* rows; outbox is ordered by its serial number.  OutboxRelay and          *)
(* Automation model the same statements under concurrency; here they are   *)
(* the reference for the in-memory store of MemStore, which has to behave  *)
(* like them.                                                              *)
(*                                                                         *)
(* An operation is a record whose field op is the method's name.  An       *)
(* observation's value is a number, or Text, which is no sample.           *)
(***************************************************************************)
EXTENDS Integers, Sequences, SequencesExt, FiniteSets, Ordering

CONSTANT Lease   \* the automation lease

ASSUME DatabaseAssumption == Lease \in Nat

Text  == -1
Never == 0        \* a last_seen, approval or claim that is NULL

Empty ==
    [ observations |-> {}, transitions |-> {}, events |-> {}, states |-> <<>>, alerts |-> {},
      devices |-> <<>>, outbox |-> <<>>, requests |-> <<>>, results |-> <<>> ]

\* The function f with k mapped to v, also when it was not mapped before.
With(f, k, v) == [x \in DOMAIN f \cup {k} |-> IF x = k THEN v ELSE f[x]]

\* ON CONFLICT (id) DO NOTHING.
Inserted(db, table, row) ==
    IF \E r \in db[table] : r.id = row.id THEN db ELSE [db EXCEPT ![table] = @ \cup {row}]

\* The row of the outbox table for a message.
Queued(msg) == [msg |-> msg, published |-> FALSE]
Enqueue(db, msg) == [db EXCEPT !.outbox = Append(@, Queued(msg))]

Firing(db, key) == { a \in db.alerts : a.key = key /\ a.status = "firing" }

\* ON CONFLICT DO NOTHING: the primary key and the index of firing alerts.
OpenAlert(db, o) ==
    IF Firing(db, o.key) # {} \/ \E a \in db.alerts : a.event = o.event THEN db
    ELSE [db EXCEPT !.alerts = @ \cup {[event |-> o.event, key |-> o.key, status |-> "firing", at |-> Never]}]

ResolveAlert(db, o) ==
    LET f == Firing(db, o.key)
    IN  [db EXCEPT !.alerts = (@ \ f) \cup { [a EXCEPT !.status = "resolved", !.at = o.at] : a \in f }]

PutState(db, o) == [db EXCEPT !.states = With(@, o.key, o.value)]

TouchDevice(db, o) ==
    IF o.dev \notin DOMAIN db.devices THEN db
    ELSE [db EXCEPT !.devices[o.dev].seen = IF o.at > @ THEN o.at ELSE @]

\* One statement of a transaction of the pipeline.
Apply(db, o) ==
    CASE o.op = "InsertObservation" -> Inserted(db, "observations", o.row)
      [] o.op = "InsertTransition"  -> Inserted(db, "transitions", o.row)
      [] o.op = "InsertEvent"       -> Inserted(db, "events", o.row)
      [] o.op = "PutState"          -> PutState(db, o)
      [] o.op = "TouchDevice"       -> TouchDevice(db, o)
      [] o.op = "OpenAlert"         -> OpenAlert(db, o)
      [] o.op = "ResolveAlert"      -> ResolveAlert(db, o)
      [] o.op = "Enqueue"           -> Enqueue(db, o.msg)

-----------------------------------------------------------------------------
(* The operations that are a statement or transaction of their own.        *)

Executed == {"succeeded", "failed", "dry_run"}

Claimable(r, now) == r.status \in {"pending", "approved"} \/ (r.status = "executing" /\ r.claimed < now - Lease)

\* The conditional UPDATEs of a request.
ClaimAutomation(db, o) ==
    IF o.id \notin DOMAIN db.requests \/ ~Claimable(db.requests[o.id], o.now) THEN db
    ELSE [db EXCEPT !.requests[o.id].status = "executing", !.requests[o.id].claimed = o.now]

SetAutomationStatus(db, o) ==
    IF o.id \notin DOMAIN db.requests \/ db.requests[o.id].status \notin o.from THEN db
    ELSE [db EXCEPT !.requests[o.id].status = o.to]

ApproveAutomation(db, o) ==
    IF o.id \notin DOMAIN db.requests \/ db.requests[o.id].status # "awaiting_approval" THEN db
    ELSE [db EXCEPT !.requests[o.id].status = "approved", !.requests[o.id].by = o.by]

Complete(db, o) ==
    IF o.id \in DOMAIN db.results \/ o.id \notin DOMAIN db.requests THEN db
    ELSE Enqueue([db EXCEPT !.results = With(@, o.id, [status |-> o.status, finished |-> o.now]),
                            !.requests[o.id].status = o.status], o.id)

\* UpsertDevices keeps what was seen of a device, and replaces its attributes.
Upsert(db, o) ==
    [db EXCEPT !.devices = With(@, o.dev, [ seen |-> IF o.dev \in DOMAIN @ THEN @[o.dev].seen ELSE Never,
                                            attrs |-> o.attrs ])]

\* DrainOutbox, alone: the oldest rows up to the limit, if they are published.
Drain(db, o) ==
    LET pending == { i \in DOMAIN db.outbox : ~db.outbox[i].published }
        batch   == { i \in pending : Cardinality({ j \in pending : j <= i }) <= o.limit }
    IN  IF o.fails THEN db
        ELSE [db EXCEPT !.outbox = [i \in DOMAIN @ |-> IF i \in batch THEN [@[i] EXCEPT !.published = TRUE] ELSE @[i]]]

Call(db, o) ==
    CASE o.op = "InsertAutomationRequest" -> IF o.id \in DOMAIN db.requests THEN db
                                             ELSE Enqueue([db EXCEPT !.requests = With(@, o.id, o.request)], o.id)
      [] o.op = "ClaimAutomation"         -> ClaimAutomation(db, o)
      [] o.op = "SetAutomationStatus"     -> SetAutomationStatus(db, o)
      [] o.op = "ApproveAutomation"       -> ApproveAutomation(db, o)
      [] o.op = "CompleteAutomation"      -> Complete(db, o)
      [] o.op = "UpsertDevices"           -> Upsert(db, o)
      [] o.op = "UpdateDeviceAttributes"  -> IF o.dev \notin DOMAIN db.devices THEN db
                                             ELSE [db EXCEPT !.devices[o.dev].attrs = With(@, "attribute", o.value)]
      [] o.op = "DrainOutbox"             -> Drain(db, o)

-----------------------------------------------------------------------------
(* Queries.                                                                *)

DueRequests(db, now) ==
    { id \in DOMAIN db.requests : LET r == db.requests[id]
                                  IN  \/ r.status = "pending" /\ r.notBefore <= now
                                      \/ r.status = "approved"
                                      \/ r.status = "executing" /\ r.claimed < now - Lease }

\* ORDER BY created_at, request_id LIMIT: identifiers are numbers here, in the
\* order the strings have.
CreatedBefore(db, a, b) ==
    \/ db.requests[a].created < db.requests[b].created
    \/ db.requests[a].created = db.requests[b].created /\ a < b
DueAutomation(db, now, limit) ==
    Limited(Ordered(DueRequests(db, now), LAMBDA a, b : CreatedBefore(db, a, b)), limit)

AwaitingApprovalBefore(db, cutoff) ==
    { id \in DOMAIN db.requests : db.requests[id].status = "awaiting_approval" /\ db.requests[id].created < cutoff }

AutomationHistory(db, since) ==
    { id \in DOMAIN db.requests \cap DOMAIN db.results :
        db.results[id].finished >= since /\ db.requests[id].status \in Executed }

AttemptsForAlert(db) == Cardinality({ id \in DOMAIN db.requests : db.requests[id].status \in Executed })

Series(db, dev) == { r \in db.observations : r.dev = dev }

\* Samples: numbers of (from, to], by time.
Samples(db, dev, from, to) == { r \in Series(db, dev) : r.value # Text /\ from < r.at /\ r.at <= to }

\* Rows that ORDER BY observed_at DESC LIMIT 1 may return.
Latest(db, dev) == { r \in Series(db, dev) : \A x \in Series(db, dev) : x.at <= r.at }
=============================================================================

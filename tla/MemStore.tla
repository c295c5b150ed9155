------------------------------ MODULE MemStore ------------------------------
(***************************************************************************)
(* The in-memory store (internal/persistence/memory.go).  It has the       *)
(* methods of the PostgreSQL store behind one mutex, and no transactions:  *)
(* an operation changes the maps at once and leaves an undo function, and  *)
(* Do runs the undo functions when its function fails.                     *)
(*                                                                         *)
(* A table is a set of rows and the order they were inserted in.  An undo  *)
(* function is a record: what it does, and what it remembers.  A           *)
(* transaction is the store and the undo functions so far.                 *)
(***************************************************************************)
EXTENDS Database

NewMemStore ==
    [ observations |-> {}, transitions |-> {}, events |-> {},
      order |-> [observations |-> <<>>, transitions |-> <<>>, events |-> <<>>],
      states |-> <<>>, alerts |-> <<>>, devices |-> <<>>, outbox |-> <<>>, next |-> 0,
      autoReq |-> <<>>, autoOrder |-> <<>>, autoRes |-> <<>>, autoClaim |-> <<>> ]

-----------------------------------------------------------------------------
(* memTx.                                                                  *)

Undoable(s, entry) == [s |-> s, undo |-> <<entry>>]
NoChange(s)        == [s |-> s, undo |-> <<>>]

\* InsertObservation, InsertTransition and InsertEvent.
MemInsert(s, table, row) ==
    IF \E r \in s[table] : r.id = row.id THEN NoChange(s)
    ELSE Undoable([s EXCEPT ![table] = @ \cup {row}, !.order[table] = Append(@, row.id)],
                  [what |-> "insert", table |-> table, id |-> row.id])

MemTouchDevice(s, o) ==
    IF o.dev \notin DOMAIN s.devices \/ o.at <= s.devices[o.dev].seen THEN NoChange(s)
    ELSE Undoable([s EXCEPT !.devices[o.dev].seen = o.at],
                  [what |-> "touch", dev |-> o.dev, old |-> s.devices[o.dev]])

MemPutState(s, o) ==
    Undoable([s EXCEPT !.states = With(@, o.key, o.value)], [what |-> "state", key |-> o.key, old |-> s.states])

MemOpenAlert(s, o) ==
    IF \E i \in DOMAIN s.alerts : s.alerts[i].key = o.key /\ s.alerts[i].status = "firing" THEN NoChange(s)
    ELSE Undoable([s EXCEPT !.alerts = Append(@, [event |-> o.event, key |-> o.key, status |-> "firing", at |-> Never])],
                  [what |-> "open"])

\* ResolveAlert: the first firing alert of the key.
MemResolveAlert(s, o) ==
    LET i == SelectInSeq(s.alerts, LAMBDA a : a.key = o.key /\ a.status = "firing")
    IN  IF i = 0 THEN NoChange(s)
        ELSE Undoable([s EXCEPT !.alerts[i].status = "resolved", !.alerts[i].at = o.at],
                      [what |-> "resolve", index |-> i, old |-> s.alerts[i]])

\* Enqueue and enqueueLocked.
Numbered(s, msg) ==
    [s EXCEPT !.next = @ + 1, !.outbox = Append(@, [id |-> s.next + 1, msg |-> msg, published |-> FALSE])]

MemEnqueue(s, msg) == Undoable(Numbered(s, msg), [what |-> "enqueue"])

MemApply(s, o) ==
    CASE o.op = "InsertObservation" -> MemInsert(s, "observations", o.row)
      [] o.op = "InsertTransition"  -> MemInsert(s, "transitions", o.row)
      [] o.op = "InsertEvent"       -> MemInsert(s, "events", o.row)
      [] o.op = "PutState"          -> MemPutState(s, o)
      [] o.op = "TouchDevice"       -> MemTouchDevice(s, o)
      [] o.op = "OpenAlert"         -> MemOpenAlert(s, o)
      [] o.op = "ResolveAlert"      -> MemResolveAlert(s, o)
      [] o.op = "Enqueue"           -> MemEnqueue(s, o.msg)

\* What the undo functions do.  That of PutState restores one key: the old
\* record, or no record.
Undo(s, u) ==
    CASE u.what = "insert"  -> [s EXCEPT ![u.table] = { r \in @ : r.id # u.id }, !.order[u.table] = Front(@)]
      [] u.what = "touch"   -> [s EXCEPT !.devices[u.dev] = u.old]
      [] u.what = "state"   -> [s EXCEPT !.states = IF u.key \in DOMAIN u.old THEN With(@, u.key, u.old[u.key])
                                                    ELSE [k \in DOMAIN @ \ {u.key} |-> @[k]]]
      [] u.what = "open"    -> [s EXCEPT !.alerts = Front(@)]
      [] u.what = "resolve" -> [s EXCEPT !.alerts[u.index] = u.old]
      [] u.what = "enqueue" -> [s EXCEPT !.outbox = Front(@), !.next = @ - 1]

\* Do: an operation of its function adds to the undo functions, and when the
\* function fails they are called from the last to the first.
MemDo(tx, o) == LET r == MemApply(tx.s, o) IN [s |-> r.s, undo |-> tx.undo \o r.undo]

\* Mutated: the oldest change is undone first.
UndoFirst(tx) == [s |-> Undo(tx.s, Head(tx.undo)), undo |-> Tail(tx.undo)]
UndoLast(tx)  == [s |-> Undo(tx.s, Last(tx.undo)), undo |-> Front(tx.undo)]

-----------------------------------------------------------------------------
(* The automation tables, the device mirror and the outbox.                *)

MemClaimable(s, id, now) ==
    \/ s.autoReq[id].status \in {"pending", "approved"}
    \/ s.autoReq[id].status = "executing" /\ s.autoClaim[id] + Lease < now

MemClaim(s, o) ==
    IF ~(o.id \in DOMAIN s.autoReq /\ MemClaimable(s, o.id, o.now)) THEN s
    ELSE [s EXCEPT !.autoReq[o.id].status = "executing", !.autoClaim = With(@, o.id, o.now)]

MemSetStatus(s, o) ==
    IF o.id \in DOMAIN s.autoReq /\ s.autoReq[o.id].status \in o.from
    THEN [s EXCEPT !.autoReq[o.id].status = o.to] ELSE s

MemApprove(s, o) ==
    IF o.id \notin DOMAIN s.autoReq \/ s.autoReq[o.id].status # "awaiting_approval" THEN s
    ELSE [s EXCEPT !.autoReq[o.id].status = "approved", !.autoReq[o.id].by = o.by]

\* CompleteAutomation: only the first result counts.
MemComplete(s, o) ==
    IF o.id \notin DOMAIN s.autoReq \/ o.id \in DOMAIN s.autoRes THEN s
    ELSE Numbered([s EXCEPT !.autoRes = With(@, o.id, [status |-> o.status, finished |-> o.now]),
                            !.autoReq[o.id].status = o.status], o.id)

MemInsertRequest(s, o) ==
    IF o.id \in DOMAIN s.autoReq THEN s
    ELSE Numbered([s EXCEPT !.autoReq = With(@, o.id, o.request), !.autoOrder = Append(@, o.id)], o.id)

MemUpsertDevices(s, o) ==
    LET had == o.dev \in DOMAIN s.devices
    IN  [s EXCEPT !.devices = With(@, o.dev, [seen |-> IF had THEN @[o.dev].seen ELSE Never, attrs |-> o.attrs])]

MemUpdateAttributes(s, o) ==
    IF o.dev \notin DOMAIN s.devices THEN s ELSE [s EXCEPT !.devices[o.dev].attrs = With(@, "attribute", o.value)]

\* DrainOutbox: the first unpublished rows up to the limit.
MemDrain(s, o) ==
    LET unpublished == Ordered({ i \in DOMAIN s.outbox : ~s.outbox[i].published }, <)
        idx == { unpublished[n] : n \in { m \in DOMAIN unpublished : m <= o.limit } }
    IN  IF o.fails THEN s
        ELSE [s EXCEPT !.outbox = [i \in DOMAIN @ |-> IF i \in idx THEN [@[i] EXCEPT !.published = TRUE] ELSE @[i]]]

MemCall(s, o) ==
    CASE o.op = "InsertAutomationRequest" -> MemInsertRequest(s, o)
      [] o.op = "ClaimAutomation"         -> MemClaim(s, o)
      [] o.op = "SetAutomationStatus"     -> MemSetStatus(s, o)
      [] o.op = "ApproveAutomation"       -> MemApprove(s, o)
      [] o.op = "CompleteAutomation"      -> MemComplete(s, o)
      [] o.op = "UpsertDevices"           -> MemUpsertDevices(s, o)
      [] o.op = "UpdateDeviceAttributes"  -> MemUpdateAttributes(s, o)
      [] o.op = "DrainOutbox"             -> MemDrain(s, o)

-----------------------------------------------------------------------------
(* Queries: in the order of insertion.                                     *)

MemDue(s, id, now) ==
    LET r == s.autoReq[id]
    IN  \/ r.status = "pending" /\ r.notBefore <= now
        \/ r.status = "approved"
        \/ r.status = "executing" /\ s.autoClaim[id] + Lease < now
\* The loop ends when it has as many as it was asked for.
MemDueAutomation(s, now, limit) ==
    Limited(Picked(s.autoOrder, { i \in DOMAIN s.autoOrder : MemDue(s, s.autoOrder[i], now) }), limit)

MemAwaiting(s, id, cutoff) == s.autoReq[id].status = "awaiting_approval" /\ s.autoReq[id].created < cutoff
MemAwaitingApprovalBefore(s, cutoff) ==
    Picked(s.autoOrder, { i \in DOMAIN s.autoOrder : MemAwaiting(s, s.autoOrder[i], cutoff) })

MemActed(s, id, since) ==
    s.autoReq[id].status \in Executed /\ id \in DOMAIN s.autoRes /\ s.autoRes[id].finished >= since
MemAutomationHistory(s, since) ==
    Picked(s.autoOrder, { i \in DOMAIN s.autoOrder : MemActed(s, s.autoOrder[i], since) })

MemAttemptsForAlert(s) == Cardinality({ id \in DOMAIN s.autoReq : s.autoReq[id].status \in Executed })

InOrder(s) ==
    [i \in DOMAIN s.order.observations |-> CHOOSE r \in s.observations : r.id = s.order.observations[i]]

\* Samples: a stable sort by time of what passes the filters.
Sooner(rows, i, j) == rows[i].at < rows[j].at \/ (rows[i].at = rows[j].at /\ i < j)
MemSamples(s, dev, from, to) ==
    LET rows == InOrder(s)
        hits == { i \in DOMAIN rows : /\ rows[i].dev = dev /\ rows[i].value # Text
                                      /\ rows[i].at > from /\ rows[i].at <= to }
        at   == Ordered(hits, LAMBDA i, j : Sooner(rows, i, j))
    IN  [n \in DOMAIN at |-> rows[at[n]]]

\* Latest: a later row replaces the best only if it is newer.
Better(best, r, dev) == IF r.dev = dev /\ \A b \in best : r.at > b.at THEN {r} ELSE best
MemLatest(s, dev) == FoldLeft(LAMBDA best, r : Better(best, r, dev), {}, InOrder(s))

-----------------------------------------------------------------------------
(* The tables a store stands for.                                          *)

OutboxRows(s) == [i \in DOMAIN s.outbox |-> [msg |-> s.outbox[i].msg, published |-> s.outbox[i].published]]

RequestRow(s, id) ==
    [s.autoReq[id] EXCEPT !.claimed = IF id \in DOMAIN s.autoClaim THEN s.autoClaim[id] ELSE @]
RequestRows(s) == [id \in DOMAIN s.autoReq |-> RequestRow(s, id)]

Contents(s) ==
    [ observations |-> s.observations, transitions |-> s.transitions, events |-> s.events, states |-> s.states,
      alerts |-> ToSet(s.alerts), devices |-> s.devices, outbox |-> OutboxRows(s),
      requests |-> RequestRows(s), results |-> s.autoRes ]
=============================================================================

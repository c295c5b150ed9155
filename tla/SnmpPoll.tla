------------------------------ MODULE SnmpPoll ------------------------------
(***************************************************************************)
(* One collection cycle (internal/collector): the profile a device is      *)
(* polled with (snmp/profile.go), the poll itself (snmp/poller.go) and     *)
(* what PollOnce makes of it (scheduler.go).                               *)
(*                                                                         *)
(* The agent is a function from OIDs to PDUs.  A table column is an OID    *)
(* whose value maps row indices to PDUs.                                   *)
(***************************************************************************)
EXTENDS Integers, Sequences, SequencesExt, FiniteSets

Pdu(kind, v) == [kind |-> kind, v |-> v]     \* kind: "missing", "number" or "string"

NoTable == [oid |-> "", index |-> "", labels |-> <<>>]
NumericTypes == {"integer", "gauge", "counter", "duration"}

-----------------------------------------------------------------------------
(* Profiles.                                                               *)

IsScalar(m) == m.oid # ""

\* validate: unique names, known types, exactly one of oid and table.
ValidProfile(p) ==
    /\ \A i, j \in DOMAIN p.metrics : p.metrics[i].name = p.metrics[j].name => i = j
    /\ \A i \in DOMAIN p.metrics : LET m == p.metrics[i]
                                   IN  /\ m.type \in NumericTypes \cup {"string"}
                                       /\ IsScalar(m) # (m.table # NoTable)

Unusable == [error |-> TRUE, metrics |-> <<>>]

\* The merge of flatten: a later metric of the same name takes the place of
\* the earlier one, in the earlier one's position.
Merge(acc, m) ==
    LET same == { i \in DOMAIN acc : acc[i].name = m.name }
    IN  IF same = {} THEN Append(acc, m) ELSE [i \in DOMAIN acc |-> IF i \in same THEN m ELSE acc[i]]

\* flatten, for every profile at once: includes depth-first, then the own
\* metrics.  No chain of includes without a cycle is longer than the number of
\* profiles, so a chain of that depth is one.
Flatten(raw) ==
    LET ids == DOMAIN raw
        flat[n \in 0..Cardinality(ids)] ==
            [id \in ids |->
                LET inc   == raw[id].include
                    parts == [i \in DOMAIN inc |-> flat[n - 1][inc[i]]]
                    all   == FoldLeft(LAMBDA acc, part : acc \o part.metrics, <<>>, parts) \o raw[id].metrics
                IN  IF n = 0 \/ \E i \in DOMAIN inc : inc[i] \notin ids \/ parts[i].error THEN Unusable
                    ELSE [error |-> FALSE, metrics |-> FoldLeft(Merge, <<>>, all)]]
    IN  flat[Cardinality(ids)]

\* Match: the longest prefix; between equally long ones the map decides.
BestMatches(raw, sysObjectID) ==
    LET fits == { id \in DOMAIN raw : raw[id].prefix # <<>> /\ IsPrefix(raw[id].prefix, sysObjectID) }
    IN  { id \in fits : \A other \in fits : Len(raw[other].prefix) <= Len(raw[id].prefix) }

SysObjectID == "sysObjectID"   \* the OID that is read to choose a profile
NoProfile   == "no profile"    \* selectProfile's error
Blank       == "blank"         \* a profile without metrics

\* selectProfile: the configured profile; without one "system", or a blank one
\* if there is none; for "auto" the best match or "system".
SelectProfile(raw, configured, sysObjectID, agent) ==
    LET SystemOr(other) == IF "system" \in DOMAIN raw THEN "system" ELSE other
        best            == BestMatches(raw, sysObjectID)
    IN  CASE configured = ""                                       -> {SystemOr(Blank)}
          [] configured = "auto" /\ SysObjectID \in agent.unreadable -> {NoProfile}
          [] configured = "auto" /\ SysObjectID \notin agent.unreadable -> IF best # {} THEN best ELSE {SystemOr(NoProfile)}
          [] OTHER                         -> {IF configured \in DOMAIN raw THEN configured ELSE NoProfile}

-----------------------------------------------------------------------------
(* The poll.                                                               *)

\* decode: a string type takes anything, the others a number.
Decodes(type, pdu) == type = "string" \/ pdu.kind = "number"

Observation(m, labels) == [metric |-> m.name, labels |-> labels]

\* Mutated: the last metric of every batch is left for the next one.
ShortBatches(s, batch) ==
    LET n == (Len(s) + batch - 1) \div batch
    IN  [k \in 1..n |-> SubSeq(s, (k - 1) * batch + 1, IF k * batch < Len(s) THEN k * batch - 1 ELSE Len(s))]
\* The loop over the scalars: start, start + batch, ... and at most the length.
Batches(s, batch) ==
    LET n == (Len(s) + batch - 1) \div batch
    IN  [k \in 1..n |-> SubSeq(s, (k - 1) * batch + 1, IF k * batch < Len(s) THEN k * batch ELSE Len(s))]

Nothing == [obs |-> <<>>, skipped |-> 0, error |-> FALSE]

Emit(acc, m, labels) == [acc EXCEPT !.obs = Append(@, Observation(m, labels))]
Skip(acc)            == [acc EXCEPT !.skipped = @ + 1]

\* One GET: an error ends the poll; otherwise every metric of the batch is
\* emitted, or skipped because the agent has no such value or not of its type.
GetBatch(agent, acc, ms) ==
    LET One(a, m) == IF agent.value[m.oid].kind = "missing" \/ ~Decodes(m.type, agent.value[m.oid])
                     THEN Skip(a) ELSE Emit(a, m, {})
    IN  IF acc.error \/ \E i \in DOMAIN ms : ms[i].oid \in agent.unreadable THEN [acc EXCEPT !.error = TRUE]
        ELSE FoldLeft(One, acc, ms)

\* rowStrings: the rows of a label column, without the missing ones.
RowStrings(col) == { r \in DOMAIN col : col[r].kind # "missing" }

\* The labels of a row: a label column without that row adds none, and one that
\* is named like the index label takes its place.
RowLabels(agent, t, row) ==
    LET named == { l \in DOMAIN t.labels : row \in RowStrings(agent.column[t.labels[l]]) }
    IN  (IF t.index \in named THEN {} ELSE { <<t.index, row>> })
            \cup { <<l, agent.column[t.labels[l]][row].v>> : l \in named }

\* One table metric; a column is walked once per poll, also when it is shared.
WalkTable(agent, acc, m) ==
    LET t     == m.table
        col   == agent.column[t.oid]
        rows  == SetToSeq({ r \in DOMAIN col : col[r].kind # "missing" })
        One(a, r) == IF Decodes(m.type, col[r]) THEN Emit(a, m, RowLabels(agent, t, r)) ELSE Skip(a)
    IN  IF acc.error \/ ({t.oid} \cup { t.labels[l] : l \in DOMAIN t.labels }) \cap agent.unreadable # {}
        THEN [acc EXCEPT !.error = TRUE]
        ELSE FoldLeft(One, acc, rows)

\* Poll, without the order of the result: it is sorted by observation id, a hash.
Poll(agent, metrics, batch) ==
    LET scalars == SelectSeq(metrics, IsScalar)
        tables  == SelectSeq(metrics, LAMBDA m : ~IsScalar(m))
        got     == FoldLeft(LAMBDA acc, ms : GetBatch(agent, acc, ms), Nothing, Batches(scalars, batch))
    IN  FoldLeft(LAMBDA acc, m : WalkTable(agent, acc, m), got, tables)

\* PollOnce: of a failed poll nothing is published but the failure.  A poll
\* fails before it reads anything when there are no credentials, no session or
\* no profile.
Cycle(agent, flat, id, batch) ==
    LET metrics == IF id = Blank THEN <<>> ELSE flat[id].metrics
        res     == IF agent.down \/ id = NoProfile THEN [Nothing EXCEPT !.error = TRUE]
                   ELSE Poll(agent, metrics, batch)
    IN  [ success |-> ~res.error, skipped |-> res.skipped, obs |-> IF res.error THEN <<>> ELSE res.obs ]
=============================================================================

---------------------------- MODULE OutboxRelay ----------------------------
(***************************************************************************)
(* The transactional outbox: recordEvent enqueues notifications in the     *)
(* transaction that records the event, and relays (pipeline/relay.go, one  *)
(* in every processor and automation process) move the rows to the EVENTS  *)
(* stream through DrainOutbox and PublishBatch.                            *)
(*                                                                         *)
(* The stream drops a message whose id it still remembers; the duplicate   *)
(* window is a set of ids from which time removes any id at any moment.    *)
(***************************************************************************)
EXTENDS Integers, Sequences, FiniteSets

CONSTANTS
    Events,      \* events to record
    Alerting,    \* those that open or resolve an alert
    Relays,      \* relay goroutines
    BatchSize,
    MaxRows,     \* bound: outbox ids handed out
    MaxFaults,   \* bound: crashes, failing publishes and failing commits
    LosePublish  \* whether a publish may fail

Ids == 1..MaxRows

ASSUME OutboxAssumption ==
    /\ Alerting \subseteq Events
    /\ BatchSize \in Nat \ {0} /\ MaxRows \in Nat /\ MaxFaults \in Nat
    /\ LosePublish \in BOOLEAN

VARIABLES
    writing,   \* events whose transaction is open
    recorded,  \* events whose transaction committed
    outbox,    \* rows by id: a sequence of [event, subject, status]
    locked,    \* [Relays -> ids locked by its transaction]
    unsent,    \* [Relays -> ids of its batch still to publish]
    failed,    \* [Relays -> whether a publish of its batch failed]
    stream,    \* the EVENTS stream: a sequence of [event, subject]
    window,    \* message ids the stream remembers
    sends,     \* history: [Ids -> publishes of the row]
    faults

vars == <<writing, recorded, outbox, locked, unsent, failed, stream, window, sends, faults>>
relays == <<locked, unsent, failed>>

Subjects == {"events.device", "events.alert"}
\* Event id, with a suffix on the alert subject.
MsgIdPlain(row) ==  \* mutant: the event id alone
    <<row.event, "">>
MsgId(row) == <<row.event, IF row.subject = "events.alert" THEN ".alert" ELSE "">>

Fault == faults < MaxFaults /\ faults' = faults + 1

-----------------------------------------------------------------------------
(* recordEvent.                                                            *)

NewRow(e, subject) == [event |-> e, subject |-> subject, status |-> "uncommitted"]
RowsOf(e) == <<NewRow(e, "events.device")>>
             \o (IF e \in Alerting THEN <<NewRow(e, "events.alert")>> ELSE <<>>)

\* The inserts: ids are handed out here, rows become visible at commit.
Record(e) ==
    /\ e \notin writing \cup recorded
    /\ Len(outbox) + Len(RowsOf(e)) <= MaxRows
    /\ writing' = writing \cup {e}
    /\ outbox' = outbox \o RowsOf(e)
    /\ UNCHANGED <<recorded, relays, stream, window, sends, faults>>

\* The rows of e's open transaction take a new status when it ends.
Ends(e, status) ==
    /\ e \in writing
    /\ writing' = writing \ {e}
    /\ outbox' = [i \in DOMAIN outbox |->
                    IF outbox[i].event = e /\ outbox[i].status = "uncommitted"
                    THEN [outbox[i] EXCEPT !.status = status] ELSE outbox[i]]
    /\ UNCHANGED <<relays, stream, window, sends>>

Committed(e) == Ends(e, "pending") /\ recorded' = recorded \cup {e} /\ UNCHANGED faults
Aborted(e)   == Ends(e, "aborted") /\ Fault /\ UNCHANGED recorded

-----------------------------------------------------------------------------
(* A relay.                                                                *)

PendingUncommitted ==  \* mutant: rows are picked up before their transaction ends
    { i \in DOMAIN outbox : outbox[i].status # "published" }
Pending == { i \in DOMAIN outbox : outbox[i].status = "pending" }
\* FOR UPDATE SKIP LOCKED.
Free(ids) == ids \ UNION { locked[r] : r \in Relays }
Oldest(ids) == { i \in ids : Cardinality({ j \in ids : j < i }) < BatchSize }
ClaimableUnlocked ==  \* mutant: plain SELECT
    Oldest(Pending)
Claimable == Oldest(Free(Pending))

Claim(r) ==
    /\ locked[r] = {} /\ Claimable # {}
    /\ locked' = [locked EXCEPT ![r] = Claimable]
    /\ unsent' = [unsent EXCEPT ![r] = Claimable]
    /\ failed' = [failed EXCEPT ![r] = FALSE]
    /\ UNCHANGED <<writing, recorded, outbox, stream, window, sends, faults>>

\* The stream stores a message unless it remembers the id.
Store(row) ==
    IF MsgId(row) \in window
    THEN UNCHANGED <<stream, window>>
    ELSE /\ stream' = Append(stream, [event |-> row.event, subject |-> row.subject])
         /\ window' = window \cup {MsgId(row)}

\* PublishBatch sends in id order without waiting; a message may get lost, or
\* be stored while its acknowledgement gets lost, and the rest still go out.
Publish(r) ==
    LET i == CHOOSE j \in unsent[r] : \A k \in unsent[r] : j <= k IN
    /\ unsent[r] # {}
    /\ unsent' = [unsent EXCEPT ![r] = @ \ {i}]
    /\ sends' = [sends EXCEPT ![i] = @ + 1]
    /\ \/ Store(outbox[i]) /\ UNCHANGED <<failed, faults>>
       \/ /\ LosePublish /\ Fault
          /\ failed' = [failed EXCEPT ![r] = TRUE]
          /\ Store(outbox[i]) \/ UNCHANGED <<stream, window>>
    /\ UNCHANGED <<writing, recorded, outbox, locked>>

Release(r) ==
    /\ locked' = [locked EXCEPT ![r] = {}]
    /\ unsent' = [unsent EXCEPT ![r] = {}]
    /\ failed' = [failed EXCEPT ![r] = FALSE]
    /\ UNCHANGED <<writing, recorded, stream, window, sends>>

MarkPublished(r) ==
    /\ locked[r] # {} /\ unsent[r] = {} /\ ~failed[r]
    /\ outbox' = [i \in DOMAIN outbox |->
                    IF i \in locked[r] THEN [outbox[i] EXCEPT !.status = "published"] ELSE outbox[i]]
    /\ Release(r) /\ UNCHANGED faults

\* A publish failed: the transaction rolls back, with the rest of the batch
\* sent already or never sent.
GiveBack(r) ==
    /\ locked[r] # {} /\ failed[r]
    /\ Release(r) /\ UNCHANGED <<outbox, faults>>

\* The process stops or the database fails, before or after publishing.
Crash(r) ==
    /\ locked[r] # {} /\ Fault
    /\ Release(r) /\ UNCHANGED outbox

\* The duplicate window of a message ends.
Forget(id) ==
    /\ id \in window
    /\ window' = window \ {id}
    /\ UNCHANGED <<writing, recorded, outbox, relays, stream, sends, faults>>

-----------------------------------------------------------------------------
Init ==
    /\ writing = {} /\ recorded = {} /\ outbox = <<>>
    /\ locked = [r \in Relays |-> {}] /\ unsent = [r \in Relays |-> {}]
    /\ failed = [r \in Relays |-> FALSE]
    /\ stream = <<>> /\ window = {} /\ sends = [i \in Ids |-> 0] /\ faults = 0

Relay(r) == Claim(r) \/ Publish(r) \/ MarkPublished(r) \/ GiveBack(r)

Next == \/ \E e \in Events : Record(e) \/ Committed(e) \/ Aborted(e)
        \/ \E r \in Relays : Relay(r) \/ Crash(r)
        \/ \E id \in window : Forget(id)

Spec == Init /\ [][Next]_vars
\* A transaction ends, and every relay keeps working on its interval.
FairSpec == /\ Spec
            /\ \A e \in Events : WF_vars(Committed(e))
            /\ \A r \in Relays : WF_vars(Relay(r))
-----------------------------------------------------------------------------
Row == [event : Events, subject : Subjects,
        status : {"uncommitted", "pending", "aborted", "published"}]
\* The types, and the batch limit of DrainOutbox.
TypeOK ==
    /\ writing \subseteq Events /\ recorded \subseteq Events
    /\ outbox \in Seq(Row) /\ Len(outbox) <= MaxRows
    /\ locked \in [Relays -> SUBSET Ids] /\ unsent \in [Relays -> SUBSET Ids]
    /\ \A r \in Relays : unsent[r] \subseteq locked[r] /\ Cardinality(locked[r]) <= BatchSize
    /\ failed \in [Relays -> BOOLEAN]
    /\ stream \in Seq([event : Events, subject : Subjects])
    /\ sends \in [Ids -> Nat] /\ faults \in 0..MaxFaults

InStream(row) == \E i \in DOMAIN stream : stream[i].event = row.event /\ stream[i].subject = row.subject

\* A row marked published is in the stream, on its own subject: no crash, lost
\* acknowledgement or de-duplication makes the relay forget a notification.
PublishedIsStored ==
    \A i \in DOMAIN outbox : outbox[i].status = "published" => InStream(outbox[i])

\* Only committed events are announced, whatever transactions abort while the
\* relays run.
AnnouncedIsRecorded ==
    \A i \in DOMAIN stream : stream[i].event \in recorded

\* Relays running side by side do not publish a row twice: every extra
\* publish of a row is paid for by a failure (SKIP LOCKED).
ResentOnlyAfterFault == \A i \in Ids : sends[i] <= 1 + faults

=============================================================================

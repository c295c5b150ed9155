------------------------- MODULE OutboxRelayProofs -------------------------
(***************************************************************************)
(* The outbox loses nothing, announces only what was recorded and resends  *)
(* only after a fault, for every set of events and relays, every batch     *)
(* size and any number of rows and faults.                                 *)
(***************************************************************************)
EXTENDS OutboxRelay, SequenceTheorems, WellFoundedInduction, TLAPS

Shape ==
    /\ outbox \in Seq(Row) /\ Len(outbox) <= MaxRows
    /\ locked \in [Relays -> SUBSET Nat] /\ unsent \in [Relays -> SUBSET Nat]
    /\ failed \in [Relays -> BOOLEAN]
    /\ stream \in Seq([event : Events, subject : Subjects])
    /\ sends \in [Ids -> Nat] /\ faults \in Nat

\* A row is visible to the relays only once its event is recorded.
RowsFollowTransactions ==
    \A i \in DOMAIN outbox :
        /\ outbox[i].status = "uncommitted" => outbox[i].event \in writing
        /\ outbox[i].status \in {"pending", "published"} => outbox[i].event \in recorded

\* Row locks are held on pending rows, by one relay each.
LocksArePending ==
    \A r \in Relays :
        /\ unsent[r] \subseteq locked[r]
        /\ \A i \in locked[r] : i \in DOMAIN outbox /\ outbox[i].status = "pending"
OneLockPerRow == \A q, r \in Relays : q # r => locked[q] \cap locked[r] = {}

\* The stream drops only what it has.
WindowIsStored == \A id \in window : \E i \in DOMAIN stream : MsgId(stream[i]) = id

\* A batch without a failure has every row it sent in the stream.
SentIsStored ==
    \A r \in Relays : ~failed[r] =>
        \A i \in locked[r] \ unsent[r] : InStream(outbox[i])

\* Publishes are paid for: a free row has at most one per fault, a row of a
\* batch that has not failed may have one more, of a failed batch it may not.
IsPublished(i) == i \in DOMAIN outbox /\ outbox[i].status = "published"
FreeIsPaid ==
    \A i \in Ids : (\A r \in Relays : i \notin locked[r]) /\ ~IsPublished(i) => sends[i] <= faults
BatchIsPaid ==
    \A r \in Relays : \A i \in locked[r] :
        sends[i] + (IF i \in unsent[r] THEN 1 ELSE 0) <= faults + (IF failed[r] THEN 0 ELSE 1)

\* The inductive invariant, in two parts: where the rows are, and how often
\* they were sent.
Delivered == /\ Shape /\ RowsFollowTransactions /\ LocksArePending /\ OneLockPerRow
             /\ WindowIsStored /\ SentIsStored /\ PublishedIsStored /\ AnnouncedIsRecorded
Paid == FreeIsPaid /\ BatchIsPaid /\ ResentOnlyAfterFault
IInv == Delivered /\ Paid

-----------------------------------------------------------------------------
LEMMA LeastNatural ==
    ASSUME NEW T, T \subseteq Nat, T # {}
    PROVE  \E x \in T : \A y \in T : x <= y
<1> DEFINE R == OpToRel(<, Nat)
<1>1. \A a, b \in Nat : a < b => <<a, b>> \in R
  BY DEF OpToRel
<1>2. IsWellFoundedOn(R, Nat)
  BY NatLessThanWellFounded, Zenon
<1> HIDE DEF R
<1>3. PICK x \in T : \A y \in T : <<y, x>> \notin R
  BY <1>2, WFMin, Zenon
<1>4. \A y \in T : ~(y < x)
  BY <1>1, <1>3, Zenon
<1>5. \A y \in T : x <= y
  BY <1>4
<1> QED
  BY <1>5, Zenon

\* The message id tells events and subjects apart.
LEMMA MsgIdIdentifies ==
    ASSUME NEW a, NEW b, a.subject \in Subjects, b.subject \in Subjects, MsgId(a) = MsgId(b)
    PROVE  a.event = b.event /\ a.subject = b.subject
  BY DEF MsgId, Subjects

\* recordEvent queues one row, or two, all of its event and invisible.
LEMMA RowsOfShape ==
    ASSUME NEW e \in Events
    PROVE  /\ RowsOf(e) \in Seq(Row)
           /\ \A i \in 1..Len(RowsOf(e)) :
                 RowsOf(e)[i].event = e /\ RowsOf(e)[i].status = "uncommitted"
<1> DEFINE d == NewRow(e, "events.device")
           a == NewRow(e, "events.alert")
<1>1. /\ d \in Row /\ d.event = e /\ d.status = "uncommitted"
      /\ a \in Row /\ a.event = e /\ a.status = "uncommitted"
  BY DEF NewRow, Row, Subjects
<1> HIDE DEF d, a
<1>2. CASE e \in Alerting
  <2>1. RowsOf(e) = <<d>> \o <<a>>
    BY <1>2 DEF RowsOf, d, a
  <2> QED
    BY <1>1, <2>1
<1>3. CASE e \notin Alerting
  <2>1. RowsOf(e) = <<d>> \o <<>>
    BY <1>3 DEF RowsOf, d
  <2> QED
    BY <1>1, <2>1
<1> QED
  BY <1>2, <1>3

LEMMA RecordedRows ==
    ASSUME Shape, NEW e \in Events, Record(e)
    PROVE  /\ outbox' \in Seq(Row) /\ Len(outbox') <= MaxRows /\ Len(outbox) <= Len(outbox')
           /\ \A i \in 1..Len(outbox) : outbox'[i] = outbox[i]
           /\ \A i \in DOMAIN outbox' : i \notin DOMAIN outbox =>
                 outbox'[i].event = e /\ outbox'[i].status = "uncommitted"
<1> DEFINE rows == RowsOf(e)
<1>1. outbox \in Seq(Row) /\ rows \in Seq(Row) /\ outbox' = outbox \o rows
      /\ Len(outbox) + Len(rows) <= MaxRows
  BY RowsOfShape DEF Shape, Record
<1>2. \A i \in 1..Len(rows) : rows[i].event = e /\ rows[i].status = "uncommitted"
  BY RowsOfShape
<1> HIDE DEF rows
<1>3. /\ outbox' \in Seq(Row) /\ Len(outbox') = Len(outbox) + Len(rows)
      /\ \A i \in 1..Len(outbox) + Len(rows) :
            outbox'[i] = IF i <= Len(outbox) THEN outbox[i] ELSE rows[i - Len(outbox)]
  BY <1>1, ConcatProperties, Zenon
<1>4. Len(outbox) \in Nat /\ Len(rows) \in Nat
      /\ DOMAIN outbox = 1..Len(outbox) /\ DOMAIN outbox' = 1..Len(outbox')
  BY <1>1, <1>3
<1>5. \A i \in 1..Len(outbox) : outbox'[i] = outbox[i]
  BY <1>3, <1>4
<1>6. ASSUME NEW i \in DOMAIN outbox', i \notin DOMAIN outbox
      PROVE  outbox'[i].event = e /\ outbox'[i].status = "uncommitted"
  <2>1. i \in 1..Len(outbox) + Len(rows) /\ ~(i <= Len(outbox)) /\ i - Len(outbox) \in 1..Len(rows)
    BY <1>3, <1>4, <1>6
  <2>2. outbox'[i] = rows[i - Len(outbox)]
    BY <1>3, <2>1, Zenon
  <2> QED
    BY <1>2, <2>1, <2>2, Zenon
<1> QED
  BY <1>1, <1>3, <1>4, <1>5, <1>6

-----------------------------------------------------------------------------
(* Each action keeps both parts.                                           *)

LEMMA RecordPreserves == ASSUME IInv, NEW e \in Events, Record(e) PROVE IInv'
<1>a. /\ Shape /\ RowsFollowTransactions /\ LocksArePending /\ OneLockPerRow
      /\ WindowIsStored /\ SentIsStored /\ PublishedIsStored /\ AnnouncedIsRecorded
      /\ FreeIsPaid /\ BatchIsPaid /\ ResentOnlyAfterFault
  BY DEF IInv, Delivered, Paid
<1>b. /\ writing' = writing \cup {e} /\ recorded' = recorded /\ locked' = locked
      /\ unsent' = unsent /\ failed' = failed /\ stream' = stream /\ window' = window
      /\ sends' = sends /\ faults' = faults
  BY DEF Record, relays
<1>c. /\ outbox' \in Seq(Row) /\ Len(outbox') <= MaxRows
      /\ \A i \in DOMAIN outbox : i \in DOMAIN outbox' /\ outbox'[i] = outbox[i]
      /\ \A i \in DOMAIN outbox' : i \notin DOMAIN outbox =>
            outbox'[i].event = e /\ outbox'[i].status = "uncommitted"
  <2>1. outbox \in Seq(Row)
    BY <1>a DEF Shape
  <2>2. /\ outbox' \in Seq(Row) /\ Len(outbox') <= MaxRows /\ Len(outbox) <= Len(outbox')
        /\ \A i \in 1..Len(outbox) : outbox'[i] = outbox[i]
        /\ \A i \in DOMAIN outbox' : i \notin DOMAIN outbox =>
              outbox'[i].event = e /\ outbox'[i].status = "uncommitted"
    BY <1>a, RecordedRows
  <2>3. DOMAIN outbox = 1..Len(outbox) /\ DOMAIN outbox' = 1..Len(outbox')
        /\ Len(outbox) \in Nat /\ Len(outbox') \in Nat
    BY <2>1, <2>2
  <2> QED
    BY <2>2, <2>3
<1>1. Shape'
  BY <1>a, <1>b, <1>c DEF Shape
<1>2. RowsFollowTransactions'
  BY <1>a, <1>b, <1>c DEF RowsFollowTransactions
<1>3. LocksArePending' /\ OneLockPerRow' /\ WindowIsStored'
  BY <1>a, <1>b, <1>c DEF LocksArePending, OneLockPerRow, WindowIsStored
<1>4. SentIsStored'
  BY <1>a, <1>b, <1>c DEF SentIsStored, LocksArePending, InStream
<1>5. PublishedIsStored' /\ AnnouncedIsRecorded'
  BY <1>a, <1>b, <1>c DEF PublishedIsStored, AnnouncedIsRecorded, InStream
<1>6. Paid'
  <2>1. \A i : IsPublished(i)' <=> IsPublished(i)
    BY <1>c DEF IsPublished
  <2> QED
    BY <1>a, <1>b, <2>1 DEF Paid, FreeIsPaid, BatchIsPaid, ResentOnlyAfterFault
<1> QED
  BY <1>1, <1>2, <1>3, <1>4, <1>5, <1>6 DEF IInv, Delivered

\* The end of a transaction touches only its own rows, which nobody could see.
LEMMA EndsPreserves ==
    ASSUME IInv, NEW e \in Events, Committed(e) \/ Aborted(e)
    PROVE  IInv'
<1>a. /\ Shape /\ RowsFollowTransactions /\ LocksArePending /\ OneLockPerRow
      /\ WindowIsStored /\ SentIsStored /\ PublishedIsStored /\ AnnouncedIsRecorded
      /\ FreeIsPaid /\ BatchIsPaid /\ ResentOnlyAfterFault
  BY DEF IInv, Delivered, Paid
<1>b. /\ writing' = writing \ {e} /\ locked' = locked
      /\ unsent' = unsent /\ failed' = failed /\ stream' = stream /\ window' = window
      /\ sends' = sends /\ faults' \in Nat /\ faults <= faults' /\ recorded \subseteq recorded'
  BY <1>a DEF Committed, Aborted, Ends, relays, Fault, Shape
<1>c. PICK status \in {"pending", "aborted"} :
         /\ outbox' = [i \in DOMAIN outbox |->
                    IF outbox[i].event = e /\ outbox[i].status = "uncommitted"
                    THEN [outbox[i] EXCEPT !.status = status] ELSE outbox[i]]
         /\ status = "pending" => e \in recorded'
  BY DEF Committed, Aborted, Ends
<1>d. DOMAIN outbox' = DOMAIN outbox
      /\ outbox \in Seq(Row) /\ DOMAIN outbox = 1..Len(outbox) /\ Len(outbox) \in Nat
  BY <1>a, <1>c DEF Shape
<1>e. ASSUME NEW i \in DOMAIN outbox
      PROVE  /\ outbox'[i] \in Row /\ outbox'[i].event = outbox[i].event
             /\ outbox'[i].subject = outbox[i].subject
             /\ outbox[i].status # "uncommitted" => outbox'[i] = outbox[i]
             /\ outbox'[i].status = "uncommitted" => outbox[i].status = "uncommitted" /\ outbox[i].event # e
             /\ outbox'[i].status # outbox[i].status =>
                   outbox'[i].status = status /\ outbox[i].event = e
  <2>1. outbox[i] \in Row
    BY <1>d, <1>e
  <2>2. CASE outbox[i].event = e /\ outbox[i].status = "uncommitted"
    <3>1. outbox'[i] = [outbox[i] EXCEPT !.status = status]
      BY <1>c, <1>e, <2>2, Zenon
    <3> QED
      BY <2>1, <2>2, <3>1 DEF Row
  <2>3. CASE ~(outbox[i].event = e /\ outbox[i].status = "uncommitted")
    <3>1. outbox'[i] = outbox[i]
      BY <1>c, <1>e, <2>3, Zenon
    <3> QED
      BY <2>1, <2>3, <3>1
  <2> QED
    BY <2>2, <2>3
<1>1. Shape'
  <2>1. outbox' \in Seq(Row) /\ Len(outbox') = Len(outbox)
    <3>1. outbox' \in [1..Len(outbox) -> Row]
      BY <1>c, <1>d, <1>e, Zenon
    <3> QED
      BY <1>d, <3>1
  <2> QED
    BY <1>a, <1>b, <2>1 DEF Shape
<1>2. RowsFollowTransactions'
  <2> SUFFICES ASSUME NEW i \in DOMAIN outbox
               PROVE  /\ outbox'[i].status = "uncommitted" => outbox'[i].event \in writing'
                      /\ outbox'[i].status \in {"pending", "published"} => outbox'[i].event \in recorded'
    BY <1>d DEF RowsFollowTransactions
  <2> QED
    BY <1>a, <1>b, <1>c, <1>e DEF RowsFollowTransactions
<1>3. LocksArePending' /\ OneLockPerRow' /\ WindowIsStored'
  BY <1>a, <1>b, <1>d, <1>e DEF LocksArePending, OneLockPerRow, WindowIsStored
<1>4. SentIsStored'
  BY <1>a, <1>b, <1>d, <1>e DEF SentIsStored, LocksArePending, InStream
<1>5. PublishedIsStored' /\ AnnouncedIsRecorded'
  <2>1. \A i \in DOMAIN outbox : outbox'[i].status = "published" <=> outbox[i].status = "published"
    BY <1>c, <1>e
  <2>2. PublishedIsStored'
    BY <1>a, <1>b, <1>d, <1>e, <2>1 DEF PublishedIsStored, InStream
  <2> QED
    BY <1>a, <1>b, <2>2 DEF AnnouncedIsRecorded
<1>6. Paid'
  <2>1. \A i : IsPublished(i)' <=> IsPublished(i)
    BY <1>c, <1>d, <1>e DEF IsPublished
  <2>2. \A i \in Ids : sends[i] \in Nat
    BY <1>a DEF Shape
  <2>3. faults \in Nat /\ \A r \in Relays : \A i \in locked[r] : i \in Ids
    BY <1>a, <1>d, OutboxAssumption DEF Shape, LocksArePending, Ids
  <2>4. FreeIsPaid' /\ ResentOnlyAfterFault'
    BY <1>a, <1>b, <2>1, <2>2, <2>3 DEF FreeIsPaid, ResentOnlyAfterFault
  <2>5. BatchIsPaid'
    BY <1>a, <1>b, <2>2, <2>3 DEF BatchIsPaid
  <2> QED
    BY <2>4, <2>5 DEF Paid
<1> QED
  BY <1>1, <1>2, <1>3, <1>4, <1>5, <1>6 DEF IInv, Delivered

\* FOR UPDATE SKIP LOCKED: a batch is made of pending rows nobody has.
LEMMA ClaimPreserves == ASSUME IInv, NEW r \in Relays, Claim(r) PROVE IInv'
<1>a. /\ Shape /\ RowsFollowTransactions /\ LocksArePending /\ OneLockPerRow
      /\ WindowIsStored /\ SentIsStored /\ PublishedIsStored /\ AnnouncedIsRecorded
      /\ FreeIsPaid /\ BatchIsPaid /\ ResentOnlyAfterFault
  BY DEF IInv, Delivered, Paid
<1> DEFINE C == Claimable
<1>b. /\ locked' = [locked EXCEPT ![r] = C] /\ unsent' = [unsent EXCEPT ![r] = C]
      /\ failed' = [failed EXCEPT ![r] = FALSE] /\ locked[r] = {}
      /\ writing' = writing /\ recorded' = recorded /\ outbox' = outbox
      /\ stream' = stream /\ window' = window /\ sends' = sends /\ faults' = faults
  BY DEF Claim
<1>c. \A i \in C : /\ i \in DOMAIN outbox /\ outbox[i].status = "pending"
                  /\ \A q \in Relays : i \notin locked[q]
  BY DEF Claimable, Oldest, Free, Pending
<1> HIDE DEF C
<1>d. DOMAIN outbox \subseteq Nat /\ DOMAIN outbox \subseteq Ids
  BY <1>a, OutboxAssumption DEF Shape, Ids
<1>e. /\ \A q \in Relays : locked'[q] = IF q = r THEN C ELSE locked[q]
      /\ \A q \in Relays : unsent'[q] = IF q = r THEN C ELSE unsent[q]
      /\ \A q \in Relays : failed'[q] = IF q = r THEN FALSE ELSE failed[q]
  BY <1>a, <1>b DEF Shape
<1>1. Shape'
  BY <1>a, <1>b, <1>c, <1>d DEF Shape
<1>2. LocksArePending' /\ OneLockPerRow'
  BY <1>a, <1>b, <1>c, <1>e DEF LocksArePending, OneLockPerRow
<1>3. RowsFollowTransactions' /\ WindowIsStored' /\ PublishedIsStored' /\ AnnouncedIsRecorded'
  BY <1>a, <1>b DEF RowsFollowTransactions, WindowIsStored, PublishedIsStored, AnnouncedIsRecorded, InStream
<1>4. SentIsStored'
  BY <1>a, <1>b, <1>e DEF SentIsStored, InStream
<1>5. Paid'
  <2>1. FreeIsPaid' /\ ResentOnlyAfterFault'
    BY <1>a, <1>b, <1>e DEF FreeIsPaid, ResentOnlyAfterFault, IsPublished
  <2>2. \A i \in C : sends[i] <= faults /\ sends[i] \in Nat
    <3>1. \A i \in C : i \in Ids /\ ~IsPublished(i)
      BY <1>c, <1>d DEF IsPublished
    <3> QED
      BY <1>a, <1>c, <3>1 DEF FreeIsPaid, Shape
  <2>3. BatchIsPaid'
    <3> SUFFICES ASSUME NEW q \in Relays, NEW i \in locked'[q]
                 PROVE  sends'[i] + (IF i \in unsent'[q] THEN 1 ELSE 0)
                        <= faults' + (IF failed'[q] THEN 0 ELSE 1)
      BY DEF BatchIsPaid
    <3>1. CASE q = r
      <4>1. i \in C /\ i \in unsent'[q] /\ ~failed'[q]
        BY <1>e, <3>1
      <4> QED
        BY <1>a, <1>b, <2>2, <4>1 DEF Shape
    <3>2. CASE q # r
      <4>1. i \in locked[q] /\ unsent'[q] = unsent[q] /\ failed'[q] = failed[q]
        BY <1>e, <3>2
      <4> QED
        BY <1>a, <1>b, <4>1 DEF BatchIsPaid
    <3> QED
      BY <3>1, <3>2
  <2> QED
    BY <2>1, <2>3 DEF Paid
<1> QED
  BY <1>1, <1>2, <1>3, <1>4, <1>5 DEF IInv, Delivered

\* Storing a message leaves it in the stream, whether or not the duplicate
\* window knew its id.
LEMMA StoreEffect ==
    ASSUME Shape, WindowIsStored, NEW row \in Row, Store(row)
    PROVE  /\ stream' \in Seq([event : Events, subject : Subjects])
           /\ \A j \in DOMAIN stream : j \in DOMAIN stream' /\ stream'[j] = stream[j]
           /\ \A j \in DOMAIN stream' : j \in DOMAIN stream \/ stream'[j].event = row.event
           /\ \E j \in DOMAIN stream' : stream'[j].event = row.event /\ stream'[j].subject = row.subject
           /\ WindowIsStored'
<1> DEFINE Msg == [event : Events, subject : Subjects]
           m == [event |-> row.event, subject |-> row.subject]
<1>1. /\ stream \in Seq(Msg) /\ row.subject \in Subjects /\ m \in Msg
      /\ m.event = row.event /\ m.subject = row.subject
  BY DEF Shape, Row
<1>2. CASE MsgId(row) \in window
  <2>1. stream' = stream /\ window' = window
    BY <1>2 DEF Store
  <2>2. PICK j \in DOMAIN stream : MsgId(stream[j]) = MsgId(row)
    BY <1>2 DEF WindowIsStored
  <2>3. stream[j].subject \in Subjects
    <3> HIDE DEF Msg
    <3>1. stream[j] \in Msg
      BY <1>1, <2>2
    <3> QED
      BY <3>1, Zenon DEF Msg
  <2>4. stream[j].event = row.event /\ stream[j].subject = row.subject
    BY <1>1, <2>2, <2>3, MsgIdIdentifies
  <2> QED
    BY <1>1, <2>1, <2>4 DEF WindowIsStored
<1>3. CASE MsgId(row) \notin window
  <2>1. stream' = Append(stream, m) /\ window' = window \cup {MsgId(row)}
    BY <1>3 DEF Store
  <2>2. MsgId(m) = MsgId(row)
    BY <1>1 DEF MsgId
  <2> HIDE DEF m, Msg
  <2>3. /\ stream' \in Seq(Msg) /\ Len(stream') = Len(stream) + 1 /\ Len(stream) \in Nat
        /\ DOMAIN stream = 1..Len(stream) /\ DOMAIN stream' = 1..(Len(stream) + 1)
        /\ \A j \in 1..Len(stream) : stream'[j] = stream[j]
        /\ stream'[Len(stream) + 1] = m
    BY <1>1, <2>1
  <2>4. /\ \A j \in DOMAIN stream : j \in DOMAIN stream' /\ stream'[j] = stream[j]
        /\ \A j \in DOMAIN stream' : j \in DOMAIN stream \/ stream'[j] = m
        /\ Len(stream) + 1 \in DOMAIN stream'
    BY <2>3
  <2>5. WindowIsStored'
    BY <2>1, <2>2, <2>3, <2>4, Zenon DEF WindowIsStored
  <2>6. stream' \in Seq([event : Events, subject : Subjects])
    BY <2>3 DEF Msg
  <2> QED
    BY <1>1, <2>3, <2>4, <2>5, <2>6, Zenon
<1> QED
  BY <1>2, <1>3

LEMMA PublishPreserves == ASSUME IInv, NEW r \in Relays, Publish(r) PROVE IInv'
<1>a. /\ Shape /\ RowsFollowTransactions /\ LocksArePending /\ OneLockPerRow
      /\ WindowIsStored /\ SentIsStored /\ PublishedIsStored /\ AnnouncedIsRecorded
      /\ FreeIsPaid /\ BatchIsPaid /\ ResentOnlyAfterFault
  BY DEF IInv, Delivered, Paid
<1> DEFINE i == CHOOSE j \in unsent[r] : \A k \in unsent[r] : j <= k
<1>b. /\ unsent[r] # {} /\ unsent' = [unsent EXCEPT ![r] = @ \ {i}]
      /\ sends' = [sends EXCEPT ![i] = @ + 1]
      /\ writing' = writing /\ recorded' = recorded /\ outbox' = outbox /\ locked' = locked
      /\ \/ Store(outbox[i]) /\ failed' = failed /\ faults' = faults
         \/ /\ faults' = faults + 1 /\ failed' = [failed EXCEPT ![r] = TRUE]
            /\ Store(outbox[i]) \/ (stream' = stream /\ window' = window)
  BY DEF Publish, Fault
<1>c. i \in unsent[r]
  <2>1. unsent[r] \subseteq Nat
    BY <1>a DEF Shape
  <2>2. \E j \in unsent[r] : \A k \in unsent[r] : j <= k
    BY <1>b, <2>1, LeastNatural
  <2> QED
    BY <2>2
<1> HIDE DEF i
<1>d. /\ i \in locked[r] /\ i \in DOMAIN outbox /\ outbox[i].status = "pending"
      /\ outbox[i] \in Row /\ outbox[i].event \in recorded
  BY <1>a, <1>c DEF LocksArePending, Shape, RowsFollowTransactions
<1>e. /\ \A q \in Relays : unsent'[q] = IF q = r THEN unsent[r] \ {i} ELSE unsent[q]
      /\ \A q \in Relays : q # r => failed'[q] = failed[q]
      /\ failed' \in [Relays -> BOOLEAN] /\ faults' \in Nat
      /\ unsent' \in [Relays -> SUBSET Nat]
      /\ \/ faults' = faults /\ failed'[r] = failed[r] /\ Store(outbox[i])
         \/ faults' = faults + 1 /\ failed'[r]
  <2>1. unsent \in [Relays -> SUBSET Nat] /\ failed \in [Relays -> BOOLEAN] /\ faults \in Nat
    BY <1>a DEF Shape
  <2>2. /\ \A q \in Relays : unsent'[q] = IF q = r THEN unsent[r] \ {i} ELSE unsent[q]
        /\ unsent' \in [Relays -> SUBSET Nat]
    BY <1>b, <2>1
  <2>3. CASE Store(outbox[i]) /\ failed' = failed /\ faults' = faults
    BY <2>1, <2>2, <2>3
  <2>4. CASE faults' = faults + 1 /\ failed' = [failed EXCEPT ![r] = TRUE]
    <3>1. faults' \in Nat
      BY <2>1, <2>4
    <3>2. failed' \in [Relays -> BOOLEAN] /\ failed'[r]
          /\ \A q \in Relays : q # r => failed'[q] = failed[q]
      BY <2>1, <2>4, Zenon
    <3> QED
      BY <2>2, <2>4, <3>1, <3>2, Zenon
  <2> QED
    BY <1>b, <2>3, <2>4
<1>f. /\ stream' \in Seq([event : Events, subject : Subjects])
      /\ \A j \in DOMAIN stream : j \in DOMAIN stream' /\ stream'[j] = stream[j]
      /\ \A j \in DOMAIN stream' : j \in DOMAIN stream \/ stream'[j].event = outbox[i].event
      /\ WindowIsStored'
      /\ Store(outbox[i]) => \E j \in DOMAIN stream' : /\ stream'[j].event = outbox[i].event
                                                      /\ stream'[j].subject = outbox[i].subject
  <2>1. CASE Store(outbox[i])
    BY <1>a, <1>d, <2>1, StoreEffect
  <2>2. CASE ~Store(outbox[i])
    <3>1. stream' = stream /\ window' = window
      BY <1>b, <2>2
    <3> QED
      BY <1>a, <2>2, <3>1 DEF Shape, WindowIsStored
  <2> QED
    BY <2>1, <2>2
<1>g. i \in Ids /\ sends[i] \in Nat /\ sends' \in [Ids -> Nat] /\ faults \in Nat
      /\ \A k \in Ids : sends[k] \in Nat /\ sends'[k] = IF k = i THEN sends[i] + 1 ELSE sends[k]
  <2>1. i \in Ids
    BY <1>a, <1>d, OutboxAssumption DEF Shape, Ids
  <2> QED
    BY <1>a, <1>b, <2>1 DEF Shape
<1>1. Shape'
  BY <1>a, <1>b, <1>e, <1>f, <1>g DEF Shape
<1>2. LocksArePending' /\ OneLockPerRow' /\ RowsFollowTransactions'
  BY <1>a, <1>b, <1>e DEF LocksArePending, OneLockPerRow, RowsFollowTransactions
<1>3. \A k : InStream(outbox[k]) => InStream(outbox[k])'
  BY <1>b, <1>f DEF InStream
<1>4. PublishedIsStored' /\ AnnouncedIsRecorded'
  <2>1. PublishedIsStored'
    BY <1>a, <1>b, <1>3 DEF PublishedIsStored
  <2>2. AnnouncedIsRecorded'
    BY <1>a, <1>b, <1>d, <1>f DEF AnnouncedIsRecorded
  <2> QED
    BY <2>1, <2>2
<1>5. SentIsStored'
  <2> SUFFICES ASSUME NEW q \in Relays, ~failed'[q], NEW k \in locked'[q] \ unsent'[q]
               PROVE  InStream(outbox[k])'
    BY DEF SentIsStored
  <2>1. CASE q = r /\ k = i
    <3>1. Store(outbox[i])
      BY <1>e, <2>1
    <3> QED
      BY <1>b, <1>f, <2>1, <3>1 DEF InStream
  <2>2. CASE ~(q = r /\ k = i)
    <3>1. k \in locked[q] \ unsent[q] /\ ~failed[q]
      BY <1>b, <1>e, <2>2
    <3>2. InStream(outbox[k])
      BY <1>a, <3>1 DEF SentIsStored
    <3> QED
      BY <1>3, <3>2
  <2> QED
    BY <2>1, <2>2
<1>6. Paid'
  <2>1. BatchIsPaid'
    <3> SUFFICES ASSUME NEW q \in Relays, NEW k \in locked[q]
                 PROVE  sends'[k] + (IF k \in unsent'[q] THEN 1 ELSE 0)
                        <= faults' + (IF failed'[q] THEN 0 ELSE 1)
      BY <1>b DEF BatchIsPaid
    <3>1. sends[k] + (IF k \in unsent[q] THEN 1 ELSE 0) <= faults + (IF failed[q] THEN 0 ELSE 1)
      BY <1>a DEF BatchIsPaid
    <3>2. k \in Ids
      BY <1>a, OutboxAssumption DEF LocksArePending, Shape, Ids
    <3>3. CASE q = r /\ k = i
      BY <1>c, <1>e, <1>g, <3>1, <3>3
    <3>4. CASE q = r /\ k # i
      BY <1>e, <1>g, <3>1, <3>2, <3>4
    <3>5. CASE q # r
      <4>1. k # i
        BY <1>a, <1>d, <3>5 DEF OneLockPerRow
      <4> QED
        BY <1>e, <1>g, <3>1, <3>2, <3>5, <4>1
    <3> QED
      BY <3>3, <3>4, <3>5
  <2>2. FreeIsPaid'
    <3> SUFFICES ASSUME NEW k \in Ids, \A q \in Relays : k \notin locked[q], ~IsPublished(k)
                 PROVE  sends'[k] <= faults'
      BY <1>b DEF FreeIsPaid, IsPublished
    <3>1. k # i /\ sends[k] <= faults
      BY <1>a, <1>d DEF FreeIsPaid
    <3> QED
      BY <1>e, <1>g, <3>1
  <2>3. ResentOnlyAfterFault'
    <3> SUFFICES ASSUME NEW k \in Ids PROVE sends'[k] <= 1 + faults'
      BY DEF ResentOnlyAfterFault
    <3>1. CASE k = i
      <4>1. sends[i] + 1 <= faults + (IF failed[r] THEN 0 ELSE 1)
        BY <1>a, <1>c, <1>d DEF BatchIsPaid
      <4> QED
        BY <1>e, <1>g, <3>1, <4>1
    <3>2. CASE k # i
      BY <1>a, <1>e, <1>g, <3>2 DEF ResentOnlyAfterFault
    <3> QED
      BY <3>1, <3>2
  <2> QED
    BY <2>1, <2>2, <2>3 DEF Paid
<1> QED
  BY <1>1, <1>2, <1>4, <1>5, <1>6, <1>f DEF IInv, Delivered

\* A batch whose publishes were all acknowledged is marked: every row of it is
\* in the stream.
LEMMA MarkPreserves == ASSUME IInv, NEW r \in Relays, MarkPublished(r) PROVE IInv'
<1>a. /\ Shape /\ RowsFollowTransactions /\ LocksArePending /\ OneLockPerRow
      /\ WindowIsStored /\ SentIsStored /\ PublishedIsStored /\ AnnouncedIsRecorded
      /\ FreeIsPaid /\ BatchIsPaid /\ ResentOnlyAfterFault
  BY DEF IInv, Delivered, Paid
<1>b. /\ unsent[r] = {} /\ ~failed[r]
      /\ outbox' = [i \in DOMAIN outbox |->
                      IF i \in locked[r] THEN [outbox[i] EXCEPT !.status = "published"] ELSE outbox[i]]
      /\ locked' = [locked EXCEPT ![r] = {}] /\ unsent' = [unsent EXCEPT ![r] = {}]
      /\ failed' = [failed EXCEPT ![r] = FALSE]
      /\ writing' = writing /\ recorded' = recorded /\ stream' = stream /\ window' = window
      /\ sends' = sends /\ faults' = faults
  BY DEF MarkPublished, Release
<1>c. /\ outbox \in Seq(Row) /\ DOMAIN outbox = 1..Len(outbox) /\ Len(outbox) \in Nat
      /\ DOMAIN outbox' = DOMAIN outbox
      /\ locked[r] \subseteq DOMAIN outbox /\ \A i \in locked[r] : outbox[i].status = "pending"
  BY <1>a, <1>b DEF Shape, LocksArePending
<1>d. ASSUME NEW i \in DOMAIN outbox
      PROVE  /\ outbox'[i] \in Row /\ outbox'[i].event = outbox[i].event
             /\ outbox'[i].subject = outbox[i].subject
             /\ i \notin locked[r] => outbox'[i] = outbox[i]
             /\ i \in locked[r] => outbox'[i].status = "published"
  <2>1. outbox[i] \in Row
    BY <1>c, <1>d
  <2>2. CASE i \in locked[r]
    <3>1. outbox'[i] = [outbox[i] EXCEPT !.status = "published"]
      BY <1>b, <1>d, <2>2, Zenon
    <3> QED
      BY <2>1, <2>2, <3>1 DEF Row
  <2>3. CASE i \notin locked[r]
    BY <1>b, <1>d, <2>1, <2>3
  <2> QED
    BY <2>2, <2>3
<1>e. /\ \A q \in Relays : /\ locked'[q] = IF q = r THEN {} ELSE locked[q]
                           /\ unsent'[q] = IF q = r THEN {} ELSE unsent[q]
                           /\ q # r => failed'[q] = failed[q]
  BY <1>a, <1>b DEF Shape
<1>1. Shape'
  <2>1. outbox' \in Seq(Row) /\ Len(outbox') = Len(outbox)
    <3>1. outbox' \in [1..Len(outbox) -> Row]
      BY <1>b, <1>c, <1>d, Zenon
    <3> QED
      BY <1>c, <3>1
  <2>2. /\ locked' \in [Relays -> SUBSET Nat] /\ unsent' \in [Relays -> SUBSET Nat]
        /\ failed' \in [Relays -> BOOLEAN]
    BY <1>a, <1>b, Zenon DEF Shape
  <2> QED
    BY <1>a, <1>b, <2>1, <2>2 DEF Shape
<1>2. RowsFollowTransactions'
  <2> SUFFICES ASSUME NEW i \in DOMAIN outbox
               PROVE  /\ outbox'[i].status = "uncommitted" => outbox'[i].event \in writing
                      /\ outbox'[i].status \in {"pending", "published"} => outbox'[i].event \in recorded
    BY <1>b, <1>c DEF RowsFollowTransactions
  <2> QED
    BY <1>a, <1>c, <1>d DEF RowsFollowTransactions
<1>3. LocksArePending' /\ OneLockPerRow' /\ WindowIsStored'
  <2>1. LocksArePending'
    <3> SUFFICES ASSUME NEW q \in Relays, q # r, NEW i \in locked[q]
                 PROVE  i \in DOMAIN outbox /\ outbox'[i].status = "pending"
      BY <1>a, <1>c, <1>e DEF LocksArePending
    <3>1. i \notin locked[r]
      BY <1>a DEF OneLockPerRow
    <3> QED
      BY <1>a, <1>d, <3>1 DEF LocksArePending
  <2>2. OneLockPerRow' /\ WindowIsStored'
    BY <1>a, <1>b, <1>e DEF OneLockPerRow, WindowIsStored
  <2> QED
    BY <2>1, <2>2
<1>s. \A i \in DOMAIN outbox : InStream(outbox[i])' <=> InStream(outbox[i])
  BY <1>b, <1>d DEF InStream
<1>4. SentIsStored'
  <2> SUFFICES ASSUME NEW q \in Relays, q # r, ~failed[q], NEW i \in locked[q] \ unsent[q]
               PROVE  InStream(outbox[i])'
    BY <1>e DEF SentIsStored
  <2>1. i \in DOMAIN outbox /\ InStream(outbox[i])
    BY <1>a DEF LocksArePending, SentIsStored
  <2> QED
    BY <1>s, <2>1
<1>5. PublishedIsStored' /\ AnnouncedIsRecorded'
  <2>1. PublishedIsStored'
    <3> SUFFICES ASSUME NEW i \in DOMAIN outbox, outbox'[i].status = "published"
                 PROVE  InStream(outbox[i])'
      BY <1>c DEF PublishedIsStored
    <3>1. CASE i \in locked[r]
      <4>1. InStream(outbox[i])
        BY <1>a, <1>b, <3>1 DEF SentIsStored
      <4> QED
        BY <1>s, <4>1
    <3>2. CASE i \notin locked[r]
      <4>1. InStream(outbox[i])
        BY <1>a, <1>d, <3>2 DEF PublishedIsStored
      <4> QED
        BY <1>s, <4>1
    <3> QED
      BY <3>1, <3>2
  <2> QED
    BY <1>a, <1>b, <2>1 DEF AnnouncedIsRecorded
<1>6. Paid'
  <2>1. FreeIsPaid'
    <3> SUFFICES ASSUME NEW i \in Ids, \A q \in Relays : i \notin locked'[q], ~IsPublished(i)'
                 PROVE  sends[i] <= faults
      BY <1>b DEF FreeIsPaid
    <3>1. i \notin locked[r]
      BY <1>c, <1>d DEF IsPublished
    <3>2. (\A q \in Relays : i \notin locked[q]) /\ ~IsPublished(i)
      BY <1>c, <1>d, <1>e, <3>1 DEF IsPublished
    <3> QED
      BY <1>a, <3>2 DEF FreeIsPaid
  <2>2. BatchIsPaid' /\ ResentOnlyAfterFault'
    BY <1>a, <1>b, <1>e DEF BatchIsPaid, ResentOnlyAfterFault
  <2> QED
    BY <2>1, <2>2 DEF Paid
<1> QED
  BY <1>1, <1>2, <1>3, <1>4, <1>5, <1>6 DEF IInv, Delivered

\* A batch is given back after a failed publish or by a crash: what it sent is
\* paid for by that fault.
LEMMA ReleasePreserves == ASSUME IInv, NEW r \in Relays, GiveBack(r) \/ Crash(r) PROVE IInv'
<1>a. /\ Shape /\ RowsFollowTransactions /\ LocksArePending /\ OneLockPerRow
      /\ WindowIsStored /\ SentIsStored /\ PublishedIsStored /\ AnnouncedIsRecorded
      /\ FreeIsPaid /\ BatchIsPaid /\ ResentOnlyAfterFault
  BY DEF IInv, Delivered, Paid
<1>b. /\ locked' = [locked EXCEPT ![r] = {}] /\ unsent' = [unsent EXCEPT ![r] = {}]
      /\ failed' = [failed EXCEPT ![r] = FALSE] /\ outbox' = outbox
      /\ writing' = writing /\ recorded' = recorded /\ stream' = stream /\ window' = window
      /\ sends' = sends
      /\ (failed[r] /\ faults' = faults) \/ faults' = faults + 1
  BY DEF GiveBack, Crash, Release, Fault
<1>c. /\ faults \in Nat /\ faults' \in Nat /\ faults <= faults'
      /\ \A i \in Ids : sends[i] \in Nat
      /\ \A q \in Relays : \A i \in locked[q] : i \in Ids
  BY <1>a, <1>b, OutboxAssumption DEF Shape, LocksArePending, Ids
<1>e. /\ \A q \in Relays : /\ locked'[q] = IF q = r THEN {} ELSE locked[q]
                           /\ unsent'[q] = IF q = r THEN {} ELSE unsent[q]
                           /\ q # r => failed'[q] = failed[q]
  BY <1>a, <1>b DEF Shape
<1>1. Shape'
  <2>1. /\ locked' \in [Relays -> SUBSET Nat] /\ unsent' \in [Relays -> SUBSET Nat]
        /\ failed' \in [Relays -> BOOLEAN]
    BY <1>a, <1>b, Zenon DEF Shape
  <2> QED
    BY <1>a, <1>b, <1>c, <2>1 DEF Shape
<1>u. /\ writing' = writing /\ recorded' = recorded /\ outbox' = outbox /\ stream' = stream
      /\ window' = window /\ sends' = sends
  BY <1>b, Zenon
<1>2. /\ RowsFollowTransactions' /\ LocksArePending' /\ OneLockPerRow' /\ WindowIsStored'
  <2>1. RowsFollowTransactions' /\ WindowIsStored'
    BY <1>a, <1>u DEF RowsFollowTransactions, WindowIsStored
  <2>2. LocksArePending' /\ OneLockPerRow'
    BY <1>a, <1>u, <1>e DEF LocksArePending, OneLockPerRow
  <2> QED
    BY <2>1, <2>2
<1>3. SentIsStored' /\ PublishedIsStored' /\ AnnouncedIsRecorded'
  <2>1. SentIsStored'
    BY <1>a, <1>u, <1>e DEF SentIsStored, InStream
  <2> QED
    BY <1>a, <1>u, <2>1 DEF PublishedIsStored, AnnouncedIsRecorded, InStream
<1>4. Paid'
  <2>1. FreeIsPaid'
    <3> SUFFICES ASSUME NEW i \in Ids, \A q \in Relays : i \notin locked'[q], ~IsPublished(i)
                 PROVE  sends[i] <= faults'
      BY <1>b DEF FreeIsPaid, IsPublished
    <3>1. CASE i \in locked[r]
      <4>1. sends[i] + (IF i \in unsent[r] THEN 1 ELSE 0) <= faults + (IF failed[r] THEN 0 ELSE 1)
        BY <1>a, <3>1 DEF BatchIsPaid
      <4> QED
        BY <1>b, <1>c, <4>1
    <3>2. CASE i \notin locked[r]
      <4>1. sends[i] <= faults
        BY <1>a, <1>e, <3>2 DEF FreeIsPaid
      <4> QED
        BY <1>c, <4>1
    <3> QED
      BY <3>1, <3>2
  <2>2. BatchIsPaid'
    <3> SUFFICES ASSUME NEW q \in Relays, q # r, NEW i \in locked[q]
                 PROVE  sends[i] + (IF i \in unsent[q] THEN 1 ELSE 0)
                        <= faults' + (IF failed[q] THEN 0 ELSE 1)
      BY <1>u, <1>e DEF BatchIsPaid
    <3>1. sends[i] + (IF i \in unsent[q] THEN 1 ELSE 0) <= faults + (IF failed[q] THEN 0 ELSE 1)
      BY <1>a DEF BatchIsPaid
    <3> QED
      BY <1>c, <3>1
  <2>3. ResentOnlyAfterFault'
    BY <1>a, <1>b, <1>c DEF ResentOnlyAfterFault
  <2> QED
    BY <2>1, <2>2, <2>3 DEF Paid
<1> QED
  BY <1>1, <1>2, <1>3, <1>4 DEF IInv, Delivered

LEMMA ForgetPreserves == ASSUME IInv, NEW id, Forget(id) \/ UNCHANGED vars PROVE IInv'
<1>1. /\ writing' = writing /\ recorded' = recorded /\ outbox' = outbox /\ locked' = locked
      /\ unsent' = unsent /\ failed' = failed /\ stream' = stream /\ window' \subseteq window
      /\ sends' = sends /\ faults' = faults
  BY DEF Forget, relays, vars
<1>2. Delivered'
  BY <1>1 DEF IInv, Delivered, Shape, RowsFollowTransactions, LocksArePending, OneLockPerRow,
     WindowIsStored, SentIsStored, PublishedIsStored, AnnouncedIsRecorded, InStream
<1>3. Paid'
  BY <1>1 DEF IInv, Paid, FreeIsPaid, BatchIsPaid, ResentOnlyAfterFault, IsPublished
<1> QED
  BY <1>2, <1>3 DEF IInv

-----------------------------------------------------------------------------
LEMMA InitIInv == Init => IInv
<1> SUFFICES ASSUME Init PROVE IInv
  OBVIOUS
<1>1. /\ outbox = <<>> /\ stream = <<>> /\ window = {} /\ faults = 0
      /\ locked = [r \in Relays |-> {}] /\ unsent = [r \in Relays |-> {}]
      /\ failed = [r \in Relays |-> FALSE] /\ sends = [i \in Ids |-> 0]
  BY DEF Init
<1>2. Shape
  BY <1>1, OutboxAssumption DEF Shape
<1>3. RowsFollowTransactions /\ LocksArePending /\ OneLockPerRow /\ WindowIsStored
  BY <1>1 DEF RowsFollowTransactions, LocksArePending, OneLockPerRow, WindowIsStored
<1>4. SentIsStored /\ PublishedIsStored /\ AnnouncedIsRecorded
  BY <1>1 DEF SentIsStored, PublishedIsStored, AnnouncedIsRecorded
<1>5. Paid
  BY <1>1 DEF Paid, FreeIsPaid, BatchIsPaid, ResentOnlyAfterFault
<1> QED
  BY <1>2, <1>3, <1>4, <1>5 DEF IInv, Delivered

LEMMA NextIInv == IInv /\ [Next]_vars => IInv'
  BY RecordPreserves, EndsPreserves, ClaimPreserves, PublishPreserves, MarkPreserves,
     ReleasePreserves, ForgetPreserves DEF Next, Relay

\* Nothing that was marked published is missing from the stream, whatever
\* crashes, failed commits, lost acknowledgements and de-duplication do
\* (Relay.Drain, MarkPublished).
THEOREM NoPublishedRowIsLost == Spec => []PublishedIsStored
<1>1. IInv => PublishedIsStored
  BY DEF IInv, Delivered
<1> QED
  BY <1>1, InitIInv, NextIInv, PTL DEF Spec

\* Only events whose transaction committed are ever announced.
THEOREM OnlyRecordedIsAnnounced == Spec => []AnnouncedIsRecorded
<1>1. IInv => AnnouncedIsRecorded
  BY DEF IInv, Delivered
<1> QED
  BY <1>1, InitIInv, NextIInv, PTL DEF Spec

\* However many relays run side by side, a row is published at most once more
\* than there were faults (SKIP LOCKED).
THEOREM ResendsArePaidFor == Spec => []ResentOnlyAfterFault
<1>1. IInv => ResentOnlyAfterFault
  BY DEF IInv, Paid
<1> QED
  BY <1>1, InitIInv, NextIInv, PTL DEF Spec
=============================================================================

------------------------------- MODULE Paging -------------------------------
(***************************************************************************)
(* The lists of the HTTP API (internal/persistence/reader.go, memory.go,   *)
(* postgres_reader.go): events, alerts and automation requests, newest     *)
(* first, in pages that continue after a cursor.                           *)
(*                                                                         *)
(* A row has an id, the time t it is sorted by, and what the filters look  *)
(* at: device, status (of an alert or request) and kind (the type of an    *)
(* event, the policy of a request) and severity.  Ids are ordered like     *)
(* strings; here they are numbers.  A filter's field is "" or NotSet when  *)
(* it is not set.                                                          *)
(***************************************************************************)
EXTENDS Integers, Sequences, SequencesExt, FiniteSets, Ordering

CONSTANTS
    DefaultLimit,   \* clampLimit: rows of a page when the client does not say
    MaxLimit        \* clampLimit: rows of a page at most

ASSUME PagingAssumption == DefaultLimit \in 1..MaxLimit /\ MaxLimit \in Nat

NotSet == -1
Rank   == [info |-> 1, warning |-> 2, critical |-> 3]
Start  == [t |-> NotSet, id |-> NotSet]   \* the empty cursor

ClampLimit(n) == IF n <= 0 THEN DefaultLimit ELSE IF n > MaxLimit THEN MaxLimit ELSE n

\* EncodeCursor, and what DecodeCursor returns for it: both parts of the sort
\* key of the last row.
EncodeCursor(row) == [t |-> row.t, id |-> row.id]

\* The filters of ListEvents, ListAlerts and ListAutomation.
Selects(f, r) ==
    /\ f.device \in {"", r.device}
    /\ f.status \in {"", r.status}
    /\ f.kind \in {"", r.kind}
    /\ f.minSeverity # "" => Rank[r.severity] >= Rank[f.minSeverity]
    /\ f.since # NotSet => r.t >= f.since
    /\ f.until # NotSet => r.t < f.until

Newer(a, b) == a.t > b.t \/ (a.t = b.t /\ a.id > b.id)

\* Mutated: the cursor is only a time, and a row that ties is taken as listed.
AfterTime(c, r) == c = Start \/ r.t < c.t
\* The rows a page starts with: behind the cursor in (time, id).
After(c, r) == c = Start \/ r.t < c.t \/ (r.t = c.t /\ r.id < c.id)

\* pageOf: up to limit + 1 rows, of which the last only tells that there is a
\* next page.
PageOf(items, c, n) ==
    LET limit == ClampLimit(n)
        out   == Picked(items, { i \in DOMAIN items : After(c, items[i]) })
        page  == SubSeq(out, 1, IF Len(out) > limit THEN limit ELSE Len(out))
    IN  [rows |-> page, next |-> IF Len(out) > limit THEN EncodeCursor(Last(page)) ELSE Start]

\* The rows of a table that pass the filter.
Hits(table, f) == { table[i] : i \in { j \in DOMAIN table : Selects(f, table[j]) } }

\* MemStore's lists: the rows that pass, sorted, paged.
MemList(table, f, c, n) == PageOf(Ordered(Hits(table, f), Newer), c, n)

\* PGStore's lists: WHERE with a row comparison, ORDER BY two columns, LIMIT.
PgList(table, f, c, n) ==
    LET where == { r \in Hits(table, f) : c # Start => (r.t < c.t \/ (r.t = c.t /\ r.id < c.id)) }
        limit == ClampLimit(n)
        top   == { r \in where : Cardinality({ x \in where : Newer(x, r) }) < limit + 1 }
        rows  == Ordered(top, Newer)
    IN  IF Len(rows) <= limit THEN [rows |-> rows, next |-> Start]
        ELSE [rows |-> Front(rows), next |-> EncodeCursor(rows[limit])]

-----------------------------------------------------------------------------
(* A client that follows the cursors to the end while the table changes:   *)
(* tables[k] is what the k-th request finds.                               *)

\* One more page; without a cursor there is none.
Turn(w, page) ==
    IF w.done THEN w
    ELSE [listed |-> w.listed \o page.rows, cursor |-> page.next, done |-> page.next = Start]

Unread == [listed |-> <<>>, cursor |-> Start, done |-> FALSE]

MemTurn(w, table, f, n) == Turn(w, MemList(table, f, w.cursor, n))
PgTurn(w, table, f, n)  == Turn(w, PgList(table, f, w.cursor, n))

Walked(tables, f, n)   == FoldLeft(LAMBDA w, table : MemTurn(w, table, f, n), Unread, tables)
PgWalked(tables, f, n) == FoldLeft(LAMBDA w, table : PgTurn(w, table, f, n), Unread, tables)
=============================================================================

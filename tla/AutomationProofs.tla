-------------------------- MODULE AutomationProofs --------------------------
(***************************************************************************)
(* The automation role, for every set of policies, alert keys, workers and *)
(* approvers, every lease, batch size and bound: type correctness, results *)
(* that stay final, no action before its approval, no request stuck        *)
(* without a fault, exclusive leases and limits that hold.                 *)
(***************************************************************************)
EXTENDS Automation, FiniteSetTheorems, TLAPS

\* A worker that is taking one claimed request through the gates.
Processing == {"alert", "limits", "approval", "execute", "record"}
Working(w) == tick[w].step \in Processing

\* What the actions need of the locals: a handler with policies left knows its
\* alert, a working tick knows its request and, once the adapter has returned,
\* the outcome.
LocalsReady ==
    /\ \A w \in Workers : handler[w].left # {} =>
          /\ handler[w].key \in Keys
          /\ handler[w].opening \in 1..Len(openings[handler[w].key])
    /\ \A w \in Workers : Working(w) => tick[w].req \in Requests
    /\ \A w \in Workers : tick[w].at <= clock /\ IsFiniteSet(tick[w].due)
    /\ \A w \in Workers : tick[w].step = "record" => tick[w].outcome \in Executed

\* A result and the status of its request agree.
ResultsAgree ==
    \A r \in Requests : results[r] # NoResult =>
        results[r].status \in Final /\ rows[r].status = results[r].status

\* Every time a tick or a row remembers was read from the clock: an alert has
\* opened, a request was created and a claim was made in the past, and a
\* request waits no longer than its policy's delay.
RowDated(r) == /\ rows[r].notBefore <= clock + Duration[Policy(r)]
               /\ rows[r].created <= clock /\ rows[r].claimed <= clock
Dated ==
    /\ \A k \in Keys : \A i \in 1..Len(openings[k]) : openings[k][i] <= clock
    /\ \A w \in Workers : tick[w].now <= clock
    /\ \A r \in Requests : RowDated(r)

Base == TypeOK /\ LocalsReady /\ ResultsAgree /\ Dated

\* A snapshot of a request is of a row that exists, and an approver it saw is
\* still there: approvals are never withdrawn.
Known(r, by) == rows[r].status # "absent" /\ (by # NoOne => rows[r].approvedBy # NoOne)

ApprovalInv ==
    /\ \A w \in Workers : \A d \in tick[w].due : Known(d.req, d.approvedBy)
    /\ \A w \in Workers : Working(w) => Known(tick[w].req, tick[w].approvedBy)
    /\ \A r \in acted : /\ rows[r].status # "absent"
                        /\ NeedsApproval[Policy(r)] => rows[r].approvedBy # NoOne

Faulty == faults["crash"] > 0 \/ faults["store"] > 0

\* Only a rejected proposal leaves a final status without its result, and only
\* while its handler runs or after a fault took that handler away.
Stranded(r) == rows[r].status = "denied" /\ "rejected" \in Proposals[Policy(r)] /\ Faulty
StuckInv ==
    \A r \in Requests : rows[r].status \in Final /\ results[r] = NoResult =>
        \/ Stranded(r)
        \/ /\ rows[r].status = "denied" /\ "rejected" \in Proposals[Policy(r)]
           /\ \E w \in Workers : handler[w].denied = r

\* As long as no store call failed, a request somebody works on is claimed or
\* finished, its last claim is not older than the worker's, and the claims of
\* two workers on it are a lease apart.
WorksOn(w, r) == Working(w) /\ tick[w].req = r /\ ~NeedsApproval[Policy(r)]
Apart(v, w)   == tick[v].now < tick[w].now - Lease \/ tick[w].now < tick[v].now - Lease
LeaseInv ==
    faults["store"] = 0 =>
        \A w \in Workers, r \in Requests : WorksOn(w, r) =>
            /\ rows[r].status \in Final \cup {"executing"} /\ tick[w].now <= rows[r].claimed
            /\ \A v \in Workers : WorksOn(v, r) /\ v # w => Apart(v, w)

\* What was recorded when the gates were evaluated allows the action, from the
\* moment the limits were checked.
Ended(t) == { q \in Requests : results[q].status \in Executed /\ results[q].recorded < t }
Allowed(r, t) ==
    /\ Cooldown[Policy(r)] > 0 => \A q \in Ended(t) : SameScope(q, r) =>
                                      results[q].finished < t - Cooldown[Policy(r)]
    /\ RetriesBelow[Policy(r)] > 0 =>
          Cardinality({ q \in Ended(t) : Policy(q) = Policy(r) /\ Key(q) = Key(r) })
              < RetriesBelow[Policy(r)]
LimitsInv ==
    \A w \in Workers : tick[w].step \in {"approval", "execute"} => Allowed(tick[w].req, tick[w].at)

AutomationInv == Base /\ ApprovalInv /\ StuckInv /\ LeaseInv /\ LimitsInv

-----------------------------------------------------------------------------
LEMMA Constants ==
    /\ NoRow \in Row /\ NoResult \in Result
    /\ NoEvent \in Handling /\ Idle \in Locals /\ 0 \in Times
    /\ NoEvent.left = {} /\ NoEvent.denied = None /\ NoResult.status \notin Final
    /\ Idle.step = "idle" /\ Idle.due = {} /\ Idle.at = 0 /\ Idle.now = 0
    /\ None \notin Requests
<1>1. 0 \in Times
  BY AutomationAssumption DEF Times
<1>2. NoRow \in Row
  BY <1>1 DEF NoRow, Row, Statuses
<1>3. NoResult \in Result
  BY <1>1 DEF NoResult, Result
<1>4. NoEvent \in Handling
  BY AutomationAssumption DEF NoEvent, Handling
<1>5. Idle \in Locals
  BY <1>1 DEF Idle, Locals
<1>6. None \notin Requests
  BY AutomationAssumption DEF None, Requests
<1>7. NoEvent.left = {} /\ NoEvent.denied = None /\ NoResult.status \notin Final
  BY DEF NoEvent, NoResult, Final, Executed
<1>8. Idle.step = "idle" /\ Idle.due = {} /\ Idle.at = 0 /\ Idle.now = 0
  BY DEF Idle
<1> QED
  BY <1>1, <1>2, <1>3, <1>4, <1>5, <1>6, <1>7, <1>8

LEMMA RequestsFinite == IsFiniteSet(Requests)
<1> DEFINE P == Policies \X Keys
           Q == P \X (1..MaxOpenings)
           f == [x \in Q |-> <<x[1][1], x[1][2], x[2]>>]
<1>1. IsFiniteSet(P) /\ IsFiniteSet(1..MaxOpenings)
  <2>1. IsFiniteSet(Policies) /\ IsFiniteSet(Keys) /\ MaxOpenings \in Int /\ 1 \in Int
    BY AutomationAssumption
  <2>2. IsFiniteSet(P)
    BY <2>1, FS_Product, Zenon
  <2>3. IsFiniteSet(1..MaxOpenings)
    BY <2>1, FS_Interval, Zenon
  <2> QED
    BY <2>2, <2>3, Zenon
<1>2. IsFiniteSet(Q)
  <2> HIDE DEF P
  <2> QED
    BY <1>1, FS_Product
<1>3. f \in [Q -> Requests]
  BY DEF Requests
<1>4. ASSUME NEW r \in Requests PROVE \E x \in Q : f[x] = r
  <2>1. /\ r = <<r[1], r[2], r[3]>> /\ r[1] \in Policies /\ r[2] \in Keys
        /\ r[3] \in 1..MaxOpenings
    BY <1>4 DEF Requests
  <2>2. <<<<r[1], r[2]>>, r[3]>> \in Q
    BY <2>1
  <2>3. f[<<<<r[1], r[2]>>, r[3]>>] = r
    BY <2>1, <2>2
  <2> QED
    BY <2>2, <2>3
<1>5. f \in Surjection(Q, Requests)
  <2> HIDE DEF f, Q
  <2> QED
    BY <1>3, <1>4, Zenon DEF Surjection
<1> QED
  <2> HIDE DEF f, Q
  <2> QED
    BY <1>2, <1>5, FS_Surjection

-----------------------------------------------------------------------------
(* What a step may do to one request, one tick and one handler.  Every     *)
(* action is shown to be one of these once; the invariants are then about  *)
(* these few cases and not about twenty actions.                           *)

RowsTyped == /\ rows \in [Requests -> Row]
             /\ results \in [Requests -> Result]

RowKept(r) == rows'[r] = rows[r] /\ results'[r] = results[r]

RowInserted(r) ==
    /\ rows[r].status = "absent" /\ results'[r] = results[r]
    /\ rows'[r].notBefore <= clock + Duration[Policy(r)]
    /\ rows'[r].created = clock /\ rows'[r].claimed = 0
    /\ \/ rows'[r].status = "pending"
       \/ /\ rows'[r].status = "denied" /\ "rejected" \in Proposals[Policy(r)]
          /\ \E w \in Workers : handler'[w].denied = r

RowCompleted(r) ==
    /\ results[r] = NoResult
    /\ \E s \in Final, f \in Times :
          /\ rows'[r] = [rows[r] EXCEPT !.status = s]
          /\ results'[r] = [status |-> s, finished |-> f, recorded |-> clock]

RowReleased(r) ==
    /\ rows[r].status = "executing" /\ results'[r] = results[r]
    /\ \E s \in {"awaiting_approval", "pending", "approved"} :
          rows'[r] = [rows[r] EXCEPT !.status = s]
    /\ NeedsApproval[Policy(r)] \/ faults'["store"] > 0

RowClaimed(r) ==
    /\ results'[r] = results[r]
    /\ \E t \in Times : /\ Claimable(r, t) /\ t <= clock
                        /\ rows'[r] = [rows[r] EXCEPT !.status = "executing", !.claimed = t]

RowApproved(r) ==
    /\ rows[r].status = "awaiting_approval" /\ results'[r] = results[r]
    /\ \E by \in Approvers : rows'[r] = [rows[r] EXCEPT !.status = "approved", !.approvedBy = by]

RowStep(r) == \/ RowKept(r) \/ RowInserted(r) \/ RowCompleted(r)
              \/ RowReleased(r) \/ RowClaimed(r) \/ RowApproved(r)

RowsStep == RowsTyped' /\ \A r \in Requests : RowStep(r)

TicksTyped == /\ tick \in [Workers -> Locals]
              /\ \A w \in Workers : /\ Cardinality(tick[w].due) <= BatchSize
                                    /\ IsFiniteSet(tick[w].due)
                                    /\ tick[w].step = "record" => tick[w].outcome \in Executed

\* The tick ended or went on to another request of its batch.
TickLeft(w) ==
    /\ tick'[w].step \notin Processing /\ tick'[w].at \in {0, tick[w].at}
    /\ tick'[w].now \in {0, clock, tick[w].now}
    /\ \A d \in tick'[w].due :
          d \in tick[w].due \/ (rows[d.req].status # "absent" /\ d.approvedBy = rows[d.req].approvedBy)

TickTook(w) ==
    /\ tick'[w].step = "alert" /\ tick'[w].now = tick[w].now /\ tick'[w].at = clock
    /\ tick'[w].due \subseteq tick[w].due
    /\ \E d \in tick[w].due :
          /\ tick'[w].req = d.req /\ tick'[w].approvedBy = d.approvedBy
          /\ Claimable(d.req, tick[w].now)
          /\ rows'[d.req].status = "executing" /\ rows'[d.req].claimed = tick[w].now
    /\ \A v \in Workers \ {w} : tick'[v] = tick[v]

TickPassed(w) ==
    /\ Working(w) /\ tick'[w].step \in Processing
    /\ tick'[w].req = tick[w].req /\ tick'[w].approvedBy = tick[w].approvedBy
    /\ tick'[w].now = tick[w].now /\ tick'[w].at = tick[w].at /\ tick'[w].due = tick[w].due
    /\ \/ tick'[w].step \in {"alert", "limits"}
       \/ tick[w].step = "limits" /\ ~OverLimits(tick[w].req, tick[w].at)
       \/ tick[w].step \in {"approval", "execute"}

TickStep(w) == tick'[w] = tick[w] \/ TickLeft(w) \/ TickTook(w) \/ TickPassed(w)

TicksStep == TicksTyped' /\ \A w \in Workers : TickStep(w)

\* A handler forgets a rejected proposal only when its result is there or
\* after a fault.
HandlerStep(w) ==
    \/ handler[w].denied = None \/ handler'[w].denied = handler[w].denied
    \/ results'[handler[w].denied] # NoResult \/ Faulty'

HandlersStep ==
    /\ handler' \in [Workers -> Handling]
    /\ \A w \in Workers :
          /\ HandlerStep(w)
          /\ handler'[w].left # {} =>
                /\ handler'[w].key \in Keys
                /\ handler'[w].opening \in 1..Len(openings'[handler'[w].key])

ActedStep ==
    /\ acted' \subseteq Requests
    /\ \A r \in acted' : \/ r \in acted
                         \/ \E w \in Workers : /\ tick[w].step = "approval" /\ tick[w].req = r
                                               /\ ~MissesApproval(w)

WorldStep ==
    /\ clock' \in Times /\ clock <= clock'
    /\ openings' \in [Keys -> Seq(Times)] /\ firing' \in [Keys -> BOOLEAN]
    /\ \A k \in Keys : Len(openings[k]) <= Len(openings'[k])
    /\ \A k \in Keys : \A i \in 1..Len(openings'[k]) : openings'[k][i] <= clock'
    /\ faults' \in [{"crash", "store"} -> Nat]
    /\ \A kind \in {"crash", "store"} : faults[kind] <= faults'[kind]

StepEffects == RowsStep /\ TicksStep /\ HandlersStep /\ ActedStep /\ WorldStep

-----------------------------------------------------------------------------
(* Steps that leave a part alone.                                          *)

LEMMA RowsSame == ASSUME Base, rows' = rows, results' = results PROVE RowsStep
  BY DEF Base, TypeOK, RowsTyped, RowsStep, RowStep, RowKept

LEMMA TicksSame == ASSUME Base, tick' = tick PROVE TicksStep
  BY DEF Base, TypeOK, LocalsReady, TicksTyped, TicksStep, TickStep

LEMMA ActedSame == ASSUME Base, acted' = acted PROVE ActedStep
  BY DEF Base, TypeOK, ActedStep

LEMMA WorldSame ==
    ASSUME Base, clock' = clock, openings' = openings, firing' = firing, faults' = faults
    PROVE  WorldStep
<1>1. /\ clock \in Times /\ openings \in [Keys -> Seq(Times)] /\ firing \in [Keys -> BOOLEAN]
      /\ faults \in [{"crash", "store"} -> Nat]
  BY DEF Base, TypeOK
<1>2. clock <= clock
  BY <1>1 DEF Times
<1>3. \A k \in Keys : Len(openings[k]) <= Len(openings[k])
  BY <1>1
<1>4. \A kind \in {"crash", "store"} : faults[kind] <= faults[kind]
  BY <1>1
<1>5. \A k \in Keys : \A i \in 1..Len(openings[k]) : openings[k][i] <= clock
  BY Zenon DEF Base, Dated
<1> QED
  BY <1>1, <1>2, <1>3, <1>4, <1>5, Zenon DEF WorldStep

LEMMA HandlersSame ==
    ASSUME Base, handler' = handler, WorldStep
    PROVE  HandlersStep
<1>1. /\ handler \in [Workers -> Handling] /\ openings \in [Keys -> Seq(Times)]
      /\ openings' \in [Keys -> Seq(Times)]
      /\ \A k \in Keys : Len(openings[k]) <= Len(openings'[k])
  BY DEF Base, TypeOK, WorldStep
<1>2. ASSUME NEW w \in Workers, handler[w].left # {}
      PROVE  /\ handler[w].key \in Keys
             /\ handler[w].opening \in 1..Len(openings'[handler[w].key])
  <2>1. handler[w].key \in Keys /\ handler[w].opening \in 1..Len(openings[handler[w].key])
    BY <1>2, Zenon DEF Base, LocalsReady
  <2> DEFINE a == Len(openings[handler[w].key])
             b == Len(openings'[handler[w].key])
  <2>2. a \in Nat /\ b \in Nat /\ a <= b
    BY <1>1, <2>1
  <2> HIDE DEF a, b
  <2>3. 1..a \subseteq 1..b
    BY <2>2
  <2> QED
    BY <2>1, <2>3, Zenon DEF a, b
<1> QED
  BY <1>1, <1>2, Zenon DEF HandlersStep, HandlerStep

-----------------------------------------------------------------------------
(* Store statements and local updates.                                     *)

LEMMA CompleteRows ==
    ASSUME Base, NEW r \in Requests, NEW status \in Final, NEW finished \in Times,
           Complete(r, status, finished)
    PROVE  RowsStep /\ results'[r] # NoResult
<1>1. /\ rows \in [Requests -> Row] /\ clock \in Times
      /\ results \in [Requests -> Result]
  BY DEF Base, TypeOK
<1>2. CASE results[r] # NoResult
  <2>1. rows' = rows /\ results' = results
    BY <1>2, Zenon DEF Complete
  <2> QED
    BY <1>2, <2>1, RowsSame, Zenon
<1>3. CASE results[r] = NoResult
  <2> DEFINE res == [status |-> status, finished |-> finished, recorded |-> clock]
             row == [rows[r] EXCEPT !.status = status]
  <2>1. results' = [results EXCEPT ![r] = res] /\ rows' = [rows EXCEPT ![r].status = status]
    BY <1>3, Zenon DEF Complete
  <2>2. /\ res \in Result /\ row \in Row
        /\ res.status = status
    BY <1>1 DEF Row, Statuses, Result
  <2>3. res # NoResult
    BY <2>2, Constants
  <2>4. rows' = [rows EXCEPT ![r] = row]
    BY <2>1, Zenon
  <2> HIDE DEF res, row
  <2>5. RowsTyped'
    BY <1>1, <2>1, <2>2, <2>4 DEF RowsTyped
  <2>6. ASSUME NEW q \in Requests, q # r PROVE RowKept(q)
    BY <1>1, <2>1, <2>4, <2>6 DEF RowKept
  <2>7. rows'[r] = row /\ results'[r] = res
    BY <1>1, <2>1, <2>4
  <2>8. RowCompleted(r)
    BY <1>3, <2>7, Zenon DEF RowCompleted, row, res
  <2> QED
    BY <2>3, <2>5, <2>6, <2>7, <2>8, Zenon DEF RowsStep, RowStep
<1> QED
  BY <1>2, <1>3, Zenon

LEMMA SetStatusRows ==
    ASSUME Base, NEW r \in Requests, NEW to \in {"awaiting_approval", "pending", "approved"},
           SetStatus(r, to), results' = results,
           NeedsApproval[Policy(r)] \/ faults'["store"] > 0
    PROVE  RowsStep
<1>1. /\ rows \in [Requests -> Row]
      /\ results \in [Requests -> Result]
  BY DEF Base, TypeOK
<1>2. CASE rows[r].status # "executing"
  BY <1>2, RowsSame, Zenon DEF SetStatus
<1>3. CASE rows[r].status = "executing"
  <2> DEFINE row == [rows[r] EXCEPT !.status = to]
  <2>1. rows' = [rows EXCEPT ![r] = row]
    BY <1>3, Zenon DEF SetStatus
  <2>2. row \in Row
    BY <1>1 DEF Row, Statuses
  <2> HIDE DEF row
  <2>3. RowsTyped'
    BY <1>1, <2>1, <2>2 DEF RowsTyped
  <2>4. ASSUME NEW q \in Requests, q # r PROVE RowKept(q)
    BY <1>1, <2>1, <2>4 DEF RowKept
  <2>5. rows'[r] = row
    BY <1>1, <2>1
  <2>6. RowReleased(r)
    BY <1>3, <2>5, Zenon DEF RowReleased, row
  <2> QED
    BY <2>3, <2>4, <2>6, Zenon DEF RowsStep, RowStep
<1> QED
  BY <1>2, <1>3, Zenon

LEMMA TickUpdate ==
    ASSUME Base, NEW w \in Workers, NEW t \in Locals, IsFiniteSet(t.due),
           Cardinality(t.due) <= BatchSize, t.step = "record" => t.outcome \in Executed,
           tick' = [tick EXCEPT ![w] = t]
    PROVE  /\ TicksTyped' /\ tick'[w] = t
           /\ \A v \in Workers \ {w} : tick'[v] = tick[v]
<1>1. tick \in [Workers -> Locals]
  BY DEF Base, TypeOK
<1>2. tick' \in [Workers -> Locals]
  BY <1>1, Zenon
<1>3. tick'[w] = t /\ \A v \in Workers \ {w} : tick'[v] = tick[v]
  BY <1>1
<1>4. \A v \in Workers : /\ Cardinality(tick[v].due) <= BatchSize /\ IsFiniteSet(tick[v].due)
                         /\ tick[v].step = "record" => tick[v].outcome \in Executed
  BY Zenon DEF Base, TypeOK, LocalsReady
<1>5. \A v \in Workers : /\ Cardinality(tick'[v].due) <= BatchSize /\ IsFiniteSet(tick'[v].due)
                         /\ tick'[v].step = "record" => tick'[v].outcome \in Executed
  BY <1>3, <1>4, Zenon
<1> QED
  BY <1>2, <1>3, <1>5, Zenon DEF TicksTyped

\* The tick leaves its request, for another one of its batch or for good.
LEMMA OnwardTicks ==
    ASSUME Base, NEW w \in Workers, NEW due \in SUBSET DueRow, IsFiniteSet(due),
           Cardinality(due) <= BatchSize,
           tick' = [tick EXCEPT ![w] = Onward(tick[w], due)],
           \A d \in due : d \in tick[w].due \/
              (rows[d.req].status # "absent" /\ d.approvedBy = rows[d.req].approvedBy)
    PROVE  TicksStep
<1> DEFINE t == Onward(tick[w], due)
<1>1. tick[w].now \in Times
  BY DEF Base, TypeOK, Locals
<1>2. /\ t \in Locals /\ t.due = due /\ t.step \notin Processing /\ t.at = 0
      /\ t.now \in {0, tick[w].now}
  <2>1. CASE due = {}
    <3>1. t = Idle
      BY <2>1, Zenon DEF Onward
    <3> HIDE DEF t
    <3> QED
      BY <2>1, <3>1, Constants DEF Processing
  <2>2. CASE due # {}
    <3>1. t = [Idle EXCEPT !.step = "claim", !.now = tick[w].now, !.due = due]
      BY <2>2, Zenon DEF Onward
    <3>2. t = [step |-> "claim", now |-> tick[w].now, waiting |-> {}, due |-> due, req |-> None,
               approvedBy |-> NoOne, at |-> 0, outcome |-> "none", finished |-> 0]
      BY <3>1 DEF Idle
    <3> HIDE DEF t
    <3> QED
      BY <1>1, <3>2, Constants DEF Locals, Processing
  <2> QED
    BY <2>1, <2>2, Zenon
<1> HIDE DEF t
<1>3. tick' = [tick EXCEPT ![w] = t] /\ t.step # "record"
  BY <1>2, Zenon DEF t, Processing
<1>4. /\ TicksTyped' /\ tick'[w] = t
      /\ \A v \in Workers \ {w} : tick'[v] = tick[v]
  BY <1>2, <1>3, TickUpdate, Zenon
<1>5. TickLeft(w)
  BY <1>2, <1>4, Zenon DEF TickLeft
<1> QED
  BY <1>4, <1>5, Zenon DEF TicksStep, TickStep

LEMMA NextOfBatchTicks == ASSUME Base, NEW w \in Workers, NextOfBatch(w) PROVE TicksStep
<1>1. /\ tick[w].due \in SUBSET DueRow /\ IsFiniteSet(tick[w].due)
      /\ Cardinality(tick[w].due) <= BatchSize
  BY DEF Base, TypeOK, LocalsReady, Locals
<1>2. tick \in [Workers -> Locals]
  BY DEF Base, TypeOK
<1>3. tick' = [tick EXCEPT ![w] = Onward(tick[w], tick[w].due)]
  BY <1>2 DEF NextOfBatch
<1> QED
  BY <1>1, <1>3, OnwardTicks, Zenon

LEMMA IdleTicks ==
    ASSUME Base, NEW w \in Workers, tick' = [tick EXCEPT ![w] = Idle] PROVE TicksStep
<1>1. IsFiniteSet(Idle.due) /\ Cardinality(Idle.due) <= BatchSize /\ Idle.step # "record"
  BY Constants, FS_EmptySet, AutomationAssumption
<1>2. TicksTyped' /\ tick'[w] = Idle /\ \A v \in Workers \ {w} : tick'[v] = tick[v]
  BY <1>1, Constants, TickUpdate, Zenon
<1>3. TickLeft(w)
  BY <1>2, Constants DEF TickLeft, Processing
<1> QED
  BY <1>2, <1>3, Zenon DEF TicksStep, TickStep

\* The tick passes a gate.
LEMMA PassTicks ==
    ASSUME Base, NEW w \in Workers, NEW s \in Processing, Working(w),
           tick' = [tick EXCEPT ![w] = [tick[w] EXCEPT !.step = s]], s # "record",
           \/ s \in {"alert", "limits"}
           \/ tick[w].step = "limits" /\ ~OverLimits(tick[w].req, tick[w].at)
           \/ tick[w].step \in {"approval", "execute"}
    PROVE  TicksStep
<1> DEFINE t == [tick[w] EXCEPT !.step = s]
<1>1. tick[w] \in Locals /\ IsFiniteSet(tick[w].due) /\ Cardinality(tick[w].due) <= BatchSize
  BY DEF Base, TypeOK, LocalsReady
<1>2. /\ t \in Locals /\ t.step = s /\ t.req = tick[w].req /\ t.approvedBy = tick[w].approvedBy
      /\ t.now = tick[w].now /\ t.at = tick[w].at /\ t.due = tick[w].due
  BY <1>1 DEF Locals, Processing
<1> HIDE DEF t
<1>3. tick' = [tick EXCEPT ![w] = t]
  BY Zenon DEF t
<1>4. TicksTyped' /\ tick'[w] = t /\ \A v \in Workers \ {w} : tick'[v] = tick[v]
  BY <1>1, <1>2, <1>3, TickUpdate, Zenon
<1>5. TickPassed(w)
  BY <1>2, <1>4, Zenon DEF TickPassed
<1> QED
  BY <1>4, <1>5, Zenon DEF TicksStep, TickStep

\* One handler changes.
LEMMA HandlerUpdate ==
    ASSUME Base, WorldStep, NEW w \in Workers, NEW h \in Handling,
           handler' = [handler EXCEPT ![w] = h],
           h.left # {} => h.key \in Keys /\ h.opening \in 1..Len(openings'[h.key]),
           \/ handler[w].denied = None \/ h.denied = handler[w].denied
           \/ results'[handler[w].denied] # NoResult \/ Faulty'
    PROVE  HandlersStep
<1>1. handler \in [Workers -> Handling]
  BY DEF Base, TypeOK
<1>2. handler' \in [Workers -> Handling]
  BY <1>1, Zenon
<1>3. handler'[w] = h /\ \A v \in Workers : v # w => handler'[v] = handler[v]
  BY <1>1
<1>4. \A v \in Workers : handler[v].left # {} =>
          /\ handler[v].key \in Keys
          /\ handler[v].opening \in 1..Len(openings'[handler[v].key])
  <2> SUFFICES ASSUME NEW v \in Workers, handler[v].left # {}
               PROVE  /\ handler[v].key \in Keys
                      /\ handler[v].opening \in 1..Len(openings'[handler[v].key])
    BY Zenon
  <2>1. handler[v].key \in Keys /\ handler[v].opening \in 1..Len(openings[handler[v].key])
    BY Zenon DEF Base, LocalsReady
  <2> DEFINE a == Len(openings[handler[v].key])
             b == Len(openings'[handler[v].key])
  <2>2. a \in Nat /\ b \in Nat /\ a <= b
    BY <2>1 DEF Base, TypeOK, WorldStep
  <2> HIDE DEF a, b
  <2>3. 1..a \subseteq 1..b
    BY <2>2
  <2> QED
    BY <2>1, <2>3, Zenon DEF a, b
<1>5. ASSUME NEW v \in Workers
      PROVE  /\ HandlerStep(v)
             /\ handler'[v].left # {} =>
                   /\ handler'[v].key \in Keys
                   /\ handler'[v].opening \in 1..Len(openings'[handler'[v].key])
  <2>1. CASE v = w
    BY <1>3, <2>1, Zenon DEF HandlerStep
  <2>2. CASE v # w
    BY <1>3, <1>4, <2>2, Zenon DEF HandlerStep
  <2> QED
    BY <2>1, <2>2, Zenon
<1> QED
  BY <1>2, <1>5, Zenon DEF HandlersStep

LEMMA RemainingShape ==
    ASSUME NEW h \in Handling, NEW left, left \subseteq Policies,
           NEW denied, denied = None \/ denied \in Requests
    PROVE  /\ Remaining(h, left, denied) \in Handling
           /\ Remaining(h, left, denied).left = left
           /\ Remaining(h, left, denied).denied = denied
<1> DEFINE g == Remaining(h, left, denied)
<1>1. CASE left = {} /\ denied = None
  <2>1. g = NoEvent
    BY <1>1, Zenon DEF Remaining
  <2> HIDE DEF g
  <2>2. g \in Handling /\ g.left = left /\ g.denied = denied /\ left = {}
    BY <1>1, <2>1, Constants, Zenon
  <2> QED
    BY <2>2, Zenon DEF g
<1>2. CASE ~(left = {} /\ denied = None)
  <2>1. g = [h EXCEPT !.left = left, !.denied = denied]
    BY <1>2, Zenon DEF Remaining
  <2> HIDE DEF g
  <2>2. g \in Handling /\ g.left = left /\ g.denied = denied
    BY <2>1 DEF Handling
  <2> QED
    BY <2>2, Zenon DEF g
<1> QED
  BY <1>1, <1>2, Zenon

LEMMA RemainingEvent ==
    ASSUME NEW h \in Handling, NEW left, left # {}, NEW denied
    PROVE  Remaining(h, left, denied).key = h.key /\ Remaining(h, left, denied).opening = h.opening
<1>1. Remaining(h, left, denied) = [h EXCEPT !.left = left, !.denied = denied]
  BY Zenon DEF Remaining
<1> QED
  BY <1>1 DEF Handling

LEMMA InsertRows ==
    ASSUME Base, NEW r \in Requests, NEW status \in {"pending", "denied"}, NEW nb \in Nat,
           nb <= clock + Duration[Policy(r)],
           rows' = IF rows[r].status # "absent" THEN rows
                   ELSE [rows EXCEPT ![r] = [status |-> status, notBefore |-> nb,
                             created |-> clock, claimed |-> 0, approvedBy |-> NoOne]],
           results' = results,
           status = "denied" /\ rows[r].status = "absent" =>
              /\ "rejected" \in Proposals[Policy(r)]
              /\ \E w \in Workers : handler'[w].denied = r
    PROVE  RowsStep
<1>1. /\ rows \in [Requests -> Row] /\ clock \in Times
      /\ results \in [Requests -> Result]
  BY DEF Base, TypeOK
<1>2. CASE rows[r].status # "absent"
  BY <1>2, RowsSame, Zenon
<1>3. CASE rows[r].status = "absent"
  <2> DEFINE row == [status |-> status, notBefore |-> nb, created |-> clock, claimed |-> 0,
                     approvedBy |-> NoOne]
  <2>1. rows' = [rows EXCEPT ![r] = row]
    BY <1>3, Zenon
  <2>2. /\ row \in Row /\ row.status = status /\ row.notBefore = nb /\ row.created = clock
        /\ row.claimed = 0
    BY <1>1, Constants DEF Row, Statuses, Final
  <2> HIDE DEF row
  <2>3. RowsTyped'
    BY <1>1, <2>1, <2>2 DEF RowsTyped
  <2>4. ASSUME NEW q \in Requests, q # r PROVE RowKept(q)
    BY <1>1, <2>1, <2>4 DEF RowKept
  <2>5. rows'[r] = row
    BY <1>1, <2>1, <2>2
  <2>6. RowInserted(r)
    BY <1>3, <2>2, <2>5, Zenon DEF RowInserted
  <2> QED
    BY <2>3, <2>4, <2>6, Zenon DEF RowsStep, RowStep
<1> QED
  BY <1>2, <1>3, Zenon

-----------------------------------------------------------------------------
(* The actions, one by one.                                                *)

LEMMA AlertEffects ==
    ASSUME Base, NEW k \in Keys, OpenAlert(k) \/ ResolveAlert(k) PROVE StepEffects
<1>1. /\ rows' = rows /\ results' = results /\ handler' = handler /\ tick' = tick
      /\ acted' = acted /\ faults' = faults /\ clock' = clock
      /\ openings' = openings \/ openings' = [openings EXCEPT ![k] = Append(openings[k], clock)]
      /\ firing' = [firing EXCEPT ![k] = TRUE] \/ firing' = [firing EXCEPT ![k] = FALSE]
  BY Zenon DEF OpenAlert, ResolveAlert, Base, TypeOK
<1>2. /\ clock \in Times /\ openings \in [Keys -> Seq(Times)] /\ firing \in [Keys -> BOOLEAN]
      /\ faults \in [{"crash", "store"} -> Nat]
  BY DEF Base, TypeOK
<1>3. firing' \in [Keys -> BOOLEAN]
  BY <1>1, <1>2, Zenon
<1>4. openings' \in [Keys -> Seq(Times)] /\ \A q \in Keys : Len(openings[q]) <= Len(openings'[q])
  <2> DEFINE o == Append(openings[k], clock)
  <2>1. openings[k] \in Seq(Times)
    BY <1>2, Zenon
  <2>2. o \in Seq(Times) /\ Len(openings[k]) <= Len(o)
    BY <1>2, <2>1
  <2> HIDE DEF o
  <2>3. \A q \in Keys : Len(openings[q]) <= Len(openings[q])
    BY <1>2
  <2>4. CASE openings' = [openings EXCEPT ![k] = o]
    <3>1. openings' \in [Keys -> Seq(Times)]
      BY <1>2, <2>2, <2>4, Zenon
    <3>2. \A q \in Keys : openings'[q] = IF q = k THEN o ELSE openings[q]
      BY <1>2, <2>4, Zenon
    <3> QED
      BY <2>2, <2>3, <3>1, <3>2, Zenon
  <2> QED
    BY <1>1, <1>2, <2>3, <2>4, Zenon DEF o
<1>5. clock' <= clock /\ clock <= clock' /\ \A kind \in {"crash", "store"} : faults[kind] <= faults'[kind]
  BY <1>1, <1>2 DEF Times
<1>6. \A q \in Keys : \A i \in 1..Len(openings'[q]) : openings'[q][i] <= clock
  <2> SUFFICES ASSUME NEW q \in Keys, NEW i \in 1..Len(openings'[q]) PROVE openings'[q][i] <= clock
    BY Zenon
  <2>1. openings[q] \in Seq(Times) /\ \A j \in 1..Len(openings[q]) : openings[q][j] <= clock
    BY <1>2, Zenon DEF Base, Dated
  <2>2. openings'[q] = openings[q] \/ openings'[q] = Append(openings[q], clock)
    BY <1>1, <1>2
  <2>3. CASE openings'[q] = openings[q]
    BY <2>1, <2>3, Zenon
  <2>4. CASE openings'[q] = Append(openings[q], clock)
    BY <1>5, <2>1, <2>4, <1>1, <1>2
  <2> QED
    BY <2>2, <2>3, <2>4
<1>7. WorldStep
  BY <1>1, <1>2, <1>3, <1>4, <1>5, <1>6, Zenon DEF WorldStep
<1> QED
  BY <1>1, <1>7, RowsSame, TicksSame, HandlersSame, ActedSame, Zenon DEF StepEffects

LEMMA AdvanceEffects == ASSUME Base, Advance PROVE StepEffects
<1>1. /\ rows' = rows /\ results' = results /\ handler' = handler /\ tick' = tick
      /\ acted' = acted /\ faults' = faults /\ openings' = openings /\ firing' = firing
  BY Zenon DEF Advance
<1>2. /\ clock \in Times /\ openings \in [Keys -> Seq(Times)] /\ firing \in [Keys -> BOOLEAN]
      /\ faults \in [{"crash", "store"} -> Nat]
  BY DEF Base, TypeOK
<1>3. clock' \in Times /\ clock <= clock'
  BY <1>2, AutomationAssumption DEF Advance, Times
<1>4. \A k \in Keys : Len(openings[k]) <= Len(openings[k])
  BY <1>2
<1>5. \A kind \in {"crash", "store"} : faults[kind] <= faults[kind]
  BY <1>2
<1>6. \A k \in Keys : \A i \in 1..Len(openings[k]) : openings[k][i] <= clock'
  <2> SUFFICES ASSUME NEW k \in Keys, NEW i \in 1..Len(openings[k]) PROVE openings[k][i] <= clock'
    BY Zenon
  <2>1. openings[k][i] <= clock
    BY Zenon DEF Base, Dated
  <2>2. openings[k] \in Seq(Times)
    BY <1>2, Zenon
  <2>3. openings[k][i] \in Times
    BY <2>2
  <2> QED
    BY <1>2, <1>3, <2>1, <2>3 DEF Times
<1>7. WorldStep
  BY <1>1, <1>2, <1>3, <1>4, <1>5, <1>6, Zenon DEF WorldStep
<1> QED
  BY <1>1, <1>7, RowsSame, TicksSame, HandlersSame, ActedSame, Zenon DEF StepEffects

LEMMA ReceiveEffects ==
    ASSUME Base, NEW w \in Workers, NEW k \in Keys, NEW n \in 1..MaxOpenings, Receive(w, k, n)
    PROVE  StepEffects
<1> DEFINE e == [NoEvent EXCEPT !.key = k, !.opening = n]
           left == {p \in Policies : k \in Trigger[p]}
           h == Remaining(e, left, None)
<1>1. /\ handler[w] = NoEvent /\ n <= Len(openings[k]) /\ handler' = [handler EXCEPT ![w] = h]
      /\ rows' = rows /\ results' = results /\ tick' = tick /\ clock' = clock
      /\ acted' = acted /\ faults' = faults /\ openings' = openings /\ firing' = firing
  BY Zenon DEF Receive
<1>2. e \in Handling /\ e.key = k /\ e.opening = n
  <2>1. NoEvent \in Handling
    BY Constants, Zenon
  <2>2. n \in 0..MaxOpenings
    BY AutomationAssumption
  <2> QED
    BY <2>1, <2>2 DEF Handling
<1>3. left \subseteq Policies
  OBVIOUS
<1> HIDE DEF e, left
<1>4. /\ h \in Handling /\ h.left = left
      /\ left # {} => h.key = e.key /\ h.opening = e.opening
  <2>1. h \in Handling /\ h.left = left
    BY <1>2, <1>3, RemainingShape
  <2>2. ASSUME left # {} PROVE h.key = e.key /\ h.opening = e.opening
    BY <1>2, <2>2, RemainingEvent, Zenon
  <2> QED
    BY <2>1, <2>2, Zenon
<1>5. WorldStep
  BY <1>1, WorldSame, Zenon
<1>6. n \in 1..Len(openings'[k])
  <2>1. Len(openings[k]) \in Nat /\ n \in Nat /\ 1 <= n
    BY AutomationAssumption DEF Base, TypeOK
  <2> QED
    BY <1>1, <2>1
<1> HIDE DEF h
<1>7. h.left # {} => h.key \in Keys /\ h.opening \in 1..Len(openings'[h.key])
  BY <1>2, <1>4, <1>6, Zenon
<1>8. handler[w].denied = None
  BY <1>1, Constants, Zenon
<1>9. HandlersStep
  BY <1>1, <1>4, <1>5, <1>7, <1>8, HandlerUpdate, Zenon
<1> QED
  BY <1>1, <1>5, <1>9, RowsSame, TicksSame, ActedSame, Zenon DEF StepEffects

LEMMA ProposeEffects ==
    ASSUME Base, NEW w \in Workers, NEW p \in Policies, Propose(w, p) PROVE StepEffects
<1> DEFINE h == handler[w]
           r == <<p, h.key, h.opening>>
           left == h.left \ {p}
           recorded == rows[r].status # "absent"
           nb == openings[h.key][h.opening] + Duration[p]
           Row2(status, notBefore) ==
              [status |-> status, notBefore |-> notBefore, created |-> clock, claimed |-> 0,
               approvedBy |-> NoOne]
<1>1. /\ p \in h.left /\ h.denied = None
      /\ results' = results /\ tick' = tick /\ clock' = clock
      /\ acted' = acted /\ faults' = faults /\ openings' = openings /\ firing' = firing
  BY Zenon DEF Propose
<1>2. \/ handler' = [handler EXCEPT ![w] = NoEvent] /\ rows' = rows
      \/ handler' = [handler EXCEPT ![w] = Remaining(h, left, None)] /\ rows' = rows
      \/ /\ rows' = IF recorded THEN rows ELSE [rows EXCEPT ![r] = Row2("pending", nb)]
         /\ handler' = [handler EXCEPT ![w] = Remaining(h, left, None)]
      \/ /\ "rejected" \in Proposals[p]
         /\ rows' = IF recorded THEN rows ELSE [rows EXCEPT ![r] = Row2("denied", clock)]
         /\ handler' = [handler EXCEPT ![w] = Remaining(h, left, IF recorded THEN None ELSE r)]
  BY Zenon DEF Propose
<1>3. /\ handler \in [Workers -> Handling] /\ h \in Handling /\ left \subseteq Policies
      /\ openings \in [Keys -> Seq(Times)] /\ clock \in Nat
  BY AutomationAssumption DEF Base, TypeOK, Handling, Times
<1>4. h.key \in Keys /\ h.opening \in 1..Len(openings[h.key])
  BY <1>1, Zenon DEF Base, LocalsReady
<1>5. r \in Requests /\ Policy(r) = p
  <2>1. h.opening \in 1..MaxOpenings
    <3>1. h.opening \in 0..MaxOpenings /\ Len(openings[h.key]) \in Nat
      BY <1>3, <1>4 DEF Handling
    <3> QED
      BY <1>4, <3>1, AutomationAssumption
  <2> QED
    BY <1>4, <2>1 DEF Requests, Policy
<1>6. /\ nb \in Nat /\ nb <= clock + Duration[Policy(r)]
      /\ clock <= clock + Duration[Policy(r)]
  <2>1. openings[h.key][h.opening] \in Times /\ openings[h.key][h.opening] <= clock
    BY <1>3, <1>4 DEF Base, Dated
  <2>2. Duration[p] \in Nat /\ Duration[Policy(r)] = Duration[p]
    BY <1>5, AutomationAssumption
  <2>3. openings[h.key][h.opening] \in Nat
    BY <2>1, AutomationAssumption DEF Times
  <2> DEFINE o == openings[h.key][h.opening]
             u == Duration[p]
  <2>4. o \in Nat /\ u \in Nat /\ o <= clock /\ clock \in Nat
    BY <1>3, <2>1, <2>2, <2>3, Zenon
  <2> HIDE DEF o, u
  <2>5. o + u \in Nat /\ o + u <= clock + u /\ clock <= clock + u
    BY <2>4
  <2> QED
    BY <2>2, <2>5, Zenon DEF o, u
<1>7. WorldStep
  BY <1>1, WorldSame, Zenon
<1> HIDE DEF r, left, nb, h
<1>8. ASSUME NEW d, d = None \/ d \in Requests,
             handler' = [handler EXCEPT ![w] = Remaining(h, left, d)]
      PROVE  HandlersStep /\ handler'[w].denied = d
  <2> DEFINE g == Remaining(h, left, d)
  <2>1. /\ g \in Handling /\ g.left = left /\ g.denied = d
        /\ left # {} => g.key = h.key /\ g.opening = h.opening
    <3>1. g \in Handling /\ g.left = left /\ g.denied = d
      BY <1>3, <1>8, RemainingShape
    <3>2. ASSUME left # {} PROVE g.key = h.key /\ g.opening = h.opening
      BY <1>3, <3>2, RemainingEvent, Zenon
    <3> QED
      BY <3>1, <3>2, Zenon
  <2> HIDE DEF g
  <2>2. g.left # {} => g.key \in Keys /\ g.opening \in 1..Len(openings'[g.key])
    BY <1>1, <1>4, <2>1, Zenon
  <2>3. handler[w].denied = None
    BY <1>1, Zenon DEF h
  <2>4. handler' = [handler EXCEPT ![w] = g]
    BY <1>8, Zenon DEF g
  <2>5. HandlersStep
    BY <1>7, <2>1, <2>2, <2>3, <2>4, HandlerUpdate, Zenon
  <2>6. handler'[w] = g
    BY <1>3, <2>4
  <2> QED
    BY <2>1, <2>5, <2>6, Zenon
<1>9. HandlersStep /\ RowsStep
  <2>1. CASE handler' = [handler EXCEPT ![w] = NoEvent] /\ rows' = rows
    <3>1. handler[w].denied = None
      BY <1>1, Zenon DEF h
    <3>2. HandlersStep
      BY <1>7, <2>1, <3>1, Constants, HandlerUpdate, Zenon
    <3> QED
      BY <1>1, <2>1, <3>2, RowsSame, Zenon
  <2>2. CASE handler' = [handler EXCEPT ![w] = Remaining(h, left, None)] /\ rows' = rows
    BY <1>1, <1>8, <2>2, RowsSame, Zenon
  <2>3. CASE /\ rows' = IF recorded THEN rows ELSE [rows EXCEPT ![r] = Row2("pending", nb)]
             /\ handler' = [handler EXCEPT ![w] = Remaining(h, left, None)]
    <3>1. HandlersStep
      BY <1>8, <2>3, Zenon
    <3>2. "pending" # "denied"
      OBVIOUS
    <3>3. RowsStep
      BY <1>1, <1>5, <1>6, <2>3, <3>2, InsertRows, Zenon
    <3> QED
      BY <3>1, <3>3, Zenon
  <2>4. CASE /\ "rejected" \in Proposals[p]
             /\ rows' = IF recorded THEN rows ELSE [rows EXCEPT ![r] = Row2("denied", clock)]
             /\ handler' = [handler EXCEPT ![w] = Remaining(h, left, IF recorded THEN None ELSE r)]
    <3> DEFINE d == IF recorded THEN None ELSE r
    <3>1. (d = None \/ d \in Requests) /\ (rows[r].status = "absent" => d = r)
      BY <1>5, Zenon
    <3>2. handler' = [handler EXCEPT ![w] = Remaining(h, left, d)]
      BY <2>4, Zenon
    <3> HIDE DEF d
    <3>3. HandlersStep /\ handler'[w].denied = d
      BY <1>8, <3>1, <3>2, Zenon
    <3>4. RowsStep
      BY <1>1, <1>3, <1>5, <1>6, <2>4, <3>1, <3>3, InsertRows, Zenon
    <3> QED
      BY <3>3, <3>4, Zenon
  <2> QED
    BY <1>2, <2>1, <2>2, <2>3, <2>4, Zenon DEF h, r, left, nb
<1> QED
  BY <1>1, <1>7, <1>9, TicksSame, ActedSame, Zenon DEF StepEffects

LEMMA FinishDeniedEffects == ASSUME Base, NEW w \in Workers, FinishDenied(w) PROVE StepEffects
<1> DEFINE h == handler[w]
           g == Remaining(h, h.left, None)
<1>1. /\ h.denied # None /\ Complete(h.denied, "denied", clock)
      /\ tick' = tick /\ clock' = clock /\ acted' = acted /\ faults' = faults
      /\ openings' = openings /\ firing' = firing
  BY Zenon DEF FinishDenied
<1>2. handler \in [Workers -> Handling] /\ h \in Handling /\ h.left \subseteq Policies
      /\ h.denied \in Requests
  BY <1>1 DEF Base, TypeOK, Handling
<1>3. handler' = [handler EXCEPT ![w] = g]
  BY <1>2 DEF FinishDenied
<1> HIDE DEF h
<1>4. g \in Handling /\ g.left = h.left
  BY <1>2, RemainingShape
<1>5. ASSUME h.left # {} PROVE g.key = h.key /\ g.opening = h.opening
  BY <1>2, <1>5, RemainingEvent, Zenon
<1> HIDE DEF g
<1>6. "denied" \in Final /\ clock \in Times
  BY DEF Final, Base, TypeOK
<1>7. RowsStep /\ results'[h.denied] # NoResult
  BY <1>1, <1>2, <1>6, CompleteRows, Zenon
<1>8. WorldStep
  BY <1>1, WorldSame, Zenon
<1>9. h.left # {} => h.key \in Keys /\ h.opening \in 1..Len(openings[h.key])
  BY Zenon DEF Base, LocalsReady, h
<1>10. g.left # {} => g.key \in Keys /\ g.opening \in 1..Len(openings'[g.key])
  BY <1>1, <1>4, <1>5, <1>9, Zenon
<1>11. results'[handler[w].denied] # NoResult
  BY <1>7, Zenon DEF h
<1>12. HandlersStep
  BY <1>3, <1>4, <1>8, <1>10, <1>11, HandlerUpdate, Zenon
<1> QED
  BY <1>1, <1>7, <1>8, <1>12, TicksSame, ActedSame, Zenon DEF StepEffects

\* A fault only adds to its counter.
LEMMA FaultWorld ==
    ASSUME Base, NEW kind \in {"crash", "store"}, NEW max, Fault(kind, max),
           clock' = clock, openings' = openings, firing' = firing
    PROVE  WorldStep /\ Faulty' /\ faults'[kind] > 0
<1>1. /\ clock \in Times /\ openings \in [Keys -> Seq(Times)] /\ firing \in [Keys -> BOOLEAN]
      /\ faults \in [{"crash", "store"} -> Nat]
  BY DEF Base, TypeOK
<1>2. faults' = [faults EXCEPT ![kind] = faults[kind] + 1]
  BY <1>1 DEF Fault
<1>3. /\ faults' \in [{"crash", "store"} -> Nat] /\ faults'[kind] > 0
      /\ \A x \in {"crash", "store"} : faults[x] <= faults'[x]
  BY <1>1, <1>2
<1>4. clock <= clock
  BY <1>1 DEF Times
<1>5. \A k \in Keys : Len(openings[k]) <= Len(openings[k])
  BY <1>1
<1>6. Faulty'
  BY <1>3, Zenon DEF Faulty
<1>7. \A k \in Keys : \A i \in 1..Len(openings[k]) : openings[k][i] <= clock
  BY Zenon DEF Base, Dated
<1> QED
  BY <1>1, <1>3, <1>4, <1>5, <1>6, <1>7, Zenon DEF WorldStep

LEMMA DroppedHandler ==
    ASSUME Base, WorldStep, Faulty', NEW w \in Workers, handler' = [handler EXCEPT ![w] = NoEvent]
    PROVE  HandlersStep
  BY Constants, HandlerUpdate, Zenon

LEMMA HandlerFailsEffects == ASSUME Base, NEW w \in Workers, HandlerFails(w) PROVE StepEffects
<1>1. /\ Fault("store", MaxFaults) /\ handler' = [handler EXCEPT ![w] = NoEvent]
      /\ rows' = rows /\ results' = results /\ tick' = tick /\ clock' = clock /\ acted' = acted
      /\ openings' = openings /\ firing' = firing
  BY Zenon DEF HandlerFails
<1>2. WorldStep /\ Faulty'
  BY <1>1, FaultWorld, Zenon
<1> QED
  BY <1>1, <1>2, DroppedHandler, RowsSame, TicksSame, ActedSame, Zenon DEF StepEffects

LEMMA CrashEffects == ASSUME Base, NEW w \in Workers, Crash(w) PROVE StepEffects
<1>1. /\ Fault("crash", MaxCrashes) /\ handler' = [handler EXCEPT ![w] = NoEvent]
      /\ tick' = [tick EXCEPT ![w] = Idle]
      /\ rows' = rows /\ results' = results /\ clock' = clock /\ acted' = acted
      /\ openings' = openings /\ firing' = firing
  BY Zenon DEF Crash
<1>2. WorldStep /\ Faulty'
  BY <1>1, FaultWorld, Zenon
<1> QED
  BY <1>1, <1>2, DroppedHandler, RowsSame, IdleTicks, ActedSame, Zenon DEF StepEffects

LEMMA StoreFailsEffects == ASSUME Base, NEW w \in Workers, StoreFails(w) PROVE StepEffects
<1> DEFINE to == IF tick[w].approvedBy = NoOne THEN "pending" ELSE "approved"
<1>1. /\ Fault("store", MaxFaults) /\ tick' = [tick EXCEPT ![w] = Idle]
      /\ \/ tick[w].step \in {"alert", "limits"} /\ SetStatus(tick[w].req, to)
         \/ rows' = rows
      /\ handler' = handler /\ results' = results /\ clock' = clock /\ acted' = acted
      /\ openings' = openings /\ firing' = firing
  BY Zenon DEF StoreFails
<1>2. to \in {"awaiting_approval", "pending", "approved"}
  BY Zenon
<1> HIDE DEF to
<1>3. WorldStep /\ faults'["store"] > 0
  BY <1>1, FaultWorld, Zenon
<1>4. RowsStep
  <2>1. CASE rows' = rows
    BY <1>1, <2>1, RowsSame, Zenon
  <2>2. CASE tick[w].step \in {"alert", "limits"} /\ SetStatus(tick[w].req, to)
    <3>1. tick[w].req \in Requests
      BY <2>2, Zenon DEF Base, LocalsReady, Working, Processing
    <3> QED
      BY <1>1, <1>2, <1>3, <2>2, <3>1, SetStatusRows, Zenon
  <2> QED
    BY <1>1, <2>1, <2>2, Zenon
<1> QED
  BY <1>1, <1>3, <1>4, IdleTicks, HandlersSame, ActedSame, Zenon DEF StepEffects

LEMMA TickStartEffects == ASSUME Base, NEW w \in Workers, TickStart(w) PROVE StepEffects
<1> DEFINE wait == { r \in Requests : TimedOut(r, clock) }
           t == [Idle EXCEPT !.step = "expire", !.now = clock, !.waiting = wait]
<1>1. /\ tick' = [tick EXCEPT ![w] = t]
      /\ rows' = rows /\ results' = results /\ clock' = clock /\ acted' = acted
      /\ openings' = openings /\ firing' = firing /\ handler' = handler /\ faults' = faults
  BY Zenon DEF TickStart
<1>2. wait \in SUBSET Requests /\ clock \in Times /\ Idle \in Locals
  BY Constants DEF Base, TypeOK
<1> HIDE DEF wait
<1>3. t \in Locals /\ t.step = "expire" /\ t.due = Idle.due /\ t.at = Idle.at /\ t.now = clock
  BY <1>2 DEF Locals
<1> HIDE DEF t
<1>4. IsFiniteSet(t.due) /\ Cardinality(t.due) <= BatchSize /\ t.step # "record"
  BY <1>3, Constants, FS_EmptySet, AutomationAssumption
<1>5. TicksTyped' /\ tick'[w] = t /\ \A v \in Workers \ {w} : tick'[v] = tick[v]
  BY <1>1, <1>3, <1>4, TickUpdate, Zenon
<1>6. TickLeft(w)
  BY <1>3, <1>5, Constants DEF TickLeft, Processing
<1>7. TicksStep
  BY <1>5, <1>6, Zenon DEF TicksStep, TickStep
<1>8. WorldStep
  BY <1>1, WorldSame, Zenon
<1> QED
  BY <1>1, <1>7, <1>8, RowsSame, HandlersSame, ActedSame, Zenon DEF StepEffects

LEMMA ExpireEffects ==
    ASSUME Base, NEW w \in Workers, NEW r \in Requests, ExpireApproval(w, r) PROVE StepEffects
<1> DEFINE wait == tick[w].waiting \ {r}
           t == [tick[w] EXCEPT !.waiting = wait]
<1>1. /\ Complete(r, "expired", tick[w].now) /\ tick[w].step = "expire"
      /\ clock' = clock /\ acted' = acted /\ tick' = [tick EXCEPT ![w] = t]
      /\ openings' = openings /\ firing' = firing /\ handler' = handler /\ faults' = faults
  BY DEF ExpireApproval, Base, TypeOK
<1>2. /\ tick[w] \in Locals /\ IsFiniteSet(tick[w].due)
      /\ Cardinality(tick[w].due) <= BatchSize
  BY DEF Base, TypeOK, LocalsReady
<1>3. wait \in SUBSET Requests /\ tick[w].now \in Times
  BY <1>2 DEF Locals
<1> HIDE DEF wait
<1>4. /\ t \in Locals /\ t.step = "expire" /\ t.due = tick[w].due /\ t.at = tick[w].at
      /\ t.now = tick[w].now /\ t.step # "record"
  BY <1>1, <1>2, <1>3 DEF Locals
<1> HIDE DEF t
<1>5. TicksTyped' /\ tick'[w] = t /\ \A v \in Workers \ {w} : tick'[v] = tick[v]
  BY <1>1, <1>2, <1>4, TickUpdate, Zenon
<1>6. TickLeft(w)
  BY <1>4, <1>5 DEF TickLeft, Processing
<1>7. TicksStep
  BY <1>5, <1>6, Zenon DEF TicksStep, TickStep
<1>8. WorldStep
  BY <1>1, WorldSame, Zenon
<1>9. "expired" \in Final
  BY DEF Final
<1>10. RowsStep
  BY <1>1, <1>3, <1>9, CompleteRows, Zenon
<1> QED
  BY <1>1, <1>7, <1>8, <1>10, HandlersSame, ActedSame, Zenon DEF StepEffects

\* What a batch read of the table is, and that it is no larger than allowed.
LEMMA BatchShape ==
    ASSUME Base, NEW all, all \subseteq Requests, NEW batch \in Batches(all)
    PROVE  LET due == { [req |-> r, approvedBy |-> rows[r].approvedBy,
                         created |-> rows[r].created] : r \in batch }
           IN  /\ due \in SUBSET DueRow /\ IsFiniteSet(due) /\ Cardinality(due) <= BatchSize
               /\ batch \subseteq all
<1> DEFINE R(r) == [req |-> r, approvedBy |-> rows[r].approvedBy, created |-> rows[r].created]
           due == { R(r) : r \in batch }
           f == [r \in batch |-> R(r)]
<1>1. /\ batch \subseteq all /\ batch \subseteq Requests
      /\ Cardinality(batch) = IF Cardinality(all) < BatchSize THEN Cardinality(all) ELSE BatchSize
  BY DEF Batches
<1>2. IsFiniteSet(all) /\ IsFiniteSet(batch)
  BY <1>1, RequestsFinite, FS_Subset
<1>3. Cardinality(batch) <= BatchSize /\ Cardinality(batch) \in Nat
  <2>1. Cardinality(all) \in Nat /\ Cardinality(batch) \in Nat
    BY <1>2, FS_CardinalityType
  <2> QED
    BY <1>1, <2>1, AutomationAssumption
<1>4. \A r \in batch : R(r) \in DueRow
  BY <1>1 DEF Base, TypeOK, Row, DueRow
<1>5. f \in Surjection(batch, due)
  BY Zenon DEF Surjection
<1>6. IsFiniteSet(due) /\ Cardinality(due) <= Cardinality(batch) /\ Cardinality(due) \in Nat
  <2> HIDE DEF f, due
  <2> QED
    BY <1>2, <1>5, FS_Surjection, FS_CardinalityType
<1>7. Cardinality(due) <= BatchSize
  <2> HIDE DEF due
  <2> QED
    BY <1>3, <1>6, AutomationAssumption
<1>8. due \in SUBSET DueRow
  BY <1>4, Zenon
<1> QED
  BY <1>1, <1>6, <1>7, <1>8, Zenon

LEMMA FetchDueEffects == ASSUME Base, NEW w \in Workers, FetchDue(w) PROVE StepEffects
<1> DEFINE all == { r \in Requests : Due(r, tick[w].now) }
           R(r) == [req |-> r, approvedBy |-> rows[r].approvedBy, created |-> rows[r].created]
<1>1. /\ rows' = rows /\ results' = results /\ clock' = clock /\ acted' = acted
      /\ openings' = openings /\ firing' = firing /\ handler' = handler /\ faults' = faults
  BY Zenon DEF FetchDue
<1>2. tick \in [Workers -> Locals]
  BY DEF Base, TypeOK
<1>3. PICK batch \in Batches(all) :
         tick' = [tick EXCEPT ![w] = Onward(tick[w], { R(r) : r \in batch })]
  BY <1>2 DEF FetchDue
<1> DEFINE due == { R(r) : r \in batch }
<1>4. all \subseteq Requests
  OBVIOUS
<1>5. /\ due \in SUBSET DueRow /\ IsFiniteSet(due) /\ Cardinality(due) <= BatchSize
      /\ batch \subseteq all
  <2> HIDE DEF all
  <2> QED
    BY <1>4, BatchShape, Zenon
<1>6. \A r \in batch : rows[r].status # "absent"
  BY <1>5 DEF Due, Abandoned
<1>7. \A d \in due : rows[d.req].status # "absent" /\ d.approvedBy = rows[d.req].approvedBy
  BY <1>6
<1> HIDE DEF due
<1>8. tick' = [tick EXCEPT ![w] = Onward(tick[w], due)]
  BY <1>3, Zenon DEF due
<1>9. TicksStep
  BY <1>5, <1>7, <1>8, OnwardTicks, Zenon
<1>10. WorldStep
  BY <1>1, WorldSame, Zenon
<1> QED
  BY <1>1, <1>9, <1>10, RowsSame, HandlersSame, ActedSame, Zenon DEF StepEffects

LEMMA ClaimEffects ==
    ASSUME Base, NEW w \in Workers, NEW d \in tick[w].due, Claim(w, d) PROVE StepEffects
<1> DEFINE r == d.req
           now == tick[w].now
           rest == tick[w].due \ {d}
<1>1. /\ results' = results /\ clock' = clock /\ acted' = acted
      /\ openings' = openings /\ firing' = firing /\ handler' = handler /\ faults' = faults
  BY Zenon DEF Claim
<1>2. /\ rows \in [Requests -> Row] /\ tick \in [Workers -> Locals] /\ tick[w] \in Locals
      /\ IsFiniteSet(tick[w].due) /\ Cardinality(tick[w].due) <= BatchSize /\ clock \in Times
      /\ results \in [Requests -> Result]
  BY DEF Base, TypeOK, LocalsReady
<1>3. d \in DueRow /\ r \in Requests /\ now \in Times /\ rest \in SUBSET DueRow /\ now <= clock
  BY <1>2 DEF Locals, DueRow, Base, Dated
<1>4. IsFiniteSet(rest) /\ Cardinality(rest) <= BatchSize
  <2>1. IsFiniteSet(rest) /\ Cardinality(rest) = Cardinality(tick[w].due) - 1
    BY <1>2, FS_RemoveElement
  <2>2. Cardinality(tick[w].due) \in Nat /\ Cardinality(rest) \in Nat
    BY <1>2, <2>1, FS_CardinalityType
  <2> QED
    BY <1>2, <2>1, <2>2, AutomationAssumption
<1>5. WorldStep
  BY <1>1, WorldSame, Zenon
<1>6. CASE ~Claimable(r, now)
  <2>1. rows' = rows /\ tick' = [tick EXCEPT ![w] = Onward(tick[w], rest)]
    BY <1>2, <1>6 DEF Claim
  <2>2. TicksStep
    BY <1>3, <1>4, <2>1, OnwardTicks, Zenon
  <2> QED
    BY <1>1, <1>5, <2>1, <2>2, RowsSame, HandlersSame, ActedSame, Zenon DEF StepEffects
<1>7. CASE Claimable(r, now)
  <2> DEFINE row == [rows[r] EXCEPT !.status = "executing", !.claimed = now]
             t == [tick[w] EXCEPT !.due = rest, !.step = "alert", !.req = r,
                                  !.approvedBy = d.approvedBy, !.at = clock]
  <2>1. rows' = [rows EXCEPT ![r] = row] /\ tick' = [tick EXCEPT ![w] = t]
    <3>1. /\ rows' = [rows EXCEPT ![r].status = "executing", ![r].claimed = now]
          /\ tick' = [tick EXCEPT ![w].due = tick[w].due \ {d}, ![w].step = "alert",
                                  ![w].req = r, ![w].approvedBy = d.approvedBy, ![w].at = clock]
      BY <1>2, <1>7 DEF Claim
    <3> QED
      BY <1>2, <1>3, <3>1
  <2>2. row \in Row /\ row.status = "executing" /\ row.claimed = now
    <3>1. rows[r] \in Row
      BY <1>2, <1>3, Zenon
    <3> HIDE DEF r, now
    <3> QED
      BY <1>3, <3>1 DEF Row, Statuses
  <2> HIDE DEF rest
  <2>3. /\ t \in Locals /\ t.step = "alert" /\ t.req = r /\ t.approvedBy = d.approvedBy
        /\ t.at = clock /\ t.due = rest /\ t.now = now /\ t.step # "record"
    BY <1>2, <1>3 DEF Locals, DueRow
  <2>4. rest \subseteq tick[w].due
    BY DEF rest
  <2> HIDE DEF t, row, now, r
  <2>5. RowsTyped'
    BY <1>1, <1>2, <1>3, <2>1, <2>2 DEF RowsTyped
  <2>6. ASSUME NEW q \in Requests, q # r PROVE RowKept(q)
    BY <1>1, <1>2, <2>1, <2>6 DEF RowKept
  <2>7. rows'[r] = row
    BY <1>2, <1>3, <2>1
  <2>8. RowClaimed(r)
    BY <1>1, <1>3, <1>7, <2>7, Zenon DEF RowClaimed, row
  <2>9. RowsStep
    BY <2>5, <2>6, <2>8, Zenon DEF RowsStep, RowStep
  <2>10. TicksTyped' /\ tick'[w] = t /\ \A v \in Workers \ {w} : tick'[v] = tick[v]
    BY <1>4, <2>1, <2>3, TickUpdate, Zenon
  <2>11. TickTook(w)
    BY <1>7, <2>2, <2>3, <2>4, <2>7, <2>10, Zenon DEF TickTook, r, now
  <2>12. TicksStep
    BY <2>10, <2>11, Zenon DEF TicksStep, TickStep
  <2> QED
    BY <1>1, <1>5, <2>9, <2>12, HandlersSame, ActedSame, Zenon DEF StepEffects
<1> QED
  BY <1>6, <1>7, Zenon

\* The tick ends its request with a result.
LEMMA EndEffects ==
    ASSUME Base, NEW w \in Workers, NEW status \in Final, NEW finished \in Times, Working(w),
           Complete(tick[w].req, status, finished), NextOfBatch(w),
           UNCHANGED <<clock, openings, firing, handler, acted, faults>>
    PROVE  StepEffects
<1>1. /\ clock' = clock /\ acted' = acted
      /\ openings' = openings /\ firing' = firing /\ handler' = handler /\ faults' = faults
  BY Zenon
<1>2. tick[w].req \in Requests
  BY Zenon DEF Base, LocalsReady
<1>3. WorldStep
  BY <1>1, WorldSame, Zenon
<1>4. RowsStep
  BY <1>2, CompleteRows, Zenon
<1> QED
  BY <1>1, <1>3, <1>4, NextOfBatchTicks, HandlersSame, ActedSame, Zenon DEF StepEffects

LEMMA RefuseEffects == ASSUME Base, NEW w \in Workers, Refuse(w) PROVE StepEffects
<1>1. "denied" \in Final /\ clock \in Times
  BY DEF Final, Base, TypeOK
<1>2. Working(w)
  BY Zenon DEF Refuse, Working, Processing
<1> QED
  BY <1>1, <1>2, EndEffects, Zenon DEF Refuse

LEMMA FinishEffects == ASSUME Base, NEW w \in Workers, Finish(w) PROVE StepEffects
<1>1. tick[w].outcome \in Executed /\ tick[w].finished \in Times
  BY DEF Finish, Base, TypeOK, LocalsReady, Locals
<1>2. tick[w].outcome \in Final
  BY <1>1 DEF Final
<1>3. Working(w)
  BY Zenon DEF Finish, Working, Processing
<1> QED
  BY <1>1, <1>2, <1>3, EndEffects, Zenon DEF Finish

\* The tick passes a gate and nothing else happens.
LEMMA PassEffects ==
    ASSUME Base, NEW w \in Workers, NEW s \in Processing, Working(w),
           tick' = [tick EXCEPT ![w].step = s], s # "record",
           \/ s \in {"alert", "limits"}
           \/ tick[w].step = "limits" /\ ~OverLimits(tick[w].req, tick[w].at)
           \/ tick[w].step \in {"approval", "execute"},
           UNCHANGED <<clock, openings, firing, rows, results, handler, faults>>, ActedStep
    PROVE  StepEffects
<1>1. /\ clock' = clock /\ rows' = rows /\ results' = results
      /\ openings' = openings /\ firing' = firing /\ handler' = handler /\ faults' = faults
  BY Zenon
<1>2. tick' = [tick EXCEPT ![w] = [tick[w] EXCEPT !.step = s]]
  BY Zenon
<1>3. TicksStep
  BY <1>2, PassTicks, Zenon
<1>4. WorldStep
  BY <1>1, WorldSame, Zenon
<1> QED
  BY <1>1, <1>3, <1>4, RowsSame, HandlersSame, Zenon DEF StepEffects

LEMMA ReturnedEffects ==
    ASSUME Base, NEW w \in Workers, NEW status \in Executed, Returned(w, status) PROVE StepEffects
<1>1. /\ clock' = clock /\ rows' = rows /\ results' = results /\ acted' = acted
      /\ openings' = openings /\ firing' = firing /\ handler' = handler /\ faults' = faults
      /\ tick[w].step = "execute"
  BY Zenon DEF Returned
<1>2. tick \in [Workers -> Locals] /\ tick[w] \in Locals /\ clock \in Times
  BY DEF Base, TypeOK
<1> DEFINE t == [tick[w] EXCEPT !.step = "record", !.outcome = status, !.finished = clock]
<1>3. tick' = [tick EXCEPT ![w] = t] /\ IsFiniteSet(tick[w].due) /\ Cardinality(tick[w].due) <= BatchSize
  BY <1>2 DEF Returned, Base, TypeOK, LocalsReady
<1>4. /\ t \in Locals /\ t.step = "record" /\ t.outcome = status
      /\ t.req = tick[w].req /\ t.approvedBy = tick[w].approvedBy
      /\ t.now = tick[w].now /\ t.at = tick[w].at /\ t.due = tick[w].due
  BY <1>2 DEF Locals
<1> HIDE DEF t
<1>5. TicksStep
  <2>1. TicksTyped' /\ tick'[w] = t /\ \A v \in Workers \ {w} : tick'[v] = tick[v]
    BY <1>3, <1>4, TickUpdate, Zenon
  <2>2. TickPassed(w)
    BY <1>1, <1>4, <2>1, Zenon DEF TickPassed, Working, Processing
  <2> QED
    BY <2>1, <2>2, Zenon DEF TicksStep, TickStep
<1>6. WorldStep
  BY <1>1, WorldSame, Zenon
<1> QED
  BY <1>1, <1>5, <1>6, RowsSame, HandlersSame, ActedSame, Zenon DEF StepEffects

LEMMA CheckAlertEffects == ASSUME Base, NEW w \in Workers, CheckAlert(w) PROVE StepEffects
<1>1. Working(w) /\ "limits" \in Processing /\ "limits" # "record" /\ clock \in Times
  BY Zenon DEF CheckAlert, Working, Processing, Base, TypeOK
<1>2. CASE firing[Key(tick[w].req)]
  <2>1. /\ tick' = [tick EXCEPT ![w].step = "limits"] /\ acted' = acted
        /\ UNCHANGED <<clock, openings, firing, rows, results, handler, faults>>
    BY <1>2, Zenon DEF CheckAlert
  <2> QED
    BY <1>1, <2>1, ActedSame, PassEffects, Zenon
<1>3. CASE ~firing[Key(tick[w].req)]
  <2>1. "expired" \in Final
    BY DEF Final
  <2> QED
    BY <1>1, <1>3, <2>1, EndEffects, Zenon DEF CheckAlert
<1> QED
  BY <1>2, <1>3, Zenon

LEMMA CheckLimitsEffects == ASSUME Base, NEW w \in Workers, CheckLimits(w) PROVE StepEffects
<1>1. /\ Working(w) /\ "approval" \in Processing /\ tick[w].step = "limits"
      /\ "approval" # "record" /\ clock \in Times
  BY Zenon DEF CheckLimits, Working, Processing, Base, TypeOK
<1>2. CASE ~OverLimits(tick[w].req, tick[w].at)
  <2>1. /\ tick' = [tick EXCEPT ![w].step = "approval"] /\ acted' = acted
        /\ UNCHANGED <<clock, openings, firing, rows, results, handler, faults>>
    BY <1>2, Zenon DEF CheckLimits
  <2> QED
    BY <1>1, <1>2, <2>1, ActedSame, PassEffects, Zenon
<1>3. CASE OverLimits(tick[w].req, tick[w].at)
  <2>1. "denied" \in Final
    BY DEF Final
  <2> QED
    BY <1>1, <1>3, <2>1, EndEffects, Zenon DEF CheckLimits
<1> QED
  BY <1>2, <1>3, Zenon

LEMMA AwaitApprovalEffects == ASSUME Base, NEW w \in Workers, AwaitApproval(w) PROVE StepEffects
<1>1. /\ clock' = clock /\ acted' = acted /\ results' = results
      /\ openings' = openings /\ firing' = firing /\ handler' = handler /\ faults' = faults
      /\ SetStatus(tick[w].req, "awaiting_approval") /\ NextOfBatch(w)
      /\ NeedsApproval[Policy(tick[w].req)]
  BY Zenon DEF AwaitApproval, MissesApproval
<1>2. tick[w].req \in Requests
  BY Zenon DEF AwaitApproval, Base, LocalsReady, Working, Processing
<1>3. WorldStep
  BY <1>1, WorldSame, Zenon
<1>4. RowsStep
  BY <1>1, <1>2, SetStatusRows, Zenon
<1> QED
  BY <1>1, <1>3, <1>4, NextOfBatchTicks, HandlersSame, ActedSame, Zenon DEF StepEffects

LEMMA ExecuteEffects == ASSUME Base, NEW w \in Workers, Execute(w) PROVE StepEffects
<1>1. Working(w) /\ "execute" \in Processing /\ tick[w].step = "approval" /\ "execute" # "record"
  BY Zenon DEF Execute, Working, Processing
<1>2. tick[w].req \in Requests /\ acted \subseteq Requests
  BY <1>1, Zenon DEF Base, TypeOK, LocalsReady
<1>3. ActedStep
  BY <1>1, <1>2, Zenon DEF Execute, ActedStep
<1> QED
  BY <1>1, <1>3, PassEffects, Zenon DEF Execute

LEMMA ApproveEffects ==
    ASSUME Base, NEW r \in Requests, NEW by \in Approvers, Approve(r, by) PROVE StepEffects
<1> DEFINE row == [rows[r] EXCEPT !.status = "approved", !.approvedBy = by]
<1>1. /\ results' = results /\ clock' = clock /\ acted' = acted /\ tick' = tick
      /\ openings' = openings /\ firing' = firing /\ handler' = handler /\ faults' = faults
      /\ rows[r].status = "awaiting_approval"
  BY Zenon DEF Approve
<1>2. /\ rows \in [Requests -> Row]
      /\ results \in [Requests -> Result]
  BY DEF Base, TypeOK
<1>3. rows' = [rows EXCEPT ![r] = row]
  BY <1>2 DEF Approve
<1>4. row \in Row
  <2>1. rows[r] \in Row /\ "approved" \in Statuses
    BY <1>2 DEF Statuses
  <2> QED
    BY <2>1 DEF Row
<1> HIDE DEF row
<1>5. RowsTyped'
  BY <1>1, <1>2, <1>3, <1>4 DEF RowsTyped
<1>6. ASSUME NEW q \in Requests, q # r PROVE RowKept(q)
  BY <1>1, <1>2, <1>3, <1>6 DEF RowKept
<1>7. rows'[r] = row
  BY <1>2, <1>3
<1>8. RowApproved(r)
  BY <1>1, <1>7, Zenon DEF RowApproved, row
<1>9. RowsStep
  BY <1>5, <1>6, <1>8, Zenon DEF RowsStep, RowStep
<1>10. WorldStep
  BY <1>1, WorldSame, Zenon
<1> QED
  BY <1>1, <1>9, <1>10, TicksSame, HandlersSame, ActedSame, Zenon DEF StepEffects

-----------------------------------------------------------------------------
(* Every step, and the invariants.                                         *)

LEMMA EffectsOfNext == ASSUME Base, [Next]_vars PROVE StepEffects
<1>1. CASE UNCHANGED vars
  <2>1. /\ rows' = rows /\ results' = results /\ handler' = handler /\ tick' = tick
        /\ acted' = acted /\ faults' = faults /\ clock' = clock
        /\ openings' = openings /\ firing' = firing
    BY <1>1, Zenon DEF vars
  <2> QED
    BY <2>1, RowsSame, TicksSame, WorldSame, HandlersSame, ActedSame, Zenon DEF StepEffects
<1>2. ASSUME NEW w \in Workers, Tick(w) \/ Crash(w) PROVE StepEffects
  BY <1>2, TickStartEffects, FetchDueEffects, ExpireEffects, ClaimEffects, RefuseEffects,
     CheckAlertEffects, CheckLimitsEffects, AwaitApprovalEffects, ExecuteEffects,
     ReturnedEffects, FinishEffects, StoreFailsEffects, CrashEffects, Zenon DEF Tick
<1>3. ASSUME NEW w \in Consumers, Handle(w) PROVE StepEffects
  <2>1. w \in Workers
    BY AutomationAssumption, Zenon
  <2> QED
    BY <1>3, <2>1, ReceiveEffects, ProposeEffects, FinishDeniedEffects, HandlerFailsEffects,
       Zenon DEF Handle
<1> QED
  BY <1>1, <1>2, <1>3, AdvanceEffects, AlertEffects, ApproveEffects, Zenon DEF Next

\* Nothing touches a finished request.
LEMMA FinishedKept ==
    ASSUME Base, NEW r \in Requests, RowStep(r), results[r] # NoResult PROVE RowKept(r)
<1>1. rows[r].status \in Final
  BY Zenon DEF Base, ResultsAgree
<1>2. rows[r].status \notin {"absent", "pending", "approved", "executing", "awaiting_approval"}
  BY <1>1 DEF Final, Executed
<1>3. \A t : ~Claimable(r, t)
  BY <1>2 DEF Claimable, Abandoned
<1> QED
  BY <1>2, <1>3, Zenon DEF RowStep, RowInserted, RowCompleted, RowReleased, RowClaimed, RowApproved

LEMMA ResultsAgreeStep == ASSUME Base, RowsStep PROVE ResultsAgree'
<1> SUFFICES ASSUME NEW r \in Requests, results'[r] # NoResult
             PROVE  results'[r].status \in Final /\ rows'[r].status = results'[r].status
  BY Zenon DEF ResultsAgree
<1>1. RowStep(r) /\ rows[r] \in Row
  BY DEF RowsStep, Base, TypeOK
<1>2. CASE results[r] # NoResult
  BY <1>1, <1>2, FinishedKept, Zenon DEF RowKept, Base, ResultsAgree
<1>3. CASE results[r] = NoResult
  <2>1. RowCompleted(r)
    BY <1>1, <1>3, Zenon DEF RowStep, RowKept, RowInserted, RowReleased, RowClaimed, RowApproved
  <2>2. PICK s \in Final, f \in Times :
               /\ rows'[r] = [rows[r] EXCEPT !.status = s]
               /\ results'[r] = [status |-> s, finished |-> f, recorded |-> clock]
    BY <2>1, Zenon DEF RowCompleted
  <2> QED
    BY <1>1, <2>2 DEF Row
<1> QED
  BY <1>2, <1>3, Zenon

LEMMA LocalsReadyStep == ASSUME Base, StepEffects PROVE LocalsReady'
<1>1. /\ TicksTyped' /\ clock \in Times /\ clock' \in Times /\ clock <= clock'
      /\ \A w \in Workers : tick[w].at <= clock /\ tick[w].at \in Times
  <2>1. \A w \in Workers : tick[w].at \in Times
    BY DEF Base, TypeOK, Locals
  <2> QED
    BY <2>1, Zenon DEF StepEffects, TicksStep, WorldStep, Base, TypeOK, LocalsReady
<1>2. ASSUME NEW w \in Workers
      PROVE  /\ Working(w)' => tick'[w].req \in Requests
             /\ tick'[w].at <= clock'
  <2>1. TickStep(w)
    BY Zenon DEF StepEffects, TicksStep
  <2>2. Working(w)' => tick'[w].req \in Requests
    <3>1. \A d \in tick[w].due : d.req \in Requests
      BY DEF Base, TypeOK, Locals, DueRow
    <3>2. Working(w) => tick[w].req \in Requests
      BY Zenon DEF Base, LocalsReady
    <3> QED
      BY <2>1, <3>1, <3>2, Zenon DEF TickStep, TickLeft, TickTook, TickPassed, Working
  <2>3. tick'[w].at \in {0, clock, tick[w].at}
    BY <2>1, Zenon DEF TickStep, TickLeft, TickTook, TickPassed
  <2> QED
    BY <1>1, <2>2, <2>3, AutomationAssumption DEF Times
<1>3. \A w \in Workers : handler'[w].left # {} =>
          /\ handler'[w].key \in Keys
          /\ handler'[w].opening \in 1..Len(openings'[handler'[w].key])
  BY Zenon DEF StepEffects, HandlersStep
<1>4. \A w \in Workers : /\ IsFiniteSet(tick'[w].due)
                         /\ tick'[w].step = "record" => tick'[w].outcome \in Executed
  BY <1>1, Zenon DEF TicksTyped
<1> QED
  BY <1>2, <1>3, <1>4, Zenon DEF LocalsReady

\* What is in the past stays there, and what a step writes is read from the clock.
LEMMA DatedStep == ASSUME Base, StepEffects PROVE Dated'
<1>1. /\ clock \in Int /\ clock' \in Int /\ clock <= clock' /\ 0 <= clock /\ Times \subseteq Int
      /\ rows \in [Requests -> Row] /\ tick \in [Workers -> Locals]
      /\ rows' \in [Requests -> Row] /\ tick' \in [Workers -> Locals]
  BY AutomationAssumption DEF Base, TypeOK, Times, StepEffects, WorldStep, RowsStep, RowsTyped,
     TicksStep, TicksTyped
<1>2. ASSUME NEW w \in Workers PROVE tick'[w].now <= clock'
  <2>1. tick'[w].now \in {0, clock, tick[w].now}
    BY Zenon DEF StepEffects, TicksStep, TickStep, TickLeft, TickTook, TickPassed
  <2>2. tick[w].now \in Int /\ tick[w].now <= clock
    BY <1>1 DEF Locals, Base, Dated
  <2> QED
    BY <1>1, <2>1, <2>2
<1>3. ASSUME NEW r \in Requests PROVE RowDated(r)'
  <2> DEFINE d == Duration[Policy(r)]
  <2>1. d \in Nat
    BY AutomationAssumption DEF Policy, Requests
  <2>2. /\ rows[r].notBefore \in Int /\ rows[r].created \in Int /\ rows[r].claimed \in Int
        /\ rows[r] \in Row /\ rows'[r].notBefore \in Int
    <3>1. rows[r] \in Row /\ rows'[r] \in Row
      BY <1>1, Zenon
    <3>2. /\ rows[r].notBefore \in Nat /\ rows[r].created \in Times /\ rows[r].claimed \in Times
          /\ rows'[r].notBefore \in Nat
      BY <3>1 DEF Row
    <3>3. Times \subseteq Int /\ Nat \subseteq Int
      BY AutomationAssumption DEF Times
    <3> QED
      BY <3>1, <3>2, <3>3, Zenon
  <2>3. rows[r].notBefore <= clock + d /\ rows[r].created <= clock /\ rows[r].claimed <= clock
    BY Zenon DEF Base, Dated, RowDated
  <2>4. /\ rows'[r].notBefore <= clock + d /\ rows'[r].created <= clock
        /\ rows'[r].claimed <= clock
    <3>1. CASE rows'[r] = rows[r]
      BY <2>3, <3>1, Zenon
    <3>2. CASE RowInserted(r)
      BY <1>1, <3>2 DEF RowInserted
    <3>3. CASE RowCompleted(r)
      <4>1. PICK s \in Final : rows'[r] = [rows[r] EXCEPT !.status = s]
        BY <3>3, Zenon DEF RowCompleted
      <4> QED
        BY <2>2, <2>3, <4>1 DEF Row
    <3>4. CASE RowReleased(r)
      <4>1. PICK s : rows'[r] = [rows[r] EXCEPT !.status = s]
        BY <3>4, Zenon DEF RowReleased
      <4> QED
        BY <2>2, <2>3, <4>1 DEF Row
    <3>5. CASE RowClaimed(r)
      <4>1. PICK t : t <= clock /\ rows'[r] = [rows[r] EXCEPT !.status = "executing", !.claimed = t]
        BY <3>5, Zenon DEF RowClaimed
      <4> QED
        BY <2>2, <2>3, <4>1 DEF Row
    <3>6. CASE RowApproved(r)
      <4>1. PICK by : rows'[r] = [rows[r] EXCEPT !.status = "approved", !.approvedBy = by]
        BY <3>6, Zenon DEF RowApproved
      <4> QED
        BY <2>2, <2>3, <4>1 DEF Row
    <3> QED
      BY <3>1, <3>2, <3>3, <3>4, <3>5, <3>6, Zenon DEF StepEffects, RowsStep, RowStep, RowKept
  <2>5. rows'[r].created \in Int /\ rows'[r].claimed \in Int
    BY <1>1 DEF Row
  <2> HIDE DEF d
  <2>6. /\ rows'[r].notBefore <= clock' + d /\ rows'[r].created <= clock'
        /\ rows'[r].claimed <= clock'
    BY <1>1, <2>1, <2>2, <2>4, <2>5
  <2> QED
    BY <2>6, Zenon DEF RowDated, d
<1>4. \A k \in Keys : \A i \in 1..Len(openings'[k]) : openings'[k][i] <= clock'
  BY Zenon DEF StepEffects, WorldStep
<1> QED
  BY <1>2, <1>3, <1>4, Zenon DEF Dated

LEMMA BaseStep == ASSUME Base, StepEffects PROVE Base'
<1>1. TypeOK'
  <2>1. /\ clock' \in Times /\ openings' \in [Keys -> Seq(Times)] /\ firing' \in [Keys -> BOOLEAN]
        /\ handler' \in [Workers -> Handling]
        /\ acted' \subseteq Requests /\ faults' \in [{"crash", "store"} -> Nat]
    BY Zenon DEF StepEffects, HandlersStep, ActedStep, WorldStep
  <2>2. rows' \in [Requests -> Row] /\ results' \in [Requests -> Result]
    BY Zenon DEF StepEffects, RowsStep, RowsTyped
  <2>3. tick' \in [Workers -> Locals] /\ \A w \in Workers : Cardinality(tick'[w].due) <= BatchSize
    BY Zenon DEF StepEffects, TicksStep, TicksTyped
  <2> QED
    BY <2>1, <2>2, <2>3, Zenon DEF TypeOK
<1>2. ResultsAgree'
  BY ResultsAgreeStep, Zenon DEF StepEffects
<1> QED
  BY <1>1, <1>2, LocalsReadyStep, DatedStep, Zenon DEF Base

LEMMA StuckStep == ASSUME Base, StuckInv, StepEffects PROVE StuckInv'
<1> SUFFICES ASSUME NEW r \in Requests, rows'[r].status \in Final, results'[r] = NoResult
             PROVE  /\ rows'[r].status = "denied" /\ "rejected" \in Proposals[Policy(r)]
                    /\ Faulty' \/ \E w \in Workers : handler'[w].denied = r
  BY Zenon DEF StuckInv, Stranded
<1>1. RowStep(r) /\ rows[r] \in Row /\ \A w \in Workers : HandlerStep(w)
  BY Zenon DEF StepEffects, RowsStep, HandlersStep, Base, TypeOK
<1>2. Faulty => Faulty'
  <2>1. /\ faults \in [{"crash", "store"} -> Nat] /\ faults' \in [{"crash", "store"} -> Nat]
        /\ faults["crash"] <= faults'["crash"] /\ faults["store"] <= faults'["store"]
    BY Zenon DEF StepEffects, WorldStep, Base, TypeOK
  <2> QED
    BY <2>1 DEF Faulty
<1>3. CASE RowKept(r)
  <2>1. /\ rows'[r].status = "denied" /\ "rejected" \in Proposals[Policy(r)]
        /\ Faulty \/ \E w \in Workers : handler[w].denied = r
    BY <1>3, Zenon DEF RowKept, StuckInv, Stranded
  <2>2. r # None
    BY Constants
  <2> QED
    BY <1>1, <1>2, <2>1, <2>2, Zenon DEF HandlerStep
<1>4. CASE RowInserted(r)
  <2>1. "pending" \notin Final
    BY DEF Final, Executed
  <2> QED
    BY <1>4, <2>1, Zenon DEF RowInserted
<1>5. CASE RowCompleted(r)
  <2>1. PICK s \in Final, f \in Times :
                results'[r] = [status |-> s, finished |-> f, recorded |-> clock]
    BY <1>5, Zenon DEF RowCompleted
  <2>2. results'[r].status \in Final
    BY <2>1
  <2> QED
    BY <2>2, Constants
<1>6. CASE RowReleased(r)
  <2>1. rows'[r].status \in {"awaiting_approval", "pending", "approved"}
    BY <1>1, <1>6 DEF RowReleased, Row
  <2> QED
    BY <2>1 DEF Final, Executed
<1>7. CASE RowClaimed(r)
  <2>1. rows'[r].status = "executing"
    BY <1>1, <1>7 DEF RowClaimed, Row
  <2> QED
    BY <2>1 DEF Final, Executed
<1>8. CASE RowApproved(r)
  <2>1. rows'[r].status = "approved"
    BY <1>1, <1>8 DEF RowApproved, Row
  <2> QED
    BY <2>1 DEF Final, Executed
<1> QED
  BY <1>1, <1>3, <1>4, <1>5, <1>6, <1>7, <1>8, Zenon DEF RowStep

\* A recorded request stays recorded and an approval stays given.
LEMMA ApprovalStays ==
    ASSUME Base, NEW r \in Requests, RowStep(r), rows[r].status # "absent"
    PROVE  /\ rows'[r].status # "absent"
           /\ rows[r].approvedBy # NoOne => rows'[r].approvedBy # NoOne
<1>1. rows[r] \in Row /\ NoOne \notin Approvers
  BY AutomationAssumption DEF Base, TypeOK
<1>2. CASE RowKept(r)
  BY <1>2, Zenon DEF RowKept
<1>3. CASE RowCompleted(r)
  <2>1. PICK s \in Final : rows'[r] = [rows[r] EXCEPT !.status = s]
    BY <1>3, Zenon DEF RowCompleted
  <2>2. rows'[r].status = s /\ rows'[r].approvedBy = rows[r].approvedBy
    BY <1>1, <2>1 DEF Row
  <2> QED
    BY <2>2 DEF Final, Executed
<1>4. CASE RowReleased(r)
  BY <1>1, <1>4 DEF RowReleased, Row
<1>5. CASE RowClaimed(r)
  BY <1>1, <1>5 DEF RowClaimed, Row
<1>6. CASE RowApproved(r)
  BY <1>1, <1>6 DEF RowApproved, Row
<1> QED
  BY <1>2, <1>3, <1>4, <1>5, <1>6, Zenon DEF RowStep, RowInserted

LEMMA ApprovalStep == ASSUME Base, ApprovalInv, StepEffects PROVE ApprovalInv'
<1>1. ASSUME NEW r \in Requests, NEW by, Known(r, by)
      PROVE  rows'[r].status # "absent" /\ (by # NoOne => rows'[r].approvedBy # NoOne)
  BY <1>1, ApprovalStays, Zenon DEF Known, StepEffects, RowsStep
<1>2. /\ \A w \in Workers : \A d \in tick[w].due : d.req \in Requests
      /\ \A w \in Workers : \A d \in tick'[w].due : d.req \in Requests
      /\ \A w \in Workers : Working(w) => tick[w].req \in Requests
      /\ acted \subseteq Requests
  <2>1. /\ tick \in [Workers -> Locals] /\ tick' \in [Workers -> Locals]
    BY Zenon DEF Base, TypeOK, StepEffects, TicksStep, TicksTyped
  <2>2. /\ \A w \in Workers : \A d \in tick[w].due : d.req \in Requests
        /\ \A w \in Workers : \A d \in tick'[w].due : d.req \in Requests
    BY <2>1 DEF Locals, DueRow
  <2> QED
    BY <2>2, Zenon DEF Base, TypeOK, LocalsReady
<1>3. ASSUME NEW w \in Workers, NEW d \in tick'[w].due
      PROVE  rows'[d.req].status # "absent" /\ (d.approvedBy # NoOne => rows'[d.req].approvedBy # NoOne)
  <2>1. d \in tick[w].due \/ (rows[d.req].status # "absent" /\ d.approvedBy = rows[d.req].approvedBy)
    BY Zenon DEF StepEffects, TicksStep, TickStep, TickLeft, TickTook, TickPassed
  <2>2. Known(d.req, d.approvedBy)
    BY <2>1, Zenon DEF Known, ApprovalInv
  <2> QED
    BY <1>1, <1>2, <2>2, Zenon
<1>4. ASSUME NEW w \in Workers, Working(w)'
      PROVE  /\ rows'[tick'[w].req].status # "absent"
             /\ tick'[w].approvedBy # NoOne => rows'[tick'[w].req].approvedBy # NoOne
  <2>1. tick'[w].req \in Requests /\ Known(tick'[w].req, tick'[w].approvedBy)
    <3>1. TickStep(w)
      BY Zenon DEF StepEffects, TicksStep
    <3> QED
      BY <1>2, <1>4, <3>1, Zenon DEF TickStep, TickLeft, TickTook, TickPassed, Working, ApprovalInv
  <2> QED
    BY <1>1, <2>1, Zenon
<1>5. ASSUME NEW r \in acted'
      PROVE  rows'[r].status # "absent" /\ (NeedsApproval[Policy(r)] => rows'[r].approvedBy # NoOne)
  <2>1. CASE r \in acted
    BY <1>2, <2>1, ApprovalStays, Zenon DEF ApprovalInv, StepEffects, RowsStep
  <2>2. CASE r \notin acted
    <3>1. PICK w \in Workers : /\ tick[w].step = "approval" /\ tick[w].req = r /\ ~MissesApproval(w)
      BY <1>5, <2>2, Zenon DEF StepEffects, ActedStep
    <3>2. Working(w)
      BY <3>1, Zenon DEF Working, Processing
    <3> QED
      BY <1>1, <1>2, <3>1, <3>2, Zenon DEF MissesApproval, ApprovalInv
  <2> QED
    BY <2>1, <2>2, Zenon
<1> QED
  BY <1>3, <1>4, <1>5, Zenon DEF ApprovalInv, Known

\* Without a store fault, a claimed or finished request of a policy without
\* approval stays one, and its claim only gets younger.
LEMMA ClaimStays ==
    ASSUME Base, NEW r \in Requests, RowStep(r), ~NeedsApproval[Policy(r)],
           faults'["store"] = 0, rows[r].status \in Final \cup {"executing"}
    PROVE  rows'[r].status \in Final \cup {"executing"} /\ rows[r].claimed <= rows'[r].claimed
<1>1. rows[r] \in Row /\ rows[r].claimed \in Int /\ Lease \in Nat /\ Times \subseteq Int
  BY AutomationAssumption DEF Base, TypeOK, Row, Times
<1>2. rows[r].status \notin {"absent", "pending", "approved", "awaiting_approval"}
  BY DEF Final, Executed
<1>3. CASE RowKept(r)
  BY <1>1, <1>3 DEF RowKept
<1>4. CASE RowCompleted(r)
  <2>1. PICK s \in Final : rows'[r] = [rows[r] EXCEPT !.status = s]
    BY <1>4, Zenon DEF RowCompleted
  <2>2. rows'[r].status = s /\ rows'[r].claimed = rows[r].claimed
    BY <1>1, <2>1 DEF Row
  <2> QED
    BY <1>1, <2>2
<1>5. ~RowInserted(r) /\ ~RowReleased(r) /\ ~RowApproved(r)
  <2>1. ~(faults'["store"] > 0)
    OBVIOUS
  <2> QED
    BY <1>2, <2>1, Zenon DEF RowInserted, RowReleased, RowApproved
<1>6. CASE RowClaimed(r)
  <2>1. PICK t \in Times : /\ Claimable(r, t)
                           /\ rows'[r] = [rows[r] EXCEPT !.status = "executing", !.claimed = t]
    BY <1>6, Zenon DEF RowClaimed
  <2>2. rows'[r].status = "executing" /\ rows'[r].claimed = t
    BY <1>1, <2>1 DEF Row
  <2>3. rows[r].claimed < t - Lease
    BY <1>2, <2>1, Zenon DEF Claimable, Abandoned
  <2>4. rows[r].claimed <= t
    BY <1>1, <2>3
  <2> QED
    BY <2>2, <2>4
<1> QED
  BY <1>3, <1>4, <1>5, <1>6, Zenon DEF RowStep

\* A worker on a request either was on it already, with the same claim, or has
\* just claimed it while nobody else moved.
LEMMA WorkersOnRequest ==
    ASSUME Base, TicksStep, NEW w \in Workers, NEW r \in Requests, WorksOn(w, r)'
    PROVE  \/ WorksOn(w, r) /\ tick'[w].now = tick[w].now
           \/ /\ tick'[w].now = tick[w].now /\ Claimable(r, tick[w].now)
              /\ rows'[r].status = "executing" /\ rows'[r].claimed = tick'[w].now
              /\ \A v \in Workers \ {w} : tick'[v] = tick[v]
<1>1. TickStep(w)
  BY Zenon DEF TicksStep
<1> QED
  BY <1>1, Zenon DEF TickStep, TickLeft, TickTook, TickPassed, WorksOn, Working

LEMMA LeaseStep == ASSUME Base, LeaseInv, StepEffects PROVE LeaseInv'
<1> SUFFICES ASSUME faults'["store"] = 0, NEW w \in Workers, NEW r \in Requests, WorksOn(w, r)'
             PROVE  /\ rows'[r].status \in Final \cup {"executing"}
                    /\ tick'[w].now <= rows'[r].claimed
                    /\ \A v \in Workers : WorksOn(v, r)' /\ v # w => Apart(v, w)'
  BY Zenon DEF LeaseInv
<1>1. /\ RowStep(r) /\ TicksStep /\ ~NeedsApproval[Policy(r)]
  BY Zenon DEF StepEffects, RowsStep, WorksOn
<1>2. faults["store"] = 0
  <2>1. faults["store"] \in Nat /\ faults["store"] <= faults'["store"]
    BY Zenon DEF StepEffects, WorldStep, Base, TypeOK
  <2> QED
    BY <2>1
<1>3. /\ rows[r].claimed \in Int /\ rows'[r].claimed \in Int /\ Lease \in Nat
      /\ \A v \in Workers : tick[v].now \in Int /\ tick'[v].now \in Int
  <2>1. Times \subseteq Int
    BY AutomationAssumption DEF Times
  <2>2. rows[r].claimed \in Times /\ rows'[r].claimed \in Times
    BY DEF Base, TypeOK, StepEffects, RowsStep, RowsTyped, Row
  <2>3. \A v \in Workers : tick[v].now \in Times /\ tick'[v].now \in Times
    BY DEF Base, TypeOK, StepEffects, TicksStep, TicksTyped, Locals
  <2> QED
    BY <2>1, <2>2, <2>3, AutomationAssumption
<1>4. ASSUME NEW v \in Workers, WorksOn(v, r)
      PROVE  /\ rows[r].status \in Final \cup {"executing"} /\ tick[v].now <= rows[r].claimed
             /\ \A u \in Workers : WorksOn(u, r) /\ u # v => Apart(u, v)
  BY <1>2, <1>4, Zenon DEF LeaseInv
\* A worker that claims the request is a lease later than one that is on it.
<1>5. ASSUME NEW v \in Workers, NEW u \in Workers, WorksOn(v, r), Claimable(r, tick[u].now)
      PROVE  tick[v].now < tick[u].now - Lease
  <2>1. rows[r].status \in Final \cup {"executing"} /\ tick[v].now <= rows[r].claimed
    BY <1>4, <1>5, Zenon
  <2>2. rows[r].status \notin {"pending", "approved"}
    BY <2>1 DEF Final, Executed
  <2>3. rows[r].claimed < tick[u].now - Lease
    BY <1>5, <2>2, Zenon DEF Claimable, Abandoned
  <2> QED
    BY <1>3, <2>1, <2>3
<1>6. rows'[r].status \in Final \cup {"executing"} /\ tick'[w].now <= rows'[r].claimed
  <2>1. CASE WorksOn(w, r) /\ tick'[w].now = tick[w].now
    <3>1. rows'[r].status \in Final \cup {"executing"} /\ rows[r].claimed <= rows'[r].claimed
      BY <1>1, <1>4, <2>1, ClaimStays, Zenon
    <3>2. tick[w].now <= rows[r].claimed
      BY <1>4, <2>1, Zenon
    <3> QED
      BY <1>3, <2>1, <3>1, <3>2
  <2>2. CASE rows'[r].status = "executing" /\ rows'[r].claimed = tick'[w].now
    BY <1>3, <2>2
  <2> QED
    BY <1>1, <2>1, <2>2, WorkersOnRequest, Zenon
<1>7. ASSUME NEW v \in Workers, WorksOn(v, r)', v # w PROVE Apart(v, w)'
  <2>1. CASE WorksOn(w, r) /\ tick'[w].now = tick[w].now
    <3>1. CASE WorksOn(v, r) /\ tick'[v].now = tick[v].now
      BY <1>4, <1>7, <2>1, <3>1, Zenon DEF Apart
    <3>2. CASE tick'[v].now = tick[v].now /\ Claimable(r, tick[v].now)
      <4>1. tick[w].now < tick[v].now - Lease
        BY <1>5, <2>1, <3>2, Zenon
      <4> QED
        BY <2>1, <3>2, <4>1, Zenon DEF Apart
    <3> QED
      BY <1>1, <1>7, <3>1, <3>2, WorkersOnRequest, Zenon
  <2>2. CASE /\ tick'[w].now = tick[w].now /\ Claimable(r, tick[w].now)
             /\ \A u \in Workers \ {w} : tick'[u] = tick[u]
    <3>1. tick'[v] = tick[v] /\ WorksOn(v, r)
      BY <1>7, <2>2, Zenon DEF WorksOn, Working
    <3>2. tick[v].now < tick[w].now - Lease
      BY <1>5, <2>2, <3>1, Zenon
    <3> QED
      BY <2>2, <3>1, <3>2, Zenon DEF Apart
  <2> QED
    BY <1>1, <2>1, <2>2, WorkersOnRequest, Zenon
<1> QED
  BY <1>6, <1>7, Zenon

\* What was recorded before a moment that has passed never changes.
LEMMA EndedFixed ==
    ASSUME Base, RowsStep, NEW t \in Int, t <= clock
    PROVE  /\ Ended(t)' = Ended(t)
           /\ \A q \in Ended(t) : results'[q] = results[q]
<1>1. ASSUME NEW q \in Requests
      PROVE  \/ results'[q] = results[q]
             \/ /\ ~(results[q].status \in Executed)
                /\ ~(results'[q].recorded < t)
  <2>1. RowStep(q)
    BY Zenon DEF RowsStep
  <2>2. CASE RowCompleted(q)
    <3>1. results'[q].recorded = clock
      BY <2>2 DEF RowCompleted
    <3>2. ~(clock < t)
      BY AutomationAssumption DEF Base, TypeOK, Times
    <3>3. results[q].status \notin Executed
      BY <2>2, Constants, Zenon DEF RowCompleted, Final
    <3> QED
      BY <3>1, <3>2, <3>3, Zenon
  <2> QED
    BY <2>1, <2>2, Zenon DEF RowStep, RowKept, RowInserted, RowReleased, RowClaimed, RowApproved
<1>2. ASSUME NEW q \in Requests
      PROVE  (results'[q].status \in Executed /\ results'[q].recorded < t)
                <=> (results[q].status \in Executed /\ results[q].recorded < t)
  BY <1>1, Zenon
<1> QED
  BY <1>1, <1>2, Zenon DEF Ended

\* A request that passes the limits gate is allowed by all that was recorded.
LEMMA GateAllows ==
    ASSUME Base, NEW r \in Requests, NEW t \in Int, ~OverLimits(r, t) PROVE Allowed(r, t)
<1> DEFINE p == Policy(r)
           done == { q \in Requests : Policy(q) = p /\ Key(q) = Key(r) /\ rows[q].status \in Executed }
           seen == { q \in Ended(t) : Policy(q) = p /\ Key(q) = Key(r) }
<1>1. p \in Policies /\ Cooldown[p] \in Nat /\ RetriesBelow[p] \in Nat
  BY AutomationAssumption DEF Policy, Requests
<1>2. ASSUME NEW q \in Ended(t)
      PROVE  q \in Requests /\ rows[q].status \in Executed /\ results[q].finished \in Int
  <2>1. q \in Requests /\ results[q].status \in Executed
    BY <1>2, Zenon DEF Ended
  <2>2. results[q] # NoResult
    BY <2>1, Constants, Zenon DEF Final
  <2>3. rows[q].status \in Executed
    BY <2>1, <2>2, Zenon DEF Base, ResultsAgree
  <2>4. results[q].finished \in Int
    BY <2>1, AutomationAssumption DEF Base, TypeOK, Times, Result
  <2> QED
    BY <2>1, <2>3, <2>4, Zenon
<1>3. ASSUME Cooldown[p] > 0, NEW q \in Ended(t), SameScope(q, r)
      PROVE  results[q].finished < t - Cooldown[p]
  <2>1. ~(results[q].finished >= t - Cooldown[p])
    BY <1>2, <1>3, Zenon DEF OverLimits, RecentlyDone
  <2> QED
    BY <1>1, <1>2, <2>1
<1>4. ASSUME RetriesBelow[p] > 0 PROVE Cardinality(seen) < RetriesBelow[p]
  <2>1. ~(Cardinality(done) >= RetriesBelow[p])
    BY <1>4, Zenon DEF OverLimits, Attempts
  <2>2. seen \subseteq done
    BY <1>2, Zenon
  <2>3. done \subseteq Requests
    BY Zenon
  <2> HIDE DEF done, seen
  <2>4. IsFiniteSet(done) /\ IsFiniteSet(seen) /\ Cardinality(seen) <= Cardinality(done)
    BY <2>2, <2>3, RequestsFinite, FS_Subset
  <2>5. Cardinality(done) \in Nat /\ Cardinality(seen) \in Nat
    BY <2>4, FS_CardinalityType
  <2> QED
    BY <1>1, <2>1, <2>4, <2>5
<1> QED
  BY <1>3, <1>4, Zenon DEF Allowed

LEMMA AllowedStays ==
    ASSUME Base, RowsStep, NEW r, NEW t \in Int, t <= clock, Allowed(r, t) PROVE Allowed(r, t)'
<1>1. Ended(t)' = Ended(t) /\ \A q \in Ended(t) : results'[q] = results[q]
  BY EndedFixed, Zenon
<1> QED
  BY <1>1, Zenon DEF Allowed

LEMMA LimitsStep == ASSUME Base, LimitsInv, StepEffects PROVE LimitsInv'
<1> SUFFICES ASSUME NEW w \in Workers, tick'[w].step \in {"approval", "execute"},
                    NEW r, NEW t, r = tick'[w].req, t = tick'[w].at
             PROVE  Allowed(r, t)'
  BY Zenon DEF LimitsInv, Allowed, Ended
<1>1. TickStep(w) /\ RowsStep /\ tick[w].at <= clock
  BY Zenon DEF StepEffects, TicksStep, Base, LocalsReady
<1>2. tick[w].at \in Int
  BY AutomationAssumption DEF Base, TypeOK, Locals, Times
<1>3. tick'[w].step \in Processing /\ tick'[w].step \notin {"alert", "limits"}
  BY DEF Processing
<1>4. r = tick[w].req /\ t = tick[w].at
  <2>1. ~TickTook(w)
    BY <1>3, Zenon DEF TickTook
  <2> QED
    BY <1>1, <1>3, <2>1, Zenon DEF TickStep, TickLeft, TickPassed
<1>5. Allowed(r, t)
  <2>1. CASE tick[w].step \in {"approval", "execute"}
    BY <1>4, <2>1, Zenon DEF LimitsInv
  <2>2. CASE tick[w].step \notin {"approval", "execute"}
    <3>1. TickPassed(w)
      BY <1>1, <1>3, <2>2, Zenon DEF TickStep, TickLeft, TickTook
    <3>2. ~OverLimits(r, t) /\ r \in Requests
      BY <1>3, <1>4, <2>2, <3>1, Zenon DEF TickPassed, Base, LocalsReady
    <3> QED
      BY <1>2, <1>4, <3>2, GateAllows, Zenon
  <2> QED
    BY <2>1, <2>2, Zenon
<1> QED
  BY <1>1, <1>2, <1>4, <1>5, AllowedStays, Zenon

-----------------------------------------------------------------------------
LEMMA InitInv == ASSUME Init PROVE AutomationInv
<1>1. /\ clock = 0 /\ openings = [k \in Keys |-> <<>>] /\ firing = [k \in Keys |-> FALSE]
      /\ rows = [r \in Requests |-> NoRow] /\ results = [r \in Requests |-> NoResult]
      /\ handler = [w \in Workers |-> NoEvent] /\ tick = [w \in Workers |-> Idle]
      /\ acted = {} /\ faults = [kind \in {"crash", "store"} |-> 0]
  BY Zenon DEF Init
<1>2. /\ IsFiniteSet(Idle.due) /\ Cardinality(Idle.due) = 0 /\ 0 <= BatchSize /\ 0 <= 0
      /\ Idle.step # "record"
  BY Constants, FS_EmptySet, AutomationAssumption
<1>3. NoRow.status \notin Final /\ Idle.step \notin Processing
  BY Constants DEF NoRow, Final, Executed, Processing
<1>4. TypeOK
  <2>1. /\ openings \in [Keys -> Seq(Times)] /\ firing \in [Keys -> BOOLEAN]
        /\ acted \subseteq Requests /\ faults \in [{"crash", "store"} -> Nat]
    BY <1>1
  <2>2. \A w \in Workers : Cardinality(tick[w].due) <= BatchSize
    BY <1>1, <1>2, Zenon
  <2>3. /\ rows \in [Requests -> Row]
        /\ results \in [Requests -> Result]
        /\ handler \in [Workers -> Handling] /\ tick \in [Workers -> Locals] /\ clock \in Times
    BY <1>1, Constants, Zenon
  <2> QED
    BY <2>1, <2>2, <2>3, Zenon DEF TypeOK
<1>5. \A w \in Workers : tick[w] = Idle /\ handler[w] = NoEvent
  BY <1>1, Zenon
<1>6. \A r \in Requests : rows[r] = NoRow /\ results[r] = NoResult
  BY <1>1, Zenon
<1>7. LocalsReady
  BY <1>1, <1>2, <1>3, <1>5, Constants, Zenon DEF LocalsReady, Working
<1>8. ResultsAgree /\ Dated
  <2>1. ResultsAgree
    BY <1>6, Zenon DEF ResultsAgree
  <2>2. \A k \in Keys : \A i \in 1..Len(openings[k]) : openings[k][i] <= clock
    BY <1>1
  <2>3. \A w \in Workers : tick[w].now <= clock
    BY <1>1, <1>2, <1>5, Constants, Zenon
  <2>4. ASSUME NEW r \in Requests PROVE RowDated(r)
    <3>1. rows[r].notBefore = 0 /\ rows[r].created = 0 /\ rows[r].claimed = 0
      BY <1>6 DEF NoRow
    <3>2. Duration[Policy(r)] \in Nat
      BY AutomationAssumption DEF Policy, Requests
    <3> QED
      BY <1>1, <3>1, <3>2 DEF RowDated
  <2> QED
    BY <2>1, <2>2, <2>3, <2>4, Zenon DEF Dated
<1>9. ApprovalInv
  BY <1>1, <1>3, <1>5, Constants, Zenon DEF ApprovalInv, Working
<1>10. StuckInv
  BY <1>3, <1>6, Zenon DEF StuckInv
<1>11. LeaseInv
  BY <1>3, <1>5, Zenon DEF LeaseInv, WorksOn, Working
<1>12. LimitsInv
  BY <1>3, <1>5, Zenon DEF LimitsInv, Processing
<1> QED
  BY <1>4, <1>7, <1>8, <1>9, <1>10, <1>11, <1>12, Zenon DEF AutomationInv, Base

LEMMA Inductive == ASSUME AutomationInv, [Next]_vars PROVE AutomationInv'
<1>1. Base /\ StepEffects
  BY EffectsOfNext, Zenon DEF AutomationInv
<1> QED
  BY <1>1, BaseStep, ApprovalStep, StuckStep, LeaseStep, LimitsStep, Zenon DEF AutomationInv

\* The inductive invariant holds in every reachable state.
LEMMA Invariance == Spec => []AutomationInv
<1>1. Init => AutomationInv
  BY InitInv
<1>2. AutomationInv /\ [Next]_vars => AutomationInv'
  BY Inductive
<1> QED
  BY <1>1, <1>2, PTL DEF Spec

-----------------------------------------------------------------------------
\* Every table row, handler and tick has its type, and no batch is larger
\* than the configured size (DueAutomation's LIMIT).
THEOREM TypeCorrect == Spec => []TypeOK
<1>1. AutomationInv => TypeOK
  BY DEF AutomationInv, Base
<1> QED
  BY <1>1, Invariance, PTL

\* However workers, approvers, expiries, releases and late results interleave
\* and whatever fails: the first result of a request is its last, and the
\* status stays the result's (CompleteAutomation, SetAutomationStatus).
THEOREM ResultsStayFinal == Spec => ResultIsFinal
<1> DEFINE Stays == \A r \in Requests : results[r] # NoResult =>
                       results'[r] = results[r] /\ rows'[r].status = results[r].status
<1>1. ASSUME AutomationInv, [Next]_vars PROVE Stays
  <2> SUFFICES ASSUME NEW r \in Requests, results[r] # NoResult
               PROVE  results'[r] = results[r] /\ rows'[r].status = results[r].status
    BY Zenon
  <2>1. Base /\ RowStep(r)
    BY <1>1, EffectsOfNext, Zenon DEF AutomationInv, StepEffects, RowsStep
  <2> QED
    BY <2>1, FinishedKept, Zenon DEF RowKept, Base, ResultsAgree
<1>2. AutomationInv /\ [Next]_vars => [Stays]_vars
  BY <1>1, Zenon
<1> HIDE DEF Stays
<1>3. [][Stays]_vars => ResultIsFinal
  BY PTL DEF Stays, ResultIsFinal
<1> QED
  BY <1>2, <1>3, Invariance, PTL DEF Spec

\* For every policy that asks for approval, the adapter is only called for a
\* request somebody approved, also from stale snapshots (approval gate of
\* process, ApproveAutomation).
THEOREM ApprovedFirst == Spec => []ApprovedBeforeActing
<1>1. AutomationInv => ApprovedBeforeActing
  BY Zenon DEF AutomationInv, ApprovalInv, ApprovedBeforeActing
<1> QED
  BY <1>1, Invariance, PTL

\* A request whose status is not final is selected by a query of some later
\* tick: by DueAutomation once its delay or the lease on it is over, by
\* AwaitingApprovalBefore once nobody approved it in time.
LEMMA OpenIsOnItsWay ==
    ASSUME Base, NEW r \in Requests, Unfinished(r), rows[r].status \notin Final PROVE OnItsWay(r)
<1> DEFINE p == Policy(r)
           later == Later(r)
<1>1. /\ Duration[p] \in Nat /\ ApprovalTimeout[p] \in Nat /\ Lease \in Nat /\ clock \in Int
      /\ rows[r] \in Row
  BY AutomationAssumption DEF Policy, Requests, Base, TypeOK, Times
<1>2. /\ rows[r].notBefore \in Int /\ rows[r].created \in Int /\ rows[r].claimed \in Int
  BY <1>1, AutomationAssumption DEF Row, Times
<1>3. /\ rows[r].notBefore <= clock + Duration[p]
      /\ rows[r].created <= clock /\ rows[r].claimed <= clock
  BY Zenon DEF Base, Dated, RowDated
<1>4. later = clock + Duration[p] + ApprovalTimeout[p] + Lease + 1
  BY Zenon DEF Later
<1> HIDE DEF p, later
<1>5. /\ rows[r].notBefore <= later /\ rows[r].claimed < later - Lease
      /\ rows[r].created < later /\ later - rows[r].created >= ApprovalTimeout[p]
  BY <1>1, <1>2, <1>3, <1>4
<1>6. rows[r].status \in {"pending", "executing", "awaiting_approval", "approved"}
  BY <1>1 DEF Row, Statuses, Unfinished
<1>7. CASE rows[r].status \in {"pending", "executing", "approved"}
  <2>1. Due(r, later) /\ Claimable(r, later)
    BY <1>5, <1>7 DEF Due, Claimable, Abandoned
  <2> QED
    BY <2>1, Zenon DEF OnItsWay, later
<1>8. CASE rows[r].status = "awaiting_approval"
  <2>1. TimedOut(r, later)
    BY <1>5, <1>8, Zenon DEF TimedOut, p
  <2> QED
    BY <2>1, Zenon DEF OnItsWay, later
<1> QED
  BY <1>6, <1>7, <1>8, Zenon

\* Whatever the workers, approvers and alerts do, whichever worker crashes and
\* whichever store call fails: the only request without a result that no later
\* tick finds is a rejected proposal whose handler was lost between recording
\* it as denied and writing the result (HandleEvent, DueAutomation,
\* ClaimAutomation, AwaitingApprovalBefore, release).
THEOREM OnlyRejectedIsStranded ==
    Spec => [](\A r \in Requests : Unfinished(r) => OnItsWay(r) \/ Stranded(r))
<1>1. AutomationInv => \A r \in Requests : Unfinished(r) => OnItsWay(r) \/ Stranded(r)
  <2> SUFFICES ASSUME AutomationInv, NEW r \in Requests, Unfinished(r)
               PROVE  OnItsWay(r) \/ Stranded(r)
    BY Zenon
  <2>1. CASE rows[r].status \in Final
    BY <2>1, Zenon DEF AutomationInv, StuckInv, Unfinished, OnItsWay
  <2>2. CASE rows[r].status \notin Final
    BY <2>2, OpenIsOnItsWay, Zenon DEF AutomationInv
  <2> QED
    BY <2>1, <2>2, Zenon
<1> QED
  BY <1>1, Invariance, PTL

\* While no worker crashed and no store call failed, every request without a
\* result is found by a later tick or its handler is about to write the result
\* (HandleEvent, Tick).
THEOREM NothingStuckWithoutFault == Spec => [](NothingStuck \/ Faulty)
<1>1. (\A r \in Requests : Unfinished(r) => OnItsWay(r) \/ Stranded(r)) => NothingStuck \/ Faulty
  BY Zenon DEF NothingStuck, Stranded
<1> QED
  BY <1>1, OnlyRejectedIsStranded, PTL

\* Crashes and failing store calls strand no request at all as long as no
\* proposal is rejected: claims, releases, approvals and expiries leave every
\* request in a state from which a later tick takes it to its result, because
\* the rejected proposal is the only request whose final status and result are
\* written in two transactions (HandleEvent, Tick, process, release).
THEOREM NothingStuckWithoutRejection ==
    ASSUME \A p \in Policies : "rejected" \notin Proposals[p]
    PROVE  Spec => []NothingStuck
<1>1. (\A r \in Requests : Unfinished(r) => OnItsWay(r) \/ Stranded(r)) => NothingStuck
  <2>1. \A r \in Requests : Policy(r) \in Policies
    BY DEF Policy, Requests
  <2> QED
    BY <2>1, Zenon DEF NothingStuck, Stranded
<1> QED
  BY <1>1, OnlyRejectedIsStranded, PTL

\* As long as no store call fails, two workers are on one request of a policy
\* without approval only if the lease lies between the ticks they claimed it
\* in, crashes included (ClaimAutomation, DueAutomation).  A failing gate query
\* releases the claim whoever holds it, which is why the premise is needed.
THEOREM LeaseIsExclusive == Spec => [](faults["store"] = 0 => LeaseProtectsExecution)
<1>1. AutomationInv => (faults["store"] = 0 => LeaseProtectsExecution)
  <2> SUFFICES ASSUME LeaseInv, faults["store"] = 0, NEW v \in Workers, NEW w \in Workers,
                      NEW r \in Requests, Executing(v, r), Executing(w, r), v # w,
                      ~NeedsApproval[Policy(r)]
               PROVE  Apart(v, w)
    BY Zenon DEF AutomationInv, LeaseProtectsExecution, Apart
  <2>1. WorksOn(v, r) /\ WorksOn(w, r)
    BY Zenon DEF Executing, WorksOn, Working, Processing
  <2> QED
    BY <2>1, Zenon DEF LeaseInv
<1> QED
  BY <1>1, Invariance, PTL

\* Whatever the workers do concurrently, an executing action violates neither
\* the cooldown nor the retry limit with respect to the executions whose results
\* were recorded when its gates were evaluated, although a result carries the
\* time the action ended and is committed later (process, execute,
\* AutomationHistory).
THEOREM LimitsAreKept == Spec => []LimitsHoldUnlessConcurrent
<1>1. AutomationInv => LimitsHoldUnlessConcurrent
  <2> SUFFICES ASSUME Base, LimitsInv, NEW w \in Workers, NEW r \in Requests, Executing(w, r)
               PROVE  LET ended == { q \in Requests \ {r} : /\ results[q].status \in Executed
                                                  /\ results[q].recorded < tick[w].at }
                          p     == Policy(r)
                      IN  /\ Cooldown[p] > 0 => \A q \in ended : SameScope(q, r) =>
                                           results[q].finished < tick[w].at - Cooldown[p]
                          /\ RetriesBelow[p] > 0 => Cardinality({ q \in ended : Policy(q) = p /\ Key(q) = Key(r) }) < RetriesBelow[p]
    BY Zenon DEF AutomationInv, LimitsHoldUnlessConcurrent
  <2> DEFINE t == tick[w].at
             ended == { q \in Requests \ {r} : /\ results[q].status \in Executed
                                               /\ results[q].recorded < t }
             some == { q \in ended : Policy(q) = Policy(r) /\ Key(q) = Key(r) }
             all == { q \in Ended(t) : Policy(q) = Policy(r) /\ Key(q) = Key(r) }
  <2>1. Allowed(r, t)
    BY Zenon DEF Executing, LimitsInv
  <2>2. ended \subseteq Ended(t)
    BY Zenon DEF Ended
  <2>3. ASSUME RetriesBelow[Policy(r)] > 0 PROVE Cardinality(some) < RetriesBelow[Policy(r)]
    <3>1. Cardinality(all) < RetriesBelow[Policy(r)]
      BY <2>1, <2>3, Zenon DEF Allowed
    <3>2. some \subseteq all /\ all \subseteq Requests
      BY <2>2, Zenon DEF Ended
    <3> HIDE DEF some, all
    <3>3. IsFiniteSet(all) /\ IsFiniteSet(some) /\ Cardinality(some) <= Cardinality(all)
      BY <3>2, RequestsFinite, FS_Subset
    <3>4. Cardinality(all) \in Nat /\ Cardinality(some) \in Nat /\ RetriesBelow[Policy(r)] \in Nat
      BY <3>3, FS_CardinalityType, AutomationAssumption DEF Policy, Requests
    <3> QED
      BY <3>1, <3>3, <3>4
  <2> QED
    BY <2>1, <2>2, <2>3, Zenon DEF Allowed
<1> QED
  BY <1>1, Invariance, PTL
=============================================================================

----------------------------- MODULE Automation -----------------------------
(***************************************************************************)
(* The automation role (internal/automation, app/automation.go): alert     *)
(* events become requests, and a timer in every worker works through the   *)
(* due ones: expire approvals, claim, gates, execution, result.  Several   *)
(* workers share the tables; each step below is one database statement or  *)
(* one transaction, so workers, approvers and the alert table interleave   *)
(* between them.                                                           *)
(*                                                                         *)
(* A request is <<policy, alert key, opening>>: requestID hashes the       *)
(* policy and the event that opened the alert for the opening-th time.     *)
(* The static gates (policy, device, validation, tag, capability,          *)
(* allowlist, maintenance, adapter) are one nondeterministic refusal.      *)
(***************************************************************************)
EXTENDS Integers, Sequences, FiniteSets

CONSTANTS
    Policies,      \* policy ids
    Keys,          \* alert keys
    Workers,       \* automation processes
    Consumers,     \* the workers that get events of the shared consumer
    Approvers,     \* identities the API lets approve
    Trigger,       \* [Policies -> alert keys whose events the policy matches]
    Target,        \* [Keys -> the device and target an action on it addresses]
    Proposals,     \* [Policies -> what proposing may yield]
    Duration,      \* [Policies -> delay of the action]
    Cooldown,      \* [Policies -> 0 or the cooldown]
    RetriesBelow,  \* [Policies -> 0 or the limit of attempts]
    NeedsApproval, \* [Policies -> BOOLEAN]
    ApprovalTimeout, \* [Policies -> time an unapproved request lives]
    Lease,         \* age at which a claim counts as abandoned
    BatchSize,     \* requests one tick works through
    MaxClock,      \* bound: the clock
    MaxOpenings,   \* bound: openings of one alert
    MaxCrashes,    \* bound: worker crashes
    MaxFaults      \* bound: failing store calls

Requests == Policies \X Keys \X (1..MaxOpenings)
Times    == 0..MaxClock
NoOne    == "nobody"
None     == <<"none", "none", 0>>
Executed == {"succeeded", "failed"}     \* dry_run counts like succeeded
Final    == Executed \cup {"denied", "expired"}
Statuses == Final \cup {"absent", "pending", "executing", "awaiting_approval", "approved"}

ASSUME AutomationAssumption ==
    /\ IsFiniteSet(Policies) /\ IsFiniteSet(Keys)
    /\ \A p \in Policies :
         /\ Proposals[p] \subseteq {"accepted", "rejected", "nothing", "unavailable"}
         /\ NeedsApproval[p] \in BOOLEAN
         /\ {Duration[p], Cooldown[p], RetriesBelow[p], ApprovalTimeout[p]} \subseteq Nat
    /\ Consumers \subseteq Workers
    /\ NoOne \notin Approvers
    /\ {Lease, BatchSize} \subseteq Nat \ {0}
    /\ {MaxClock, MaxOpenings, MaxCrashes, MaxFaults} \subseteq Nat

VARIABLES
    clock,
    openings,  \* [Keys -> times at which the alert opened], oldest first
    firing,    \* [Keys -> BOOLEAN], the alerts table
    rows,      \* [Requests -> automation_requests row]
    results,   \* [Requests -> automation_results row; history: when it was committed]
    handler,   \* [Workers -> the event being handled]
    tick,      \* [Workers -> the locals of Tick and process]
    acted,     \* history: requests whose adapter was called
    faults     \* crashes and store failures so far

vars == <<clock, openings, firing, rows, results, handler, tick, acted, faults>>

Policy(r) == r[1]
Key(r)    == r[2]
NoRow    == [status |-> "absent", notBefore |-> 0, created |-> 0, claimed |-> 0, approvedBy |-> NoOne]
NoResult == [status |-> "none", finished |-> 0, recorded |-> 0]
Idle     == [step |-> "idle", now |-> 0, waiting |-> {}, due |-> {}, req |-> None,
             approvedBy |-> NoOne, at |-> 0, outcome |-> "none", finished |-> 0]
NoEvent  == [key |-> "none", opening |-> 0, left |-> {}, denied |-> None]

\* Same policy, device and target: what a cooldown is about.
SameScope(q, r) == Policy(q) = Policy(r) /\ Target[Key(q)] = Target[Key(r)]

-----------------------------------------------------------------------------
(* Store operations.                                                       *)

\* CompleteAutomation: the first result wins and sets the status.  When the
\* action ended is the caller's reading of the clock, not the commit's.
Complete(r, status, finished) ==
    IF results[r] # NoResult
    THEN UNCHANGED <<rows, results>>
    ELSE /\ results' = [results EXCEPT ![r] = [status |-> status, finished |-> finished,
                                               recorded |-> clock]]
         /\ rows' = [rows EXCEPT ![r].status = status]

\* SetAutomationStatus from executing.
SetStatusBlindly(r, to) ==  \* mutant: whatever the current status
    rows' = [rows EXCEPT ![r].status = to]
SetStatus(r, to) ==
    rows' = IF rows[r].status = "executing" THEN [rows EXCEPT ![r].status = to] ELSE rows

Abandoned(r, now) == rows[r].status = "executing" /\ rows[r].claimed < now - Lease

\* DueAutomation.
DueNotAbandoned(r, now) ==  \* mutant: a claimed request is never looked at again
    \/ rows[r].status = "pending" /\ rows[r].notBefore <= now
    \/ rows[r].status = "approved"
Due(r, now) ==
    \/ rows[r].status = "pending" /\ rows[r].notBefore <= now
    \/ rows[r].status = "approved"
    \/ Abandoned(r, now)

\* ClaimAutomation: the condition of the conditional UPDATE.
ClaimableWhenever(r, now) ==  \* mutant: claim without looking at the status
    TRUE
Claimable(r, now) == rows[r].status \in {"pending", "approved"} \/ Abandoned(r, now)

\* AutomationHistory: executed requests of the scope that finished at or after since.
RecentlyDone(r, since) ==
    \E q \in Requests : /\ SameScope(q, r)
                        /\ rows[q].status \in Executed /\ results[q].finished >= since
Attempts(p, k) == Cardinality({ q \in Requests : /\ Policy(q) = p /\ Key(q) = k
                                                 /\ rows[q].status \in Executed })

-----------------------------------------------------------------------------
(* The alert table, written by the processors.                             *)

OpenAlert(k) ==
    /\ ~firing[k] /\ Len(openings[k]) < MaxOpenings
    /\ firing' = [firing EXCEPT ![k] = TRUE]
    /\ openings' = [openings EXCEPT ![k] = Append(@, clock)]
    /\ UNCHANGED <<clock, rows, results, handler, tick, acted, faults>>

ResolveAlert(k) ==
    /\ firing[k]
    /\ firing' = [firing EXCEPT ![k] = FALSE]
    /\ UNCHANGED <<clock, openings, rows, results, handler, tick, acted, faults>>

-----------------------------------------------------------------------------
(* Stage one: HandleEvent, for an event delivered at least once.           *)

\* What is left of an event; nothing left acknowledges it.
Remaining(h, left, denied) ==
    IF left = {} /\ denied = None THEN NoEvent ELSE [h EXCEPT !.left = left, !.denied = denied]

Receive(w, k, n) ==
    /\ handler[w] = NoEvent /\ n <= Len(openings[k])
    /\ handler' = [handler EXCEPT ![w] =
         Remaining([NoEvent EXCEPT !.key = k, !.opening = n],
                   {p \in Policies : k \in Trigger[p]}, None)]
    /\ UNCHANGED <<clock, openings, firing, rows, results, tick, acted, faults>>

\* One matching policy: propose, check the proposal and insert the request
\* unless it is there already.  A retryable proposer failure fails the delivery.
Propose(w, p) ==
    LET h == handler[w]
        r == <<p, h.key, h.opening>>
        recorded == rows[r].status # "absent"
        Insert(status, notBefore) ==
            rows' = IF recorded THEN rows
                    ELSE [rows EXCEPT ![r] = [status |-> status, notBefore |-> notBefore,
                             created |-> clock, claimed |-> 0, approvedBy |-> NoOne]]
        Continue(denied) == handler' = [handler EXCEPT ![w] = Remaining(h, h.left \ {p}, denied)]
    IN  /\ p \in h.left /\ h.denied = None
        /\ \/ /\ "unavailable" \in Proposals[p]
              /\ handler' = [handler EXCEPT ![w] = NoEvent] /\ UNCHANGED rows
           \/ /\ "nothing" \in Proposals[p]
              /\ Continue(None) /\ UNCHANGED rows
           \/ /\ "accepted" \in Proposals[p]
              /\ Insert("pending", openings[h.key][h.opening] + Duration[p])
              /\ Continue(None)
           \/ /\ "rejected" \in Proposals[p]
              /\ Insert("denied", clock)
              /\ Continue(IF recorded THEN None ELSE r)
        /\ UNCHANGED <<clock, openings, firing, results, tick, acted, faults>>

\* The rejected proposal's result, in a transaction of its own.
FinishDenied(w) ==
    /\ handler[w].denied # None
    /\ Complete(handler[w].denied, "denied", clock)
    /\ handler' = [handler EXCEPT ![w] = Remaining(@, @.left, None)]
    /\ UNCHANGED <<clock, openings, firing, tick, acted, faults>>

-----------------------------------------------------------------------------
(* Stage two: Tick.                                                        *)

\* AwaitingApprovalBefore, and the timeout of each request's policy.
TimedOut(r, now) ==
    /\ rows[r].status = "awaiting_approval" /\ rows[r].created < now
    /\ now - rows[r].created >= ApprovalTimeout[Policy(r)]

TickStart(w) ==
    /\ tick[w].step = "idle"
    /\ tick' = [tick EXCEPT ![w] = [Idle EXCEPT !.step = "expire", !.now = clock,
                                       !.waiting = { r \in Requests : TimedOut(r, clock) }]]
    /\ UNCHANGED <<clock, openings, firing, rows, results, handler, acted, faults>>

ExpireApproval(w, r) ==
    /\ tick[w].step = "expire" /\ r \in tick[w].waiting
    /\ Complete(r, "expired", tick[w].now)
    /\ tick' = [tick EXCEPT ![w].waiting = @ \ {r}]
    /\ UNCHANGED <<clock, openings, firing, handler, acted, faults>>

\* On to the next request of the batch; after the last one the tick is over.
Onward(t, due) == IF due = {} THEN Idle ELSE [Idle EXCEPT !.step = "claim", !.now = t.now, !.due = due]

\* ORDER BY created_at LIMIT BatchSize.
Unlimited(due) ==  \* mutant: no LIMIT
    {due}
Batches(due) ==
    { batch \in SUBSET due :
        /\ Cardinality(batch) = IF Cardinality(due) < BatchSize THEN Cardinality(due) ELSE BatchSize
        /\ \A r \in batch, q \in due \ batch : rows[r].created <= rows[q].created }

\* DueAutomation's snapshot: the oldest due requests with their approver; what
\* happens to the rows afterwards is not seen.
FetchDue(w) ==
    /\ tick[w].step = "expire" /\ tick[w].waiting = {}
    /\ \E batch \in Batches({ r \in Requests : Due(r, tick[w].now) }) :
         tick' = [tick EXCEPT ![w] = Onward(@, { [req |-> r, approvedBy |-> rows[r].approvedBy,
                                                  created |-> rows[r].created] : r \in batch })]
    /\ UNCHANGED <<clock, openings, firing, rows, results, handler, acted, faults>>

\* Every claim of a batch is stamped with the tick's start.
Claim(w, d) ==
    LET r == d.req IN
    /\ tick[w].step = "claim" /\ d \in tick[w].due
    /\ \A e \in tick[w].due : d.created <= e.created
    /\ IF Claimable(r, tick[w].now)
       THEN /\ rows' = [rows EXCEPT ![r].status = "executing", ![r].claimed = tick[w].now]
            /\ tick' = [tick EXCEPT ![w].due = @ \ {d}, ![w].step = "alert",
                                    ![w].req = r, ![w].approvedBy = d.approvedBy, ![w].at = clock]
       ELSE /\ UNCHANGED rows
            /\ tick' = [tick EXCEPT ![w] = Onward(@, @.due \ {d})]
    /\ UNCHANGED <<clock, openings, firing, results, handler, acted, faults>>

NextOfBatch(w) == tick' = [tick EXCEPT ![w] = Onward(@, @.due)]

\* The approval gate looks at the snapshot's approver.
MissesApprovalNever(w) ==  \* mutant: nobody has to approve
    FALSE
MissesApproval(w) == NeedsApproval[Policy(tick[w].req)] /\ tick[w].approvedBy = NoOne

\* Any of the static gates refuses; the last one, whether there is an adapter,
\* is only asked once the approval is there.
Refuse(w) ==
    /\ \/ tick[w].step \in {"alert", "limits"}
       \/ tick[w].step = "approval" /\ ~MissesApproval(w)
    /\ Complete(tick[w].req, "denied", clock) /\ NextOfBatch(w)
    /\ UNCHANGED <<clock, openings, firing, handler, acted, faults>>

\* AlertFiring asks for the key of the alert, not for the opening.
CheckAlert(w) ==
    LET r == tick[w].req IN
    /\ tick[w].step = "alert"
    /\ IF firing[Key(r)]
       THEN /\ tick' = [tick EXCEPT ![w].step = "limits"]
            /\ UNCHANGED <<rows, results>>
       ELSE Complete(r, "expired", clock) /\ NextOfBatch(w)
    /\ UNCHANGED <<clock, openings, firing, handler, acted, faults>>

OverLimitsLate(r, now) ==  \* mutant: off by one
    \/ Cooldown[Policy(r)] > 0 /\ RecentlyDone(r, now - Cooldown[Policy(r)])
    \/ RetriesBelow[Policy(r)] > 0 /\ Attempts(Policy(r), Key(r)) > RetriesBelow[Policy(r)]
OverLimits(r, now) ==
    \/ Cooldown[Policy(r)] > 0 /\ RecentlyDone(r, now - Cooldown[Policy(r)])
    \/ RetriesBelow[Policy(r)] > 0 /\ Attempts(Policy(r), Key(r)) >= RetriesBelow[Policy(r)]

\* Cooldown and retry limit, as of the moment process began.
CheckLimits(w) ==
    LET r == tick[w].req IN
    /\ tick[w].step = "limits"
    /\ IF OverLimits(r, tick[w].at)
       THEN Complete(r, "denied", clock) /\ NextOfBatch(w)
       ELSE /\ tick' = [tick EXCEPT ![w].step = "approval"]
            /\ UNCHANGED <<rows, results>>
    /\ UNCHANGED <<clock, openings, firing, handler, acted, faults>>

AwaitApproval(w) ==
    /\ tick[w].step = "approval" /\ MissesApproval(w)
    /\ SetStatus(tick[w].req, "awaiting_approval") /\ NextOfBatch(w)
    /\ UNCHANGED <<clock, openings, firing, results, handler, acted, faults>>

\* adapter.Execute starts.
Execute(w) ==
    /\ tick[w].step = "approval" /\ ~MissesApproval(w)
    /\ tick' = [tick EXCEPT ![w].step = "execute"]
    /\ acted' = acted \cup {tick[w].req}
    /\ UNCHANGED <<clock, openings, firing, rows, results, handler, faults>>

\* adapter.Execute returns and the clock is read; nothing is recorded yet.
Returned(w, status) ==
    /\ tick[w].step = "execute"
    /\ tick' = [tick EXCEPT ![w].step = "record", ![w].outcome = status, ![w].finished = clock]
    /\ UNCHANGED <<clock, openings, firing, rows, results, handler, acted, faults>>

\* The result is committed with the time the action ended.
Finish(w) ==
    /\ tick[w].step = "record"
    /\ Complete(tick[w].req, tick[w].outcome, tick[w].finished) /\ NextOfBatch(w)
    /\ UNCHANGED <<clock, openings, firing, handler, acted, faults>>

Approve(r, by) ==
    /\ rows[r].status = "awaiting_approval"
    /\ rows' = [rows EXCEPT ![r].status = "approved", ![r].approvedBy = by]
    /\ UNCHANGED <<clock, openings, firing, results, handler, tick, acted, faults>>

-----------------------------------------------------------------------------
(* Failures and time.                                                      *)

Fault(kind, max) == /\ faults[kind] < max
                    /\ faults' = [faults EXCEPT ![kind] = @ + 1]

\* A store call fails and Tick returns; a failed gate query first releases
\* the claim, which may fail as well and is not checked.
StoreFails(w) ==
    LET t == tick[w] IN
    /\ t.step \notin {"idle", "execute"} /\ Fault("store", MaxFaults)
    /\ \/ /\ t.step \in {"alert", "limits"}
          /\ SetStatus(t.req, IF t.approvedBy = NoOne THEN "pending" ELSE "approved")
       \/ UNCHANGED rows
    /\ tick' = [tick EXCEPT ![w] = Idle]
    /\ UNCHANGED <<clock, openings, firing, results, handler, acted>>

\* A store call of HandleEvent fails: the delivery fails and comes again.
HandlerFails(w) ==
    /\ handler[w] # NoEvent /\ Fault("store", MaxFaults)
    /\ handler' = [handler EXCEPT ![w] = NoEvent]
    /\ UNCHANGED <<clock, openings, firing, rows, results, tick, acted>>

Crash(w) ==
    /\ Fault("crash", MaxCrashes)
    /\ handler' = [handler EXCEPT ![w] = NoEvent]
    /\ tick' = [tick EXCEPT ![w] = Idle]
    /\ UNCHANGED <<clock, openings, firing, rows, results, acted>>

Advance ==
    /\ clock < MaxClock
    /\ clock' = clock + 1
    /\ UNCHANGED <<openings, firing, rows, results, handler, tick, acted, faults>>

-----------------------------------------------------------------------------
Init ==
    /\ clock = 0
    /\ openings = [k \in Keys |-> <<>>] /\ firing = [k \in Keys |-> FALSE]
    /\ rows = [r \in Requests |-> NoRow] /\ results = [r \in Requests |-> NoResult]
    /\ handler = [w \in Workers |-> NoEvent] /\ tick = [w \in Workers |-> Idle]
    /\ acted = {} /\ faults = [kind \in {"crash", "store"} |-> 0]

Handle(w) == \/ \E k \in Keys, n \in 1..MaxOpenings : Receive(w, k, n)
             \/ \E p \in Policies : Propose(w, p)
             \/ FinishDenied(w) \/ HandlerFails(w)
Tick(w)   == \/ TickStart(w) \/ FetchDue(w)
             \/ \E r \in Requests : ExpireApproval(w, r)
             \/ \E d \in tick[w].due : Claim(w, d)
             \/ Refuse(w) \/ CheckAlert(w) \/ CheckLimits(w) \/ AwaitApproval(w)
             \/ Execute(w) \/ \E status \in Executed : Returned(w, status)
             \/ Finish(w) \/ StoreFails(w)

Next == \/ Advance
        \/ \E k \in Keys : OpenAlert(k) \/ ResolveAlert(k)
        \/ \E w \in Workers : Tick(w) \/ Crash(w)
        \/ \E w \in Consumers : Handle(w)
        \/ \E r \in Requests, by \in Approvers : Approve(r, by)

Spec == Init /\ [][Next]_vars
-----------------------------------------------------------------------------
Row == [status : Statuses, notBefore : Nat, created : Times, claimed : Times,
        approvedBy : Approvers \cup {NoOne}]
Handling == [key : Keys \cup {"none"}, opening : 0..MaxOpenings, left : SUBSET Policies,
             denied : Requests \cup {None}]
DueRow == [req : Requests, approvedBy : Approvers \cup {NoOne}, created : Times]
Locals == [step : {"idle", "expire", "claim", "alert", "limits", "approval", "execute", "record"},
           now : Times, waiting : SUBSET Requests, due : SUBSET DueRow,
           req : Requests \cup {None}, approvedBy : Approvers \cup {NoOne}, at : Times,
           outcome : Executed \cup {"none"}, finished : Times]
Result == [status : Final \cup {"none"}, finished : Times, recorded : Times]
TypeOK ==
    /\ clock \in Times
    /\ openings \in [Keys -> Seq(Times)] /\ firing \in [Keys -> BOOLEAN]
    /\ rows \in [Requests -> Row]
    /\ results \in [Requests -> Result]
    /\ handler \in [Workers -> Handling]
    /\ tick \in [Workers -> Locals]
    /\ \A w \in Workers : Cardinality(tick[w].due) <= BatchSize
    /\ acted \subseteq Requests /\ faults \in [{"crash", "store"} -> Nat]

Executing(w, r) == tick[w].step = "execute" /\ tick[w].req = r

\* A result is written once, and the request's status is the result's from
\* then on: no late worker, release, approval or expiry reopens or relabels a
\* finished request (CompleteAutomation, SetAutomationStatus, ClaimAutomation).
ResultIsFinal ==
    [][\A r \in Requests : results[r] # NoResult =>
          results'[r] = results[r] /\ rows'[r].status = results[r].status]_vars

\* A request whose policy asks for approval is executed only after somebody
\* approved it, whatever snapshot the executing worker had read.
ApprovedBeforeActing ==
    \A r \in acted : NeedsApproval[Policy(r)] => rows[r].approvedBy # NoOne

\* A request without a result, and the ways it still gets to one: at a known
\* time at the latest a tick fetches and claims it or expires its approval, or
\* the handler that rejected it is about to write the result.
Unfinished(r) == rows[r].status # "absent" /\ results[r] = NoResult
Later(r) == clock + Duration[Policy(r)] + ApprovalTimeout[Policy(r)] + Lease + 1
OnItsWay(r) ==
    \/ Due(r, Later(r)) /\ Claimable(r, Later(r))
    \/ TimedOut(r, Later(r))
    \/ \E w \in Workers : handler[w].denied = r

\* Whichever worker crashed, whichever store call failed, whichever snapshot an
\* approval or a release was based on: no recorded request without a result is
\* in a state that no query of a later tick selects (HandleEvent,
\* DueAutomation, ClaimAutomation, AwaitingApprovalBefore, release).
NothingStuck == \A r \in Requests : Unfinished(r) => OnItsWay(r)

\* Two workers execute one request at the same time only if the lease lies
\* between the ticks they claimed it in: a claim is exclusive until its lease
\* is over, and the lease runs from the start of the tick (Tick,
\* ClaimAutomation).  Stated for policies without approval.
LeaseProtectsExecution ==
    \A v, w \in Workers, r \in Requests :
        /\ Executing(v, r) /\ Executing(w, r) /\ v # w /\ ~NeedsApproval[Policy(r)]
        => tick[v].now < tick[w].now - Lease \/ tick[w].now < tick[v].now - Lease

\* What an action could have known is respected: when it starts, no execution
\* of the same policy, device and target whose result was recorded when its
\* gates were evaluated ended within the cooldown, and fewer than the limit of
\* the policy's executions for the alert key were recorded.  What can be missed
\* are executions still going on, and those that have ended but whose result is
\* not committed yet (process, execute, AutomationHistory, AttemptsForAlert).
LimitsHoldUnlessConcurrent ==
    \A w \in Workers, r \in Requests :
        Executing(w, r) =>
            LET ended == { q \in Requests \ {r} : /\ results[q].status \in Executed
                                                  /\ results[q].recorded < tick[w].at }
                p     == Policy(r)
            IN  /\ Cooldown[p] > 0 => \A q \in ended : SameScope(q, r) =>
                                           results[q].finished < tick[w].at - Cooldown[p]
                /\ RetriesBelow[p] > 0 => Cardinality({ q \in ended : Policy(q) = p /\ Key(q) = Key(r) }) < RetriesBelow[p]
=============================================================================

----------------------------- MODULE RuleEngine -----------------------------
(***************************************************************************)
(* The rules layer (internal/rules): a condition over a window of one      *)
(* stored series, whose activation is tracked as a StateRecord that is     *)
(* DOWN while the rule is active.                                          *)
(***************************************************************************)
EXTENDS HealthMachine, FiniteSetsExt

\* `kind` selects the condition; `count` is transitions for "transitions" and
\* min_samples (already defaulted to 3 when 0) otherwise.
Rule ==
    [ metric : STRING, kind : {"transitions", "average", "max", "min"},
      window : Nat, count : Nat, above : BOOLEAN, limit : Int ]

ValidRule(r) == r.window >= 1 /\ r.count >= 1

-----------------------------------------------------------------------------
\* Tx.Samples: the series' stored numeric (and boolean) values in the window
\* (at - window, at].
Samples(stored, r, o) ==
    { s \in stored : /\ s.device = o.device /\ s.label = o.label
                     /\ s.metric = o.metric /\ s.value.type # "text"
                     /\ o.at - r.window < s.at /\ s.at <= o.at }

\* ORDER BY observed_at says nothing about equal timestamps; `first` is the
\* source that the database happens to return first.
Before(a, b, first) == \/ a.at < b.at
                       \/ a.at = b.at /\ a.source = first /\ b.source # first

Adjacent(S, a, b, first) ==
    /\ Before(a, b, first)
    /\ ~\E c \in S : Before(a, c, first) /\ Before(c, b, first)

Truthy(s) == s.value.num # 0

Flips(S, first) ==
    Cardinality({ b \in S : \E a \in S : /\ Adjacent(S, a, b, first)
                                         /\ Truthy(a) # Truthy(b) })

\* An aggregate over too few samples is no data, never a breach.  The average
\* is compared without dividing.
AggregateHolds(r, S) ==
    LET n     == Cardinality(S)
        nums  == { s.value.num : s \in S }
        sum   == MapThenSumSet(LAMBDA s : s.value.num, S)
        value == CASE r.kind = "average" -> sum
                   [] r.kind = "max"     -> Max(nums)
                   [] r.kind = "min"     -> Min(nums)
        limit == IF r.kind = "average" THEN r.limit * n ELSE r.limit
    IN  /\ n >= r.count
        /\ IF r.above THEN value > limit ELSE value < limit

Condition(r, S, first) ==
    IF r.kind = "transitions" THEN Flips(S, first) >= r.count
                              ELSE AggregateHolds(r, S)

-----------------------------------------------------------------------------
\* rules.Evaluate for an observation that is not outdated: `holds` is the
\* condition's verdict.  A rule's record uses only UP and DOWN.
RuleApplied(prev, holds, o) ==
    [prev EXCEPT !.state = IF holds THEN "DOWN" ELSE "UP",
                 !.lastObservedAt = o.at, !.lastSeenAt = o.at]

RuleEvaluate(prev, holds, o) ==
    IF Outdated(prev, o.at) THEN prev ELSE RuleApplied(prev, holds, o)
=============================================================================

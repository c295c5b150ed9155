-------------------------- MODULE HealthRunProofs --------------------------
(***************************************************************************)
(* The incremental state engine computes what the whole applied history    *)
(* means, for every set of valid definitions, every set of readings and    *)
(* histories of any length.                                                *)
(***************************************************************************)
EXTENDS HealthRun, TLAPS

(* What the counters, timestamps and the hysteresis bit of the record say  *)
(* about the applied history.                                              *)
n == Len(hist)
Bad(i) == BadAt(def, hist, i)

RecordedIffApplied == rec.state = "NONE" <=> n = 0

\* The hysteresis bit is the verdict on the last sample.
HysteresisBit == def.kind # "good_when" => (rec.breached <=> Bad(n))

\* The state's two halves: the last verdict, and whether an outage is open.
VerdictInState == /\ Bad(n) <=> rec.state \in {"DOWN", "SUSPECT"}
                  /\ InOutage(def, hist) <=> rec.state \in OutageStates

\* failures counts the bad samples at the end, badSince is the first's time.
FailureStreak ==
    /\ rec.failures \in 0..n
    /\ \A i \in (n - rec.failures + 1)..n : Bad(i)
    /\ rec.failures < n => ~Bad(n - rec.failures)
    /\ rec.failures > 0 => rec.badSince = hist[n - rec.failures + 1].at

\* successes counts the good samples at the end, but only within an outage.
RecoveryStreak ==
    IF rec.state = "RECOVERING"
    THEN /\ rec.successes \in 1..(n - 1)
         /\ \A i \in (n - rec.successes + 1)..n : ~Bad(i)
         /\ Bad(n - rec.successes)
         /\ rec.goodSince = hist[n - rec.successes + 1].at
    ELSE rec.successes = 0

\* The inductive invariant: the state alone does not determine the next one,
\* the counters and timestamps do.
IInv == /\ TypeOK /\ RecordedIffApplied /\ HysteresisBit /\ VerdictInState
        /\ FailureStreak /\ RecoveryStreak /\ AppliedInOrder

-----------------------------------------------------------------------------
(* The state engine, for every definition and record.                      *)

\* How step moves an entity between outage and normal states: RECOVERING is
\* entered only from an outage, and an outage is left only to UP.
Moves(from, to) ==
    /\ to \in HealthStates
    /\ from \notin OutageStates => to # "RECOVERING"
    /\ from \in OutageStates => to \in {"UP", "DOWN", "RECOVERING"}

\* A good sample keeps the record well formed and moves it as Moves says
\* (state/engine.go step, good branch).
LEMMA GoodStepShape ==
    ASSUME NEW d \in Definition, NEW r \in Record, NEW at \in Nat
    PROVE  /\ GoodStep(d, r, at) \in Record
           /\ Moves(r.state, GoodStep(d, r, at).state)
<1> DEFINE base  == [r EXCEPT !.failures = 0, !.badSince = ZeroTime]
           since == IF r.successes = 0 THEN at ELSE r.goodSince
           up    == [base EXCEPT !.state = "UP"]
           back  == [base EXCEPT !.state = "UP", !.successes = 0, !.goodSince = ZeroTime]
           rising == [base EXCEPT !.state = "RECOVERING",
                                  !.successes = r.successes + 1, !.goodSince = since]
           confirmed == /\ r.successes + 1 >= d.recoverAfter
                        /\ at - since >= d.recoverFor
<1>1. since \in Nat /\ r.successes + 1 \in Nat
  BY DEF Record, Times
<1>2. 0 \in Nat /\ ZeroTime \in Nat
  BY DEF ZeroTime
<1>3. base \in Record
  BY <1>2, Zenon DEF Record, Times
<1>4. /\ up \in Record     /\ up.state = "UP"
      /\ back \in Record   /\ back.state = "UP"
      /\ rising \in Record /\ rising.state = "RECOVERING"
  <2> HIDE DEF base, since
  <2>1. up \in Record /\ up.state = "UP"
    BY <1>3, Zenon DEF Record, HealthStates
  <2>2. back \in Record /\ back.state = "UP"
    BY <1>2, <1>3, Zenon DEF Record, HealthStates, Times
  <2>3. rising \in Record /\ rising.state = "RECOVERING"
    BY <1>1, <1>3, Zenon DEF Record, HealthStates, Times
  <2> QED
    BY <2>1, <2>2, <2>3, Zenon
<1>5. CASE r.state \in {"NONE", "UP", "SUSPECT"}
  <2>1. GoodStep(d, r, at) = up
    BY <1>5 DEF GoodStep
  <2> QED
    BY <1>4, <1>5, <2>1, Zenon DEF Moves, HealthStates, OutageStates
<1>6. CASE r.state \in {"DOWN", "RECOVERING"} /\ confirmed
  <2>1. GoodStep(d, r, at) = back
    BY <1>6 DEF GoodStep
  <2> QED
    BY <1>4, <1>6, <2>1, Zenon DEF Moves, HealthStates, OutageStates
<1>7. CASE r.state \in {"DOWN", "RECOVERING"} /\ ~confirmed
  <2>1. GoodStep(d, r, at) = rising
    BY <1>7 DEF GoodStep
  <2> QED
    BY <1>4, <1>7, <2>1, Zenon DEF Moves, HealthStates, OutageStates
<1> QED
  BY <1>5, <1>6, <1>7, Zenon DEF Record, HealthStates

\* The same for a bad sample.
LEMMA BadStepShape ==
    ASSUME NEW d \in Definition, NEW r \in Record, NEW at \in Nat
    PROVE  /\ BadStep(d, r, at) \in Record
           /\ Moves(r.state, BadStep(d, r, at).state)
<1> DEFINE since == IF r.failures = 0 THEN at ELSE r.badSince
           next  == [r EXCEPT !.successes = 0, !.goodSince = ZeroTime,
                                !.failures = r.failures + 1, !.badSince = since]
           down  == [next EXCEPT !.state = "DOWN"]
           sus   == [next EXCEPT !.state = "SUSPECT"]
           confirmed == r.failures + 1 >= d.failAfter /\ at - since >= d.failFor
<1>1. since \in Nat /\ r.failures + 1 \in Nat
  BY DEF Record, Times
<1>2. 0 \in Nat /\ ZeroTime \in Nat
  BY DEF ZeroTime
<1>3. next \in Record
  <2> HIDE DEF since
  <2> QED
    BY <1>1, <1>2, Zenon DEF Record, Times
<1>4. /\ down \in Record /\ down.state = "DOWN"
      /\ sus \in Record  /\ sus.state = "SUSPECT"
  <2> HIDE DEF next
  <2> QED
    BY <1>3, Zenon DEF Record, HealthStates
<1>5. CASE r.state \in {"DOWN", "RECOVERING"} \/ confirmed
  <2>1. BadStep(d, r, at) = down
    BY <1>5 DEF BadStep
  <2> QED
    BY <1>4, <2>1, Zenon DEF Moves, HealthStates, OutageStates
<1>6. CASE ~(r.state \in {"DOWN", "RECOVERING"} \/ confirmed)
  <2>1. BadStep(d, r, at) = sus
    BY <1>6 DEF BadStep
  <2> QED
    BY <1>4, <1>6, <2>1, Zenon DEF Moves, HealthStates, OutageStates
<1> QED
  BY <1>5, <1>6, Zenon

\* What a good and a bad sample leave in the record, field by field.
LEMMA GoodFields ==
    ASSUME NEW d \in Definition, NEW r \in Record, NEW at \in Nat
    PROVE  LET g == GoodStep(d, r, at)
               since == IF r.successes = 0 THEN at ELSE r.goodSince
               confirmed == r.successes + 1 >= d.recoverAfter /\ at - since >= d.recoverFor
           IN  /\ g.failures = 0 /\ g.breached = r.breached
               /\ g.lastObservedAt = r.lastObservedAt /\ g.lastSeenAt = r.lastSeenAt
               /\ r.state \notin OutageStates => g.state = "UP" /\ g.successes = r.successes
               /\ r.state \in OutageStates /\ confirmed => g.state = "UP" /\ g.successes = 0
               /\ r.state \in OutageStates /\ ~confirmed =>
                     g.state = "RECOVERING" /\ g.successes = r.successes + 1 /\ g.goodSince = since
<1> DEFINE base  == [r EXCEPT !.failures = 0, !.badSince = ZeroTime]
           since == IF r.successes = 0 THEN at ELSE r.goodSince
           confirmed == r.successes + 1 >= d.recoverAfter /\ at - since >= d.recoverFor
           up    == [base EXCEPT !.state = "UP"]
           back  == [base EXCEPT !.state = "UP", !.successes = 0, !.goodSince = ZeroTime]
           rising == [base EXCEPT !.state = "RECOVERING",
                                  !.successes = r.successes + 1, !.goodSince = since]
<1>1. CASE r.state \notin OutageStates
  <2>1. GoodStep(d, r, at) = up
    BY <1>1 DEF GoodStep, Record, HealthStates, OutageStates
  <2>2. /\ up.failures = 0 /\ up.breached = r.breached /\ up.state = "UP"
        /\ up.successes = r.successes
        /\ up.lastObservedAt = r.lastObservedAt /\ up.lastSeenAt = r.lastSeenAt
    BY DEF Record
  <2> QED
    BY <1>1, <2>1, <2>2, Zenon
<1>2. CASE r.state \in OutageStates /\ confirmed
  <2>1. GoodStep(d, r, at) = back
    BY <1>2 DEF GoodStep, OutageStates
  <2>2. /\ back.failures = 0 /\ back.breached = r.breached /\ back.state = "UP"
        /\ back.successes = 0
        /\ back.lastObservedAt = r.lastObservedAt /\ back.lastSeenAt = r.lastSeenAt
    BY DEF Record
  <2> QED
    BY <1>2, <2>1, <2>2, Zenon
<1>3. CASE r.state \in OutageStates /\ ~confirmed
  <2>1. GoodStep(d, r, at) = rising
    BY <1>3 DEF GoodStep, OutageStates
  <2> HIDE DEF since
  <2>2. /\ rising.failures = 0 /\ rising.breached = r.breached /\ rising.state = "RECOVERING"
        /\ rising.successes = r.successes + 1 /\ rising.goodSince = since
        /\ rising.lastObservedAt = r.lastObservedAt /\ rising.lastSeenAt = r.lastSeenAt
    BY DEF Record
  <2> USE DEF since
  <2> QED
    BY <1>3, <2>1, <2>2, Zenon
<1> QED
  BY <1>1, <1>2, <1>3, Zenon

LEMMA BadFields ==
    ASSUME NEW d \in Definition, NEW r \in Record, NEW at \in Nat
    PROVE  LET b == BadStep(d, r, at)
               since == IF r.failures = 0 THEN at ELSE r.badSince
               confirmed == r.failures + 1 >= d.failAfter /\ at - since >= d.failFor
           IN  /\ b.successes = 0 /\ b.breached = r.breached
               /\ b.failures = r.failures + 1 /\ b.badSince = since
               /\ b.lastObservedAt = r.lastObservedAt /\ b.lastSeenAt = r.lastSeenAt
               /\ b.state = IF r.state \in OutageStates \/ confirmed THEN "DOWN" ELSE "SUSPECT"
<1> DEFINE since == IF r.failures = 0 THEN at ELSE r.badSince
           confirmed == r.failures + 1 >= d.failAfter /\ at - since >= d.failFor
           nxt   == [r EXCEPT !.successes = 0, !.goodSince = ZeroTime,
                              !.failures = r.failures + 1, !.badSince = since]
           s     == IF r.state \in OutageStates \/ confirmed THEN "DOWN" ELSE "SUSPECT"
           to    == [nxt EXCEPT !.state = s]
<1>1. BadStep(d, r, at) = to
  BY DEF BadStep, OutageStates
<1> HIDE DEF since, s
<1>2. /\ to.successes = 0 /\ to.breached = r.breached /\ to.state = s
      /\ to.failures = r.failures + 1 /\ to.badSince = since
      /\ to.lastObservedAt = r.lastObservedAt /\ to.lastSeenAt = r.lastSeenAt
  BY DEF Record
<1> HIDE DEF to
<1> QED
  BY <1>1, <1>2, Zenon DEF since, s

\* Evaluate either ignores the sample or applies it, moving the record as Moves
\* says; only a sample newer than the last one applied is applied.
LEMMA EvaluateShape ==
    ASSUME NEW d \in Definition, NEW prev \in Record, NEW o,
           o.at \in Nat, o.value \in Values
    PROVE  /\ Evaluate(d, prev, o) \in Record
           /\ \/ Evaluate(d, prev, o) = prev
              \/ /\ Moves(prev.state, Evaluate(d, prev, o).state)
                 /\ ~Outdated(prev, o.at)
                 /\ Evaluate(d, prev, o).lastObservedAt = o.at
<1> DEFINE j   == Judge(d, prev, o.value)
           r == [prev EXCEPT !.breached = j.breached, !.lastObservedAt = o.at,
                               !.lastSeenAt = IF o.source = "sweeper" THEN @ ELSE o.at]
<1>1. j.good \in BOOLEAN /\ j.breached \in BOOLEAN
  <2>1. prev.breached \in BOOLEAN
    BY Zenon DEF Record
  <2>2. Breached(d, prev.breached, o.value.num) \in BOOLEAN
    <3>1. \A x, y : (x < y) \in BOOLEAN /\ (x > y) \in BOOLEAN
      BY SMT
    <3> QED
      BY <3>1, Zenon DEF Breached
  <2> QED
    BY <2>1, <2>2, Zenon DEF Judge
<1>2. r \in Record /\ r.state = prev.state /\ r.lastObservedAt = o.at
  <2> HIDE DEF j
  <2>1. r \in Record /\ r.state = prev.state
    BY <1>1, Zenon DEF Record, Times
  <2> DEFINE seen == IF o.source = "sweeper" THEN prev.lastSeenAt ELSE o.at
  <2>2. r = [prev EXCEPT !.breached = j.breached, !.lastObservedAt = o.at, !.lastSeenAt = seen]
    BY Zenon
  <2> HIDE DEF seen
  <2>3. r.lastObservedAt = o.at
    BY <2>2 DEF Record
  <2> QED
    BY <2>1, <2>3, Zenon
<1>3. /\ Step(d, r, j.good, o.at) \in Record
      /\ Moves(r.state, Step(d, r, j.good, o.at).state)
      /\ Step(d, r, j.good, o.at).lastObservedAt = o.at
  <2> HIDE DEF r, j
  <2>1. CASE j.good
    <3>1. GoodStep(d, r, o.at).lastObservedAt = r.lastObservedAt
      BY <1>2, GoodFields, Zenon
    <3> QED
      BY <1>2, <2>1, <3>1, GoodStepShape, Zenon DEF Step
  <2>2. CASE ~j.good
    <3>1. BadStep(d, r, o.at).lastObservedAt = r.lastObservedAt
      BY <1>2, BadFields, Zenon
    <3> QED
      BY <1>2, <2>2, <3>1, BadStepShape, Zenon DEF Step
  <2> QED
    BY <2>1, <2>2, Zenon
<1>4. Applied(d, prev, o) = Step(d, r, j.good, o.at)
  BY Zenon DEF Applied
<1> QED
  BY <1>2, <1>3, <1>4, Zenon DEF Evaluate, Ignored

-----------------------------------------------------------------------------
LEMMA SampleShape ==
    \A o \in Sample : o.at \in Nat /\ o.at > 0 /\ o.value \in Values /\ o.source = "snmp"
<1>1. \A o \in Sample : o.at \in 1..MaxTime /\ o.value \in Readings /\ o.source = "snmp"
  BY DEF Sample
<1>2. \A t \in 1..MaxTime : t \in Nat /\ t > 0
  BY HealthRunAssumption
<1> QED
  BY <1>1, <1>2, HealthRunAssumption, Zenon

(* One more sample at the end of a history.                                *)

LEMMA Appended ==
    ASSUME NEW h \in Seq(Sample), NEW o \in Sample
    PROVE  /\ Append(h, o) \in Seq(Sample) /\ Len(h) \in Nat
           /\ Len(Append(h, o)) = Len(h) + 1
           /\ \A i \in 1..Len(h) : Append(h, o)[i] = h[i]
           /\ Append(h, o)[Len(h) + 1] = o
  OBVIOUS

\* Verdicts and confirmations of the samples before the new one stay.
LEMMA PrefixKeepsVerdicts ==
    ASSUME NEW d, NEW h \in Seq(Sample), NEW o \in Sample, NEW i \in 0..Len(h)
    PROVE  BadAt(d, Append(h, o), i) <=> BadAt(d, h, i)
<1> DEFINE g == Append(h, o)
<1>1. \A k \in 1..i : g[k] = h[k]
  BY Appended
<1> HIDE DEF g
<1>2. \A k \in 1..i : \A j \in (k + 1)..i : j \in 1..i
  OBVIOUS
<1>3. \A k \in 1..i : (\A j \in (k + 1)..i : ~Clears(d, g[j].value))
                      <=> (\A j \in (k + 1)..i : ~Clears(d, h[j].value))
  BY <1>1, <1>2, Zenon
<1> QED
  BY <1>1, <1>3, Zenon DEF BadAt, g

LEMMA LastVerdict ==
    ASSUME NEW d, NEW h \in Seq(Sample), NEW o \in Sample
    PROVE  BadAt(d, Append(h, o), Len(h) + 1)
           <=> Crosses(d, o.value) \/ (BadAt(d, h, Len(h)) /\ ~Clears(d, o.value))
<1> DEFINE g == Append(h, o)
           m == Len(h)
<1>1. m \in Nat /\ g[m + 1] = o /\ \A i \in 1..m : g[i] = h[i]
  BY Appended
<1> HIDE DEF g, m
<1>2. BadAt(d, g, m) <=> BadAt(d, h, m)
  BY <1>1, PrefixKeepsVerdicts DEF g, m
<1>3. ASSUME BadAt(d, g, m + 1)
      PROVE  Crosses(d, o.value) \/ (BadAt(d, g, m) /\ ~Clears(d, o.value))
  <2>1. PICK k \in 1..(m + 1) : /\ Crosses(d, g[k].value)
                                /\ \A j \in (k + 1)..(m + 1) : ~Clears(d, g[j].value)
    BY <1>3 DEF BadAt
  <2>2. CASE k = m + 1
    BY <1>1, <2>1, <2>2
  <2>3. CASE k # m + 1
    <3>1. k \in 1..m /\ m + 1 \in (k + 1)..(m + 1)
          /\ \A j \in (k + 1)..m : j \in (k + 1)..(m + 1)
      BY <1>1, <2>3
    <3> QED
      BY <1>1, <2>1, <3>1, Zenon DEF BadAt
  <2> QED
    BY <2>2, <2>3
<1>4. ASSUME Crosses(d, o.value) PROVE BadAt(d, g, m + 1)
  <2>1. m + 1 \in 1..(m + 1) /\ \A j \in ((m + 1) + 1)..(m + 1) : FALSE
    BY <1>1
  <2> QED
    BY <1>1, <1>4, <2>1, Zenon DEF BadAt
<1>5. ASSUME BadAt(d, g, m), ~Clears(d, o.value) PROVE BadAt(d, g, m + 1)
  <2>1. PICK k \in 1..m : /\ Crosses(d, g[k].value)
                          /\ \A j \in (k + 1)..m : ~Clears(d, g[j].value)
    BY <1>5 DEF BadAt
  <2>2. k \in 1..(m + 1) /\ \A j \in (k + 1)..(m + 1) : j \in (k + 1)..m \/ j = m + 1
    BY <1>1
  <2>3. \A j \in (k + 1)..(m + 1) : ~Clears(d, g[j].value)
    BY <1>1, <1>5, <2>1, <2>2, Zenon
  <2> QED
    BY <2>1, <2>2, <2>3, Zenon DEF BadAt
<1>6. BadAt(d, g, m + 1) <=> Crosses(d, o.value) \/ (BadAt(d, h, m) /\ ~Clears(d, o.value))
  BY <1>2, <1>3, <1>4, <1>5, Zenon
<1> QED
  BY <1>6 DEF g, m

LEMMA PrefixKeepsConfirmations ==
    ASSUME NEW d, NEW h \in Seq(Sample), NEW o \in Sample, NEW i \in 1..Len(h)
    PROVE  /\ FailureConfirmed(d, Append(h, o), i) <=> FailureConfirmed(d, h, i)
           /\ RecoveryConfirmed(d, Append(h, o), i) <=> RecoveryConfirmed(d, h, i)
<1> DEFINE g == Append(h, o)
<1>1. \A k \in 1..i : g[k] = h[k] /\ (BadAt(d, g, k) <=> BadAt(d, h, k))
  BY Appended, PrefixKeepsVerdicts
<1>2. i \in 1..i /\ \A s \in 1..i : \A k \in s..i : k \in 1..i
  OBVIOUS
<1> HIDE DEF g
<1>3. \A s \in 1..i : /\ (\A k \in s..i : BadAt(d, g, k)) <=> (\A k \in s..i : BadAt(d, h, k))
                      /\ (\A k \in s..i : ~BadAt(d, g, k)) <=> (\A k \in s..i : ~BadAt(d, h, k))
  BY <1>1, <1>2, Zenon
<1>4. FailureConfirmed(d, g, i) <=> FailureConfirmed(d, h, i)
  BY <1>1, <1>2, <1>3, Zenon DEF FailureConfirmed
<1>5. RecoveryConfirmed(d, g, i) <=> RecoveryConfirmed(d, h, i)
  BY <1>1, <1>2, <1>3, Zenon DEF RecoveryConfirmed
<1> QED
  BY <1>4, <1>5 DEF g

\* An outage is open after one more sample iff the sample confirms a failure,
\* or one was open and the sample confirms no recovery.
LEMMA OutageStep ==
    ASSUME NEW d, NEW h \in Seq(Sample), NEW o \in Sample
    PROVE  LET g == Append(h, o) IN
           InOutage(d, g) <=> \/ FailureConfirmed(d, g, Len(h) + 1)
                              \/ InOutage(d, h) /\ ~RecoveryConfirmed(d, g, Len(h) + 1)
<1> DEFINE g == Append(h, o)
           m == Len(h)
<1>1. m \in Nat /\ Len(g) = m + 1
  BY Appended
<1>2. \A i \in 1..m : /\ FailureConfirmed(d, g, i) <=> FailureConfirmed(d, h, i)
                      /\ RecoveryConfirmed(d, g, i) <=> RecoveryConfirmed(d, h, i)
  BY PrefixKeepsConfirmations
<1> HIDE DEF g
<1>3. InOutage(d, g) <=> \E i \in 1..(m + 1) : /\ FailureConfirmed(d, g, i)
                                    /\ \A j \in (i + 1)..(m + 1) : ~RecoveryConfirmed(d, g, j)
  BY <1>1 DEF InOutage
<1>4. InOutage(d, h) <=> \E i \in 1..m : /\ FailureConfirmed(d, h, i)
                                    /\ \A j \in (i + 1)..m : ~RecoveryConfirmed(d, h, j)
  BY DEF InOutage
<1> HIDE DEF m
<1>5. ASSUME InOutage(d, g), ~FailureConfirmed(d, g, m + 1)
      PROVE  InOutage(d, h) /\ ~RecoveryConfirmed(d, g, m + 1)
  <2>1. PICK i \in 1..(m + 1) : /\ FailureConfirmed(d, g, i)
                                /\ \A j \in (i + 1)..(m + 1) : ~RecoveryConfirmed(d, g, j)
    BY <1>3, <1>5, Zenon
  <2>2. i # m + 1
    BY <1>5, <2>1
  <2>3. i \in 1..m /\ m + 1 \in (i + 1)..(m + 1)
        /\ \A j \in (i + 1)..m : j \in (i + 1)..(m + 1) /\ j \in 1..m
    BY <1>1, <2>2
  <2> QED
    BY <1>2, <1>4, <2>1, <2>3, Zenon
<1>6. ASSUME FailureConfirmed(d, g, m + 1) PROVE InOutage(d, g)
  <2>1. m + 1 \in 1..(m + 1) /\ \A j \in ((m + 1) + 1)..(m + 1) : FALSE
    BY <1>1
  <2> QED
    BY <1>3, <1>6, <2>1, Zenon
<1>7. ASSUME InOutage(d, h), ~RecoveryConfirmed(d, g, m + 1) PROVE InOutage(d, g)
  <2>1. PICK i \in 1..m : /\ FailureConfirmed(d, h, i)
                          /\ \A j \in (i + 1)..m : ~RecoveryConfirmed(d, h, j)
    BY <1>4, <1>7, Zenon
  <2>2. i \in 1..(m + 1)
        /\ \A j \in (i + 1)..(m + 1) : j = m + 1 \/ (j \in (i + 1)..m /\ j \in 1..m)
    BY <1>1
  <2> QED
    BY <1>2, <1>3, <1>7, <2>1, <2>2, Zenon
<1> QED
  BY <1>5, <1>6, <1>7, Zenon DEF g, m

-----------------------------------------------------------------------------
(* The longest streak at the end decides: it has the most samples, and in  *)
(* a history in time order also the longest duration.                      *)

InTimeOrder(h) == \A i, j \in 1..Len(h) : i < j => h[i].at < h[j].at

LEMMA LaterStart ==
    ASSUME NEW x \in Nat, NEW y \in Nat, NEW z \in Nat, NEW bound \in Nat, z <= y, x - y >= bound
    PROVE  x - z >= bound
  OBVIOUS

LEMMA MoreSamples ==
    ASSUME NEW x \in Int, NEW y \in Int, NEW bound \in Nat, y >= x, x >= bound
    PROVE  y >= bound
  OBVIOUS

LEMMA LongestFailureStreak ==
    ASSUME NEW d, NEW h \in Seq(Sample), InTimeOrder(h), NEW f \in 1..Len(h),
           d.failFor \in Nat, d.failAfter \in Nat,
           \A i \in (Len(h) - f + 1)..Len(h) : BadAt(d, h, i),
           f < Len(h) => ~BadAt(d, h, Len(h) - f)
    PROVE  FailureConfirmed(d, h, Len(h)) <=>
              f >= d.failAfter /\ h[Len(h)].at - h[Len(h) - f + 1].at >= d.failFor
<1> DEFINE m == Len(h)
           b == m - f + 1
<1>1. m \in Nat /\ f \in 1..m /\ b \in 1..m /\ m - b + 1 = f
  OBVIOUS
<1>2. \A i \in 1..m : h[i].at \in Nat
  BY SampleShape
<1>3. \A i \in 1..m : b <= i => h[b].at <= h[i].at
  BY <1>1, <1>2 DEF InTimeOrder
<1>4. (\A i \in b..m : BadAt(d, h, i)) /\ (f < m => ~BadAt(d, h, b - 1))
  BY <1>1
<1> HIDE DEF m, b
<1>5. ASSUME FailureConfirmed(d, h, m)
      PROVE  f >= d.failAfter /\ h[m].at - h[b].at >= d.failFor
  <2>1. PICK s \in 1..m : /\ \A k \in s..m : BadAt(d, h, k)
                          /\ m - s + 1 >= d.failAfter
                          /\ h[m].at - h[s].at >= d.failFor
    BY <1>5, Zenon DEF FailureConfirmed
  <2>2. b <= s
    <3> SUFFICES ASSUME s < b PROVE FALSE
      BY <1>1
    <3>1. b - 1 \in s..m /\ f < m
      BY <1>1
    <3> QED
      BY <1>4, <2>1, <3>1, Zenon
  <2>3. h[b].at <= h[s].at /\ h[b].at \in Nat /\ h[s].at \in Nat
    BY <1>1, <1>2, <1>3, <2>2, Zenon
  <2>4. f >= m - s + 1 /\ m - s + 1 \in Int /\ f \in Int /\ m \in 1..m
    BY <1>1, <2>2
  <2>5. h[m].at \in Nat
    BY <1>2, <2>4, Zenon
  <2> QED
    BY <2>1, <2>3, <2>4, <2>5, LaterStart, MoreSamples, Zenon
<1>6. ASSUME f >= d.failAfter, h[m].at - h[b].at >= d.failFor
      PROVE  FailureConfirmed(d, h, m)
  BY <1>1, <1>4, <1>6 DEF FailureConfirmed
<1> QED
  BY <1>5, <1>6, Zenon DEF m, b

LEMMA LongestRecoveryStreak ==
    ASSUME NEW d, NEW h \in Seq(Sample), InTimeOrder(h), NEW f \in 1..Len(h),
           d.recoverFor \in Nat, d.recoverAfter \in Nat,
           \A i \in (Len(h) - f + 1)..Len(h) : ~BadAt(d, h, i),
           f < Len(h) => BadAt(d, h, Len(h) - f)
    PROVE  RecoveryConfirmed(d, h, Len(h)) <=>
              f >= d.recoverAfter /\ h[Len(h)].at - h[Len(h) - f + 1].at >= d.recoverFor
<1> DEFINE m == Len(h)
           b == m - f + 1
<1>1. m \in Nat /\ f \in 1..m /\ b \in 1..m /\ m - b + 1 = f
  OBVIOUS
<1>2. \A i \in 1..m : h[i].at \in Nat
  BY SampleShape
<1>3. \A i \in 1..m : b <= i => h[b].at <= h[i].at
  BY <1>1, <1>2 DEF InTimeOrder
<1>4. (\A i \in b..m : ~BadAt(d, h, i)) /\ (f < m => BadAt(d, h, b - 1))
  BY <1>1
<1> HIDE DEF m, b
<1>5. ASSUME RecoveryConfirmed(d, h, m)
      PROVE  f >= d.recoverAfter /\ h[m].at - h[b].at >= d.recoverFor
  <2>1. PICK s \in 1..m : /\ \A k \in s..m : ~BadAt(d, h, k)
                          /\ m - s + 1 >= d.recoverAfter
                          /\ h[m].at - h[s].at >= d.recoverFor
    BY <1>5, Zenon DEF RecoveryConfirmed
  <2>2. b <= s
    <3> SUFFICES ASSUME s < b PROVE FALSE
      BY <1>1
    <3>1. b - 1 \in s..m /\ f < m
      BY <1>1
    <3> QED
      BY <1>4, <2>1, <3>1, Zenon
  <2>3. h[b].at <= h[s].at /\ h[b].at \in Nat /\ h[s].at \in Nat
    BY <1>1, <1>2, <1>3, <2>2, Zenon
  <2>4. f >= m - s + 1 /\ m - s + 1 \in Int /\ f \in Int /\ m \in 1..m
    BY <1>1, <2>2
  <2>5. h[m].at \in Nat
    BY <1>2, <2>4, Zenon
  <2> QED
    BY <2>1, <2>3, <2>4, <2>5, LaterStart, MoreSamples, Zenon
<1>6. ASSUME f >= d.recoverAfter, h[m].at - h[b].at >= d.recoverFor
      PROVE  RecoveryConfirmed(d, h, m)
  BY <1>1, <1>4, <1>6 DEF RecoveryConfirmed
<1> QED
  BY <1>5, <1>6, Zenon DEF m, b

-----------------------------------------------------------------------------
\* judge's verdict on a sample is the reference's verdict on the longer
\* history, and a numeric definition remembers it in the hysteresis bit.
LEMMA JudgeVerdict ==
    ASSUME IInv, NEW o \in Sample
    PROVE  LET j == Judge(def, rec, o.value)
               bad == BadAt(def, Append(hist, o), n + 1)
           IN  /\ j.good \in BOOLEAN /\ j.breached \in BOOLEAN
               /\ j.good <=> ~bad
               /\ def.kind # "good_when" => (j.breached <=> bad)
<1> DEFINE v == o.value
           bad == BadAt(def, Append(hist, o), n + 1)
<1>1. def \in Definition /\ ValidDefinition(def) /\ rec.breached \in BOOLEAN
      /\ hist \in Seq(Sample)
  BY HealthRunAssumption DEF IInv, TypeOK, Record
<1>2. v.num \in Int
  BY SampleShape DEF Values
<1>3. bad <=> Crosses(def, v) \/ (Bad(n) /\ ~Clears(def, v))
  BY <1>1, LastVerdict, Zenon DEF n, Bad
<1>4. HysteresisBit
  BY DEF IInv
<1> HIDE DEF bad, v
<1>k. def.kind \in {"good_when", "above", "below"} /\ def.breach \in Int /\ def.clear \in Int
      /\ def.equals \in BOOLEAN
  BY <1>1 DEF Definition
<1>5. CASE def.kind = "good_when"
  <2>1. Judge(def, rec, v) = [good |-> (v.num = 1) = def.equals, breached |-> rec.breached]
    BY <1>5, Zenon DEF Judge
  <2>2. /\ Crosses(def, v) <=> (v.num = 1) # def.equals
        /\ Clears(def, v) <=> (v.num = 1) = def.equals
    BY <1>5 DEF Crosses, Clears
  <2>3. ((v.num = 1) = def.equals) \in BOOLEAN
    BY Zenon
  <2>4. /\ Judge(def, rec, v).good = ((v.num = 1) = def.equals)
        /\ Judge(def, rec, v).breached = rec.breached
    <3> DEFINE x == (v.num = 1) = def.equals
    <3> HIDE DEF x
    <3>1. Judge(def, rec, v) = [good |-> x, breached |-> rec.breached]
      BY <2>1 DEF x
    <3>2. Judge(def, rec, v).good = x /\ Judge(def, rec, v).breached = rec.breached
      BY <3>1
    <3> QED
      BY <3>2, Zenon DEF x
  <2>5. Judge(def, rec, v).good <=> ~bad
    BY <1>3, <2>2, <2>4, Zenon
  <2> QED
    BY <1>1, <1>5, <2>3, <2>4, <2>5, Zenon DEF v, bad
<1>6. CASE def.kind \in {"above", "below"}
  <2> DEFINE b == Breached(def, rec.breached, v.num)
  <2>1. Judge(def, rec, v) = [good |-> ~b, breached |-> b]
    BY <1>6 DEF Judge
  <2>2. b <=> Crosses(def, v) \/ (rec.breached /\ ~Clears(def, v))
    <3>1. CASE def.kind = "above"
      <4>1. def.clear <= def.breach
        BY <1>1, <3>1 DEF ValidDefinition
      <4>2. (Crosses(def, v) <=> v.num > def.breach) /\ (Clears(def, v) <=> v.num < def.clear)
        BY <3>1 DEF Crosses, Clears
      <4>3. b <=> IF rec.breached THEN ~(v.num < def.clear) ELSE v.num > def.breach
        BY <3>1 DEF Breached
      <4> QED
        BY <1>1, <1>2, <1>k, <4>1, <4>2, <4>3
    <3>2. CASE def.kind = "below"
      <4>1. def.clear >= def.breach
        BY <1>1, <3>2 DEF ValidDefinition
      <4>2. (Crosses(def, v) <=> v.num < def.breach) /\ (Clears(def, v) <=> v.num > def.clear)
        BY <3>2 DEF Crosses, Clears
      <4>3. b <=> IF rec.breached THEN ~(v.num > def.clear) ELSE v.num < def.breach
        BY <3>2 DEF Breached
      <4> QED
        BY <1>1, <1>2, <1>k, <4>1, <4>2, <4>3
    <3> QED
      BY <1>6, <3>1, <3>2
  <2>3. b \in BOOLEAN
    <3>1. \A x, y : (x < y) \in BOOLEAN /\ (x > y) \in BOOLEAN
      BY SMT
    <3> QED
      BY <3>1, Zenon DEF Breached
  <2> HIDE DEF b
  <2>4. b <=> bad
    <3>1. def.kind # "good_when"
      BY <1>6
    <3> QED
      BY <1>3, <1>4, <2>2, <3>1, Zenon DEF HysteresisBit
  <2>5. Judge(def, rec, v).good = ~b /\ Judge(def, rec, v).breached = b
    <3> DEFINE x == ~b
    <3> HIDE DEF x
    <3>1. Judge(def, rec, v) = [good |-> x, breached |-> b]
      BY <2>1 DEF x
    <3>2. Judge(def, rec, v).good = x /\ Judge(def, rec, v).breached = b
      BY <3>1
    <3> QED
      BY <3>2, Zenon DEF x
  <2>6. /\ Judge(def, rec, v).good \in BOOLEAN /\ Judge(def, rec, v).breached \in BOOLEAN
        /\ Judge(def, rec, v).good <=> ~bad
        /\ Judge(def, rec, v).breached <=> bad
    BY <2>3, <2>4, <2>5, Zenon
  <2> QED
    BY <2>6, Zenon DEF v, bad
<1> QED
  BY <1>k, <1>5, <1>6, Zenon

\* Within an outage successes is the length of the good streak at the end,
\* which a bad sample precedes.
LEMMA OutageStreak ==
    ASSUME IInv, rec.state \in OutageStates
    PROVE  /\ n \in Nat /\ rec.successes \in 0..(n - 1)
           /\ \A i \in (n - rec.successes + 1)..n : ~Bad(i)
           /\ Bad(n - rec.successes)
           /\ rec.successes > 0 => rec.goodSince = hist[n - rec.successes + 1].at
<1>1. n \in Nat
  BY DEF IInv, TypeOK, n
<1>2. CASE rec.state = "RECOVERING"
  BY <1>1, <1>2 DEF IInv, RecoveryStreak
<1>3. CASE rec.state = "DOWN"
  <2>1. Bad(n) /\ n # 0 /\ rec.successes = 0
    BY <1>3 DEF IInv, VerdictInState, RecordedIffApplied, RecoveryStreak
  <2> QED
    BY <1>1, <2>1
<1> QED
  BY <1>2, <1>3 DEF OutageStates

-----------------------------------------------------------------------------
\* One applied sample.
LEMMA ApplyPreserves ==
    ASSUME IInv, NEW o \in Sample, ~Ignored(def, rec, o),
           rec' = Applied(def, rec, o), hist' = Append(hist, o), def' = def
    PROVE  IInv'
<1> DEFINE m == n
           g == Append(hist, o)
           j == Judge(def, rec, o.value)
           r == [rec EXCEPT !.breached = j.breached, !.lastObservedAt = o.at,
                            !.lastSeenAt = IF o.source = "sweeper" THEN @ ELSE o.at]
           bad == BadAt(def, g, m + 1)
<1>a. /\ TypeOK /\ RecordedIffApplied /\ HysteresisBit /\ VerdictInState
      /\ FailureStreak /\ RecoveryStreak /\ AppliedInOrder
  BY DEF IInv
<1>b. /\ def \in Definitions /\ def \in Definition /\ rec \in Record /\ hist \in Seq(Sample)
      /\ def.failAfter \in Nat /\ def.failFor \in Nat
      /\ def.recoverAfter \in Nat /\ def.recoverFor \in Nat
      /\ def.failAfter >= 1 /\ def.recoverAfter >= 1
  <2>1. def \in Definition /\ ValidDefinition(def)
    BY <1>a, HealthRunAssumption DEF TypeOK
  <2> QED
    BY <1>a, <2>1 DEF TypeOK, Definition, ValidDefinition
<1>c. /\ m \in Nat /\ g \in Seq(Sample) /\ Len(g) = m + 1 /\ g[m + 1] = o
      /\ \A i \in 1..m : g[i] = hist[i]
  BY <1>b, Appended DEF n
<1>d. \A i \in 0..m : BadAt(def, g, i) <=> Bad(i)
  BY <1>b, PrefixKeepsVerdicts DEF n, Bad
<1>e. /\ j.good \in BOOLEAN /\ j.breached \in BOOLEAN /\ (j.good <=> ~bad)
      /\ def.kind # "good_when" => (j.breached <=> bad)
  BY JudgeVerdict, Zenon
<1>f. InOutage(def, g) <=> \/ FailureConfirmed(def, g, m + 1)
                           \/ rec.state \in OutageStates /\ ~RecoveryConfirmed(def, g, m + 1)
  BY <1>a, <1>b, OutageStep, Zenon DEF VerdictInState, n
<1>o. o.at \in Nat /\ o.source = "snmp"
  BY SampleShape
<1>t. InTimeOrder(g)
  <2>1. \A i \in 1..m : hist[i].at < o.at
    <3> SUFFICES ASSUME NEW i \in 1..m PROVE hist[i].at < o.at
      OBVIOUS
    <3>1. hist # <<>> /\ m \in 1..m /\ m # 0
      BY <1>b, <1>c DEF n
    <3>2. rec.state # "NONE" /\ rec.lastObservedAt = hist[m].at
      BY <1>a, <3>1 DEF RecordedIffApplied, AppliedInOrder, n
    <3>3. ~(o.at <= hist[m].at)
      BY <3>2, Zenon DEF Ignored, Outdated
    <3>4. hist[i].at \in Nat /\ hist[m].at \in Nat
      BY <1>b, <3>1, SampleShape DEF n
    <3>5. hist[i].at <= hist[m].at
      BY <1>a, <1>c, <3>1, <3>4 DEF AppliedInOrder, n
    <3> QED
      BY <1>o, <3>3, <3>4, <3>5
  <2>2. \A i, k \in 1..m : i < k => hist[i].at < hist[k].at
    BY <1>a DEF AppliedInOrder, n
  <2> HIDE DEF g, m
  <2> SUFFICES ASSUME NEW i \in 1..(m + 1), NEW k \in 1..(m + 1), i < k
               PROVE  g[i].at < g[k].at
    BY <1>c, Zenon DEF InTimeOrder
  <2>3. i \in 1..m /\ g[i] = hist[i]
    BY <1>c
  <2>4. CASE k = m + 1
    BY <1>c, <2>1, <2>3, <2>4, Zenon
  <2>5. CASE k # m + 1
    <3>1. k \in 1..m
      BY <1>c, <2>5
    <3> QED
      BY <1>c, <2>2, <2>3, <3>1, Zenon
  <2> QED
    BY <2>4, <2>5, Zenon
<1>r. /\ r \in Record /\ r.state = rec.state /\ r.failures = rec.failures
      /\ r.successes = rec.successes /\ r.badSince = rec.badSince /\ r.goodSince = rec.goodSince
      /\ r.breached = j.breached /\ r.lastObservedAt = o.at /\ r.lastSeenAt = o.at
  <2> DEFINE seen == IF o.source = "sweeper" THEN rec.lastSeenAt ELSE o.at
  <2>1. seen = o.at
    BY <1>o
  <2>2. r = [rec EXCEPT !.breached = j.breached, !.lastObservedAt = o.at, !.lastSeenAt = seen]
    BY Zenon
  <2> HIDE DEF r, seen, j
  <2>3. r = [rec EXCEPT !.breached = j.breached, !.lastObservedAt = o.at, !.lastSeenAt = o.at]
    BY <2>1, <2>2, Zenon
  <2>4. r \in Record
    BY <1>b, <1>e, <1>o, <2>3, Zenon DEF Record, Times
  <2> QED
    BY <1>b, <2>3, <2>4 DEF Record
<1>s. rec' = Step(def, r, j.good, o.at)
  BY Zenon DEF Applied
<1>p. /\ n' = m + 1 /\ hist' = g /\ def' = def
      /\ Bad(n)' = bad
  BY <1>c DEF n, Bad
<1> HIDE DEF m, g, j, r, bad
<1>1. rec' \in Record /\ rec'.state # "NONE"
  <2>1. /\ Step(def, r, j.good, o.at) \in Record
        /\ Moves(r.state, Step(def, r, j.good, o.at).state)
    BY <1>b, <1>e, <1>o, <1>r, GoodStepShape, BadStepShape, Zenon DEF Step
  <2> QED
    BY <1>s, <2>1 DEF Moves, HealthStates
<1>2. TypeOK' /\ RecordedIffApplied'
  BY <1>1, <1>b, <1>c, <1>p DEF TypeOK, RecordedIffApplied, m
<1>3. CASE bad
  <2> DEFINE f == rec.failures
             since == IF f = 0 THEN o.at ELSE rec.badSince
             confirmed == f + 1 >= def.failAfter /\ o.at - since >= def.failFor
  <2>1. rec' = BadStep(def, r, o.at)
    BY <1>3, <1>e, <1>s, Zenon DEF Step
  <2>2. /\ rec'.successes = 0 /\ rec'.breached = j.breached
        /\ rec'.failures = f + 1 /\ rec'.badSince = since
        /\ rec'.lastObservedAt = o.at /\ rec'.lastSeenAt = o.at
        /\ rec'.state = IF rec.state \in OutageStates \/ confirmed THEN "DOWN" ELSE "SUSPECT"
    <3> DEFINE since2 == IF r.failures = 0 THEN o.at ELSE r.badSince
               confirmed2 == r.failures + 1 >= def.failAfter /\ o.at - since2 >= def.failFor
    <3>0. def \in Definition /\ r \in Record /\ o.at \in Nat
      BY <1>b, <1>o, <1>r
    <3> DEFINE b == BadStep(def, r, o.at)
    <3>a. /\ b.successes = 0 /\ b.breached = r.breached
          /\ b.failures = r.failures + 1 /\ b.badSince = since2
          /\ b.lastObservedAt = r.lastObservedAt /\ b.lastSeenAt = r.lastSeenAt
          /\ b.state = IF r.state \in OutageStates \/ confirmed2 THEN "DOWN" ELSE "SUSPECT"
      BY <3>0, BadFields, Zenon
    <3>1. rec' = b
      BY <2>1
    <3>2. since2 = since
      BY <1>r, Zenon
    <3> HIDE DEF since, since2, b
    <3> QED
      BY <1>r, <3>a, <3>1, <3>2, SMT
  <2>3. /\ f \in 0..m /\ (\A i \in (m - f + 1)..m : Bad(i)) /\ (f < m => ~Bad(m - f))
        /\ (f > 0 => rec.badSince = hist[m - f + 1].at)
    BY <1>a, Zenon DEF FailureStreak, m
  <2> HIDE DEF f, since
  <2>4. /\ f + 1 \in 1..(m + 1) /\ m - f + 1 \in 1..(m + 1)
        /\ (m + 1) - (f + 1) + 1 = m - f + 1 /\ (m + 1) - (f + 1) = m - f
        /\ (f + 1 < m + 1 => m - f \in 0..m /\ f < m)
        /\ \A i \in (m - f + 1)..(m + 1) : i = m + 1 \/ (i \in (m - f + 1)..m /\ i \in 0..m)
    BY <1>c, <2>3
  <2>5. since = g[m - f + 1].at
    <3>1. CASE f = 0
      <4>1. m - f + 1 = m + 1
        BY <1>c, <3>1
      <4> QED
        BY <1>c, <3>1, <4>1, Zenon DEF since, f
    <3>2. CASE f # 0
      <4>1. f > 0 /\ m - f + 1 \in 1..m
        BY <1>c, <2>3, <3>2
      <4> QED
        BY <1>c, <2>3, <3>2, <4>1, Zenon DEF since, f
    <3> QED
      BY <3>1, <3>2
  <2>6. /\ \A i \in (m - f + 1)..(m + 1) : BadAt(def, g, i)
        /\ f + 1 < m + 1 => ~BadAt(def, g, m - f)
    BY <1>3, <1>d, <2>3, <2>4, Zenon DEF bad
  <2>7. FailureConfirmed(def, g, m + 1) <=> confirmed
    <3>1. /\ f + 1 \in 1..Len(g)
          /\ \A i \in (Len(g) - (f + 1) + 1)..Len(g) : BadAt(def, g, i)
          /\ f + 1 < Len(g) => ~BadAt(def, g, Len(g) - (f + 1))
      BY <1>c, <2>4, <2>6
    <3>2. FailureConfirmed(def, g, Len(g)) <=>
             f + 1 >= def.failAfter /\ g[Len(g)].at - g[Len(g) - (f + 1) + 1].at >= def.failFor
      BY <1>b, <1>c, <1>t, <3>1, LongestFailureStreak
    <3> QED
      BY <1>c, <2>4, <2>5, <3>2, Zenon
  <2>8. ~RecoveryConfirmed(def, g, m + 1)
    <3>1. \A s \in 1..(m + 1) : m + 1 \in s..(m + 1)
      BY <1>c
    <3> QED
      BY <1>3, <3>1, Zenon DEF RecoveryConfirmed, bad
  <2> HIDE DEF confirmed
  <2>9. VerdictInState' /\ HysteresisBit'
    <3>1. /\ rec'.state \in {"DOWN", "SUSPECT"}
          /\ rec'.state \in OutageStates <=> rec.state \in OutageStates \/ confirmed
      BY <2>2 DEF OutageStates
    <3> QED
      BY <1>3, <1>e, <1>f, <1>p, <2>2, <2>7, <2>8, <3>1, Zenon DEF VerdictInState, HysteresisBit
  <2>10. FailureStreak'
    <3>1. /\ rec'.failures \in 0..(m + 1)
          /\ \A i \in ((m + 1) - rec'.failures + 1)..(m + 1) : BadAt(def, g, i)
          /\ rec'.failures < m + 1 => ~BadAt(def, g, (m + 1) - rec'.failures)
          /\ rec'.badSince = g[(m + 1) - rec'.failures + 1].at
      BY <1>c, <2>2, <2>4, <2>5, <2>6
    <3> QED
      BY <1>p, <3>1, Zenon DEF FailureStreak, Bad
  <2>11. RecoveryStreak'
    <3>1. rec'.state # "RECOVERING"
      BY <2>2
    <3> QED
      BY <2>2, <3>1, Zenon DEF RecoveryStreak
  <2>12. AppliedInOrder'
    BY <1>c, <1>p, <1>t, <2>2 DEF AppliedInOrder, InTimeOrder
  <2> QED
    BY <1>2, <2>9, <2>10, <2>11, <2>12 DEF IInv
<1>4. CASE ~bad
  <2>1. rec' = GoodStep(def, r, o.at)
    BY <1>4, <1>e, <1>s, Zenon DEF Step
  <2> DEFINE q == rec.successes
             since == IF q = 0 THEN o.at ELSE rec.goodSince
             confirmed == q + 1 >= def.recoverAfter /\ o.at - since >= def.recoverFor
  <2>2. /\ rec'.failures = 0 /\ rec'.breached = j.breached
        /\ rec'.lastObservedAt = o.at /\ rec'.lastSeenAt = o.at
        /\ rec.state \notin OutageStates => rec'.state = "UP" /\ rec'.successes = q
        /\ rec.state \in OutageStates /\ confirmed => rec'.state = "UP" /\ rec'.successes = 0
        /\ rec.state \in OutageStates /\ ~confirmed =>
              rec'.state = "RECOVERING" /\ rec'.successes = q + 1 /\ rec'.goodSince = since
    <3> DEFINE since2 == IF r.successes = 0 THEN o.at ELSE r.goodSince
               confirmed2 == r.successes + 1 >= def.recoverAfter /\ o.at - since2 >= def.recoverFor
    <3>0. def \in Definition /\ r \in Record /\ o.at \in Nat
      BY <1>b, <1>o, <1>r
    <3> DEFINE b == GoodStep(def, r, o.at)
    <3>a. /\ b.failures = 0 /\ b.breached = r.breached
          /\ b.lastObservedAt = r.lastObservedAt /\ b.lastSeenAt = r.lastSeenAt
          /\ r.state \notin OutageStates => b.state = "UP" /\ b.successes = r.successes
          /\ r.state \in OutageStates /\ confirmed2 => b.state = "UP" /\ b.successes = 0
          /\ r.state \in OutageStates /\ ~confirmed2 =>
                /\ b.state = "RECOVERING" /\ b.successes = r.successes + 1
                /\ b.goodSince = since2
      BY <3>0, GoodFields, Zenon
    <3>1. rec' = b
      BY <2>1
    <3>2. since2 = since
      BY <1>r, Zenon
    <3> HIDE DEF since, since2, b
    <3> QED
      BY <1>r, <3>a, <3>1, <3>2, SMT
  <2> HIDE DEF since, q
  <2>3. ~FailureConfirmed(def, g, m + 1)
    <3>1. \A s \in 1..(m + 1) : m + 1 \in s..(m + 1)
      BY <1>c
    <3> QED
      BY <1>4, <3>1, Zenon DEF FailureConfirmed, bad
  <2>4. FailureStreak'
    <3>1. /\ 0 \in 0..(m + 1) /\ (\A i \in ((m + 1) - 0 + 1)..(m + 1) : FALSE)
          /\ (m + 1) - 0 = m + 1 /\ ~(0 > 0)
      BY <1>c
    <3> QED
      BY <1>4, <1>p, <2>2, <3>1, Zenon DEF FailureStreak, Bad, bad
  <2>5. AppliedInOrder'
    BY <1>c, <1>p, <1>t, <2>2 DEF AppliedInOrder, InTimeOrder
  <2>h. HysteresisBit'
    BY <1>4, <1>e, <1>p, <2>2, Zenon DEF HysteresisBit
  <2>6. CASE rec.state \notin OutageStates
    <3>1. rec'.state = "UP" /\ rec'.successes = 0
      BY <1>a, <2>2, <2>6 DEF RecoveryStreak, OutageStates, q
    <3>2. VerdictInState'
      <4>1. rec'.state \notin OutageStates /\ rec'.state \notin {"DOWN", "SUSPECT"}
        BY <3>1 DEF OutageStates
      <4> QED
        BY <1>4, <1>f, <1>p, <2>3, <2>6, <4>1, Zenon DEF VerdictInState
    <3>3. RecoveryStreak'
      BY <3>1 DEF RecoveryStreak
    <3> QED
      BY <1>2, <2>4, <2>5, <2>h, <3>2, <3>3 DEF IInv
  <2>7. CASE rec.state \in OutageStates
    <3>1. /\ q \in 0..(m - 1) /\ (\A i \in (m - q + 1)..m : ~Bad(i)) /\ Bad(m - q)
          /\ (q > 0 => rec.goodSince = hist[m - q + 1].at)
      BY <2>7, OutageStreak, Zenon DEF q, m
    <3>2. /\ q + 1 \in 1..m /\ m - q + 1 \in 1..(m + 1) /\ m - q \in 0..m
          /\ (m + 1) - (q + 1) + 1 = m - q + 1 /\ (m + 1) - (q + 1) = m - q
          /\ \A i \in (m - q + 1)..(m + 1) : i = m + 1 \/ (i \in (m - q + 1)..m /\ i \in 0..m)
      BY <1>c, <3>1
    <3>3. since = g[m - q + 1].at
      <4>1. CASE q = 0
        <5>1. m - q + 1 = m + 1
          BY <1>c, <4>1
        <5> QED
          BY <1>c, <4>1, <5>1, Zenon DEF since, q
      <4>2. CASE q # 0
        <5>1. q > 0 /\ m - q + 1 \in 1..m
          BY <1>c, <3>1, <4>2
        <5> QED
          BY <1>c, <3>1, <4>2, <5>1, Zenon DEF since, q
      <4> QED
        BY <4>1, <4>2
    <3>4. /\ \A i \in (m - q + 1)..(m + 1) : ~BadAt(def, g, i)
          /\ BadAt(def, g, m - q)
      BY <1>4, <1>d, <3>1, <3>2, Zenon DEF bad
    <3>5. RecoveryConfirmed(def, g, m + 1) <=> confirmed
      <4>1. /\ q + 1 \in 1..Len(g)
            /\ \A i \in (Len(g) - (q + 1) + 1)..Len(g) : ~BadAt(def, g, i)
            /\ q + 1 < Len(g) => BadAt(def, g, Len(g) - (q + 1))
        BY <1>c, <3>2, <3>4
      <4>2. RecoveryConfirmed(def, g, Len(g)) <=>
               q + 1 >= def.recoverAfter
               /\ g[Len(g)].at - g[Len(g) - (q + 1) + 1].at >= def.recoverFor
        BY <1>b, <1>c, <1>t, <4>1, LongestRecoveryStreak
      <4> QED
        BY <1>c, <3>2, <3>3, <4>2, Zenon
    <3> HIDE DEF confirmed
    <3>6. CASE confirmed
      <4>1. rec'.state = "UP" /\ rec'.successes = 0
        BY <2>2, <2>7, <3>6, Zenon
      <4>2. rec'.state \notin OutageStates /\ rec'.state \notin {"DOWN", "SUSPECT"}
        BY <4>1 DEF OutageStates
      <4>3. VerdictInState'
        BY <1>4, <1>f, <1>p, <2>3, <3>5, <3>6, <4>2, Zenon DEF VerdictInState
      <4>4. RecoveryStreak'
        BY <4>1 DEF RecoveryStreak
      <4> QED
        BY <1>2, <2>4, <2>5, <2>h, <4>3, <4>4 DEF IInv
    <3>7. CASE ~confirmed
      <4>1. rec'.state = "RECOVERING" /\ rec'.successes = q + 1 /\ rec'.goodSince = since
        BY <2>2, <2>7, <3>7, Zenon
      <4>2. rec'.state \in OutageStates /\ rec'.state \notin {"DOWN", "SUSPECT"}
        BY <4>1 DEF OutageStates
      <4>3. VerdictInState'
        BY <1>4, <1>f, <1>p, <2>7, <3>5, <3>7, <4>2, Zenon DEF VerdictInState
      <4>4. /\ rec'.successes \in 1..((m + 1) - 1)
            /\ \A i \in ((m + 1) - rec'.successes + 1)..(m + 1) : ~BadAt(def, g, i)
            /\ BadAt(def, g, (m + 1) - rec'.successes)
            /\ rec'.goodSince = g[(m + 1) - rec'.successes + 1].at
        BY <1>c, <3>2, <3>3, <3>4, <4>1
      <4>5. RecoveryStreak'
        BY <1>p, <4>1, <4>4, Zenon DEF RecoveryStreak, Bad
      <4> QED
        BY <1>2, <2>4, <2>5, <2>h, <4>3, <4>5 DEF IInv
    <3> QED
      BY <3>6, <3>7
  <2> QED
    BY <2>6, <2>7
<1> QED
  BY <1>3, <1>4

-----------------------------------------------------------------------------
LEMMA InitIInv == Init => IInv
<1> SUFFICES ASSUME Init PROVE IInv
  OBVIOUS
<1>1. /\ rec = NoRecord /\ hist = <<>> /\ def \in Definitions /\ hist \in Seq(Sample) /\ n = 0
  BY DEF Init, n
<1>2. /\ NoRecord \in Record /\ NoRecord.state = "NONE" /\ NoRecord.breached = FALSE
      /\ NoRecord.failures = 0 /\ NoRecord.successes = 0
  BY DEF NoRecord, Record, Times, ZeroTime, HealthStates
<1>3. ~Bad(0)
  BY DEF Bad, BadAt
<1>4. ~InOutage(def, hist)
  BY <1>1 DEF InOutage, n
<1>5. RecordedIffApplied /\ HysteresisBit /\ VerdictInState /\ RecoveryStreak
  BY <1>1, <1>2, <1>3, <1>4 DEF RecordedIffApplied, HysteresisBit, VerdictInState, RecoveryStreak,
     OutageStates
<1>6. FailureStreak /\ AppliedInOrder
  BY <1>1, <1>2 DEF FailureStreak, AppliedInOrder
<1> QED
  BY <1>1, <1>2, <1>5, <1>6 DEF IInv, TypeOK

LEMMA UnchangedIInv == IInv /\ UNCHANGED vars => IInv'
<1> SUFFICES ASSUME IInv, UNCHANGED vars PROVE IInv'
  OBVIOUS
<1>1. def' = def /\ rec' = rec /\ hist' = hist
  BY DEF vars
<1>2. n' = n /\ \A i : Bad(i)' = Bad(i)
  BY <1>1 DEF n, Bad
<1>3. TypeOK' /\ RecordedIffApplied' /\ AppliedInOrder'
  BY <1>1, <1>2 DEF IInv, TypeOK, RecordedIffApplied, AppliedInOrder
<1>4. HysteresisBit' /\ VerdictInState'
  BY <1>1, Zenon DEF IInv, HysteresisBit, VerdictInState, Bad, n
<1>5. FailureStreak' /\ RecoveryStreak'
  BY <1>1, Zenon DEF IInv, FailureStreak, RecoveryStreak, Bad, n
<1> QED
  BY <1>3, <1>4, <1>5 DEF IInv

LEMMA NextIInv == IInv /\ [Next]_vars => IInv'
<1> SUFFICES ASSUME IInv, [Next]_vars PROVE IInv'
  OBVIOUS
<1>1. CASE UNCHANGED vars
  BY <1>1, UnchangedIInv
<1>2. ASSUME NEW o \in Sample, Feed(o) PROVE IInv'
  <2>1. CASE Ignored(def, rec, o)
    <3>1. rec' = rec /\ hist' = hist /\ def' = def
      BY <1>2, <2>1, Zenon DEF Feed, Evaluate
    <3> QED
      BY <3>1, UnchangedIInv DEF vars
  <2>2. CASE ~Ignored(def, rec, o)
    <3>1. rec' = Applied(def, rec, o) /\ hist' = Append(hist, o) /\ def' = def
      BY <1>2, <2>2, Zenon DEF Feed, Evaluate
    <3> QED
      BY <2>2, <3>1, ApplyPreserves
  <2> QED
    BY <2>1, <2>2
<1> QED
  BY <1>1, <1>2 DEF Next

LEMMA InvariantMeaning == IInv => StateMatchesHistory
<1> SUFFICES ASSUME IInv PROVE StateMatchesHistory
  OBVIOUS
<1>1. rec.state \in {"NONE", "UP", "SUSPECT", "DOWN", "RECOVERING"} /\ RecordedIffApplied
  BY DEF IInv, TypeOK, Record, HealthStates
<1>2. /\ BadAt(def, hist, Len(hist)) <=> rec.state \in {"DOWN", "SUSPECT"}
      /\ InOutage(def, hist) <=> rec.state \in OutageStates
  BY DEF IInv, VerdictInState, Bad, n
<1> QED
  BY <1>1, <1>2 DEF StateMatchesHistory, RecordedIffApplied, n, OutageStates

\* The state engine's counters, timestamps and hysteresis bit always amount to
\* what the applied history means: an outage is open iff a confirmed failure
\* was not followed by a confirmed recovery, for every valid definition and
\* any stream of samples (state/engine.go Evaluate, step, judge).
THEOREM EngineComputesHistory == Spec => []StateMatchesHistory
  BY InitIInv, NextIInv, InvariantMeaning, PTL DEF Spec

\* Applied samples are in strictly increasing time order and the record
\* carries the newest of them (the ordering guard of Evaluate).
THEOREM GuardKeepsOrder == Spec => []AppliedInOrder
<1>1. IInv => AppliedInOrder
  BY DEF IInv
<1> QED
  BY <1>1, InitIInv, NextIInv, PTL DEF Spec

\* eventFor reports an alert exactly when an outage begins and a recovery
\* exactly when it ends, in every step of every run.
THEOREM EventsAreOutageEdges == Spec => EventsOnOutageEdgesOnly
<1>1. IInv /\ IInv' /\ [Next]_vars => [EdgeStep]_vars
  <2> SUFFICES ASSUME IInv, IInv', NEW o \in Sample, Feed(o) PROVE EdgeStep
    BY DEF Next
  <2>1. def' = def
    BY DEF Feed
  <2>2. /\ InOutage(def, hist) <=> rec.state \in OutageStates
        /\ InOutage(def, hist') <=> rec'.state \in OutageStates
    BY <2>1, Zenon DEF IInv, VerdictInState
  <2>3. rec'.state = rec.state \/ Moves(rec.state, rec'.state)
    <3>1. def \in Definition /\ rec \in Record
      BY HealthRunAssumption DEF IInv, TypeOK
    <3> QED
      BY <3>1, SampleShape, EvaluateShape, Zenon DEF Feed
  <2> QED
    BY <2>2, <2>3 DEF EdgeStep, EventFor, Moves, OutageStates, HealthStates
<1> QED
  BY <1>1, InitIInv, NextIInv, PTL DEF Spec, EventsOnOutageEdgesOnly
=============================================================================

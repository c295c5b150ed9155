---------------------------- MODULE StageBProofs ----------------------------
(***************************************************************************)
(* Stage B, for every set of definitions, rules, devices and processors    *)
(* and every bound of the clock: the tables stay typed, the alerts follow  *)
(* the states, every event is announced, each entity's events alternate    *)
(* and its audit is a path, and the whole implements AlertLifecycle.       *)
(***************************************************************************)
EXTENDS StageB, TLAPS

\* An event row is written in the transaction that stores its observation, so
\* the event of a new observation is itself new and recordEvent never skips it.
EventsFromStored == \A e \in events : e.obs \in stored

\* The inductive invariant: AlertMatchesState alone is not inductive, because
\* nothing in it says that the events of a new observation are not there yet.
IInv == TypeOK /\ EventsFromStored /\ AlertMatchesState

-----------------------------------------------------------------------------
(* The state engine, for every definition and record.                      *)

\* How step moves an entity between outage and normal states: RECOVERING is
\* entered only from an outage, and an outage is left only to UP.
Moves(from, to) ==
    /\ to \in HealthStates
    /\ from \notin OutageStates => to # "RECOVERING"
    /\ from \in OutageStates => to \in {"UP", "DOWN", "RECOVERING"}

\* A good sample keeps the record well formed and moves it as Moves says
\* (state/engine.go step, good branch).
LEMMA GoodStepShape ==
    ASSUME NEW def \in Definition, NEW rec \in Record, NEW at \in Nat
    PROVE  /\ GoodStep(def, rec, at) \in Record
           /\ Moves(rec.state, GoodStep(def, rec, at).state)
<1> DEFINE base  == [rec EXCEPT !.failures = 0, !.badSince = ZeroTime]
           since == IF rec.successes = 0 THEN at ELSE rec.goodSince
           up    == [base EXCEPT !.state = "UP"]
           back  == [base EXCEPT !.state = "UP", !.successes = 0, !.goodSince = ZeroTime]
           rising == [base EXCEPT !.state = "RECOVERING",
                                  !.successes = rec.successes + 1, !.goodSince = since]
           confirmed == /\ rec.successes + 1 >= def.recoverAfter
                        /\ at - since >= def.recoverFor
<1>1. since \in Nat /\ rec.successes + 1 \in Nat
  BY DEF Record, Times
<1>2. 0 \in Nat /\ ZeroTime \in Nat
  BY DEF ZeroTime
<1>3. base \in Record
  BY <1>2, Zenon DEF Record, Times
<1>4. /\ up \in Record     /\ up.state = "UP"
      /\ back \in Record   /\ back.state = "UP"
      /\ rising \in Record /\ rising.state = "RECOVERING"
  <2> HIDE DEF base, since
  <2>1. up \in Record /\ up.state = "UP"
    BY <1>3, Zenon DEF Record, HealthStates
  <2>2. back \in Record /\ back.state = "UP"
    BY <1>2, <1>3, Zenon DEF Record, HealthStates, Times
  <2>3. rising \in Record /\ rising.state = "RECOVERING"
    BY <1>1, <1>3, Zenon DEF Record, HealthStates, Times
  <2> QED
    BY <2>1, <2>2, <2>3, Zenon
<1>5. CASE rec.state \in {"NONE", "UP", "SUSPECT"}
  <2>1. GoodStep(def, rec, at) = up
    BY <1>5 DEF GoodStep
  <2> QED
    BY <1>4, <1>5, <2>1, Zenon DEF Moves, HealthStates, OutageStates
<1>6. CASE rec.state \in {"DOWN", "RECOVERING"} /\ confirmed
  <2>1. GoodStep(def, rec, at) = back
    BY <1>6 DEF GoodStep
  <2> QED
    BY <1>4, <1>6, <2>1, Zenon DEF Moves, HealthStates, OutageStates
<1>7. CASE rec.state \in {"DOWN", "RECOVERING"} /\ ~confirmed
  <2>1. GoodStep(def, rec, at) = rising
    BY <1>7 DEF GoodStep
  <2> QED
    BY <1>4, <1>7, <2>1, Zenon DEF Moves, HealthStates, OutageStates
<1> QED
  BY <1>5, <1>6, <1>7, Zenon DEF Record, HealthStates

\* The same for a bad sample.
LEMMA BadStepShape ==
    ASSUME NEW def \in Definition, NEW rec \in Record, NEW at \in Nat
    PROVE  /\ BadStep(def, rec, at) \in Record
           /\ Moves(rec.state, BadStep(def, rec, at).state)
<1> DEFINE since == IF rec.failures = 0 THEN at ELSE rec.badSince
           next  == [rec EXCEPT !.successes = 0, !.goodSince = ZeroTime,
                                !.failures = rec.failures + 1, !.badSince = since]
           down  == [next EXCEPT !.state = "DOWN"]
           sus   == [next EXCEPT !.state = "SUSPECT"]
           confirmed == rec.failures + 1 >= def.failAfter /\ at - since >= def.failFor
<1>1. since \in Nat /\ rec.failures + 1 \in Nat
  BY DEF Record, Times
<1>2. 0 \in Nat /\ ZeroTime \in Nat
  BY DEF ZeroTime
<1>3. next \in Record
  <2> HIDE DEF since
  <2> QED
    BY <1>1, <1>2, Zenon DEF Record, Times
<1>4. /\ down \in Record /\ down.state = "DOWN"
      /\ sus \in Record  /\ sus.state = "SUSPECT"
  <2> HIDE DEF next
  <2> QED
    BY <1>3, Zenon DEF Record, HealthStates
<1>5. CASE rec.state \in {"DOWN", "RECOVERING"} \/ confirmed
  <2>1. BadStep(def, rec, at) = down
    BY <1>5 DEF BadStep
  <2> QED
    BY <1>4, <2>1, Zenon DEF Moves, HealthStates, OutageStates
<1>6. CASE ~(rec.state \in {"DOWN", "RECOVERING"} \/ confirmed)
  <2>1. BadStep(def, rec, at) = sus
    BY <1>6 DEF BadStep
  <2> QED
    BY <1>4, <1>6, <2>1, Zenon DEF Moves, HealthStates, OutageStates
<1> QED
  BY <1>5, <1>6, Zenon

\* What a good and a bad sample leave in the record, field by field.
LEMMA GoodFields ==
    ASSUME NEW d \in Definition, NEW r \in Record, NEW at \in Nat
    PROVE  LET g == GoodStep(d, r, at)
               since == IF r.successes = 0 THEN at ELSE r.goodSince
               confirmed == r.successes + 1 >= d.recoverAfter /\ at - since >= d.recoverFor
           IN  /\ g.failures = 0 /\ g.breached = r.breached
               /\ g.lastObservedAt = r.lastObservedAt /\ g.lastSeenAt = r.lastSeenAt
               /\ r.state \notin OutageStates => g.state = "UP" /\ g.successes = r.successes
               /\ r.state \in OutageStates /\ confirmed => g.state = "UP" /\ g.successes = 0
               /\ r.state \in OutageStates /\ ~confirmed =>
                     g.state = "RECOVERING" /\ g.successes = r.successes + 1 /\ g.goodSince = since
<1> DEFINE base  == [r EXCEPT !.failures = 0, !.badSince = ZeroTime]
           since == IF r.successes = 0 THEN at ELSE r.goodSince
           confirmed == r.successes + 1 >= d.recoverAfter /\ at - since >= d.recoverFor
           up    == [base EXCEPT !.state = "UP"]
           back  == [base EXCEPT !.state = "UP", !.successes = 0, !.goodSince = ZeroTime]
           rising == [base EXCEPT !.state = "RECOVERING",
                                  !.successes = r.successes + 1, !.goodSince = since]
<1>1. CASE r.state \notin OutageStates
  <2>1. GoodStep(d, r, at) = up
    BY <1>1 DEF GoodStep, Record, HealthStates, OutageStates
  <2>2. /\ up.failures = 0 /\ up.breached = r.breached /\ up.state = "UP"
        /\ up.successes = r.successes
        /\ up.lastObservedAt = r.lastObservedAt /\ up.lastSeenAt = r.lastSeenAt
    BY DEF Record
  <2> QED
    BY <1>1, <2>1, <2>2, Zenon
<1>2. CASE r.state \in OutageStates /\ confirmed
  <2>1. GoodStep(d, r, at) = back
    BY <1>2 DEF GoodStep, OutageStates
  <2>2. /\ back.failures = 0 /\ back.breached = r.breached /\ back.state = "UP"
        /\ back.successes = 0
        /\ back.lastObservedAt = r.lastObservedAt /\ back.lastSeenAt = r.lastSeenAt
    BY DEF Record
  <2> QED
    BY <1>2, <2>1, <2>2, Zenon
<1>3. CASE r.state \in OutageStates /\ ~confirmed
  <2>1. GoodStep(d, r, at) = rising
    BY <1>3 DEF GoodStep, OutageStates
  <2> HIDE DEF since
  <2>2. /\ rising.failures = 0 /\ rising.breached = r.breached /\ rising.state = "RECOVERING"
        /\ rising.successes = r.successes + 1 /\ rising.goodSince = since
        /\ rising.lastObservedAt = r.lastObservedAt /\ rising.lastSeenAt = r.lastSeenAt
    BY DEF Record
  <2> USE DEF since
  <2> QED
    BY <1>3, <2>1, <2>2, Zenon
<1> QED
  BY <1>1, <1>2, <1>3, Zenon

LEMMA BadFields ==
    ASSUME NEW d \in Definition, NEW r \in Record, NEW at \in Nat
    PROVE  LET b == BadStep(d, r, at)
               since == IF r.failures = 0 THEN at ELSE r.badSince
               confirmed == r.failures + 1 >= d.failAfter /\ at - since >= d.failFor
           IN  /\ b.successes = 0 /\ b.breached = r.breached
               /\ b.failures = r.failures + 1 /\ b.badSince = since
               /\ b.lastObservedAt = r.lastObservedAt /\ b.lastSeenAt = r.lastSeenAt
               /\ b.state = IF r.state \in OutageStates \/ confirmed THEN "DOWN" ELSE "SUSPECT"
<1> DEFINE since == IF r.failures = 0 THEN at ELSE r.badSince
           confirmed == r.failures + 1 >= d.failAfter /\ at - since >= d.failFor
           nxt   == [r EXCEPT !.successes = 0, !.goodSince = ZeroTime,
                              !.failures = r.failures + 1, !.badSince = since]
           s     == IF r.state \in OutageStates \/ confirmed THEN "DOWN" ELSE "SUSPECT"
           to    == [nxt EXCEPT !.state = s]
<1>1. BadStep(d, r, at) = to
  BY DEF BadStep, OutageStates
<1> HIDE DEF since, s
<1>2. /\ to.successes = 0 /\ to.breached = r.breached /\ to.state = s
      /\ to.failures = r.failures + 1 /\ to.badSince = since
      /\ to.lastObservedAt = r.lastObservedAt /\ to.lastSeenAt = r.lastSeenAt
  BY DEF Record
<1> HIDE DEF to
<1> QED
  BY <1>1, <1>2, Zenon DEF since, s

\* Evaluate either ignores the sample or applies it, moving the record as Moves
\* says; only a sample newer than the last one applied is applied.
LEMMA EvaluateShape ==
    ASSUME NEW def \in Definition, NEW prev \in Record, NEW o,
           o.at \in Nat, o.value \in Values
    PROVE  /\ Evaluate(def, prev, o) \in Record
           /\ \/ Evaluate(def, prev, o) = prev
              \/ /\ Moves(prev.state, Evaluate(def, prev, o).state)
                 /\ ~Outdated(prev, o.at)
                 /\ Evaluate(def, prev, o).lastObservedAt = o.at
<1> DEFINE j   == Judge(def, prev, o.value)
           rec == [prev EXCEPT !.breached = j.breached, !.lastObservedAt = o.at,
                               !.lastSeenAt = IF o.source = "sweeper" THEN @ ELSE o.at]
<1>1. j.good \in BOOLEAN /\ j.breached \in BOOLEAN
  <2>1. prev.breached \in BOOLEAN
    BY Zenon DEF Record
  <2>2. Breached(def, prev.breached, o.value.num) \in BOOLEAN
    <3>1. \A m, n : (m < n) \in BOOLEAN /\ (m > n) \in BOOLEAN
      BY SMT
    <3> QED
      BY <3>1, Zenon DEF Breached
  <2> QED
    BY <2>1, <2>2, Zenon DEF Judge
<1>2. rec \in Record /\ rec.state = prev.state /\ rec.lastObservedAt = o.at
  <2> HIDE DEF j
  <2>1. rec \in Record /\ rec.state = prev.state
    BY <1>1, Zenon DEF Record, Times
  <2> DEFINE seen == IF o.source = "sweeper" THEN prev.lastSeenAt ELSE o.at
  <2>2. rec = [prev EXCEPT !.breached = j.breached, !.lastObservedAt = o.at, !.lastSeenAt = seen]
    BY Zenon
  <2> HIDE DEF seen
  <2>3. rec.lastObservedAt = o.at
    BY <2>2 DEF Record
  <2> QED
    BY <2>1, <2>3, Zenon
<1>3. /\ Step(def, rec, j.good, o.at) \in Record
      /\ Moves(rec.state, Step(def, rec, j.good, o.at).state)
      /\ Step(def, rec, j.good, o.at).lastObservedAt = o.at
  <2> HIDE DEF rec, j
  <2>1. CASE j.good
    <3>1. GoodStep(def, rec, o.at).lastObservedAt = rec.lastObservedAt
      BY <1>2, GoodFields, Zenon
    <3> QED
      BY <1>2, <2>1, <3>1, GoodStepShape, Zenon DEF Step
  <2>2. CASE ~j.good
    <3>1. BadStep(def, rec, o.at).lastObservedAt = rec.lastObservedAt
      BY <1>2, BadFields, Zenon
    <3> QED
      BY <1>2, <2>2, <3>1, BadStepShape, Zenon DEF Step
  <2> QED
    BY <2>1, <2>2, Zenon
<1>4. Applied(def, prev, o) = Step(def, rec, j.good, o.at)
  BY Zenon DEF Applied
<1> QED
  BY <1>2, <1>3, <1>4, Zenon DEF Evaluate, Ignored

-----------------------------------------------------------------------------
\* rules.Evaluate keeps the record well formed; a rule is only UP or DOWN.
LEMMA RuleEvaluateShape ==
    ASSUME NEW prev \in Record, NEW holds, NEW o, o.at \in Nat
    PROVE  /\ RuleEvaluate(prev, holds, o) \in Record
           /\ \/ RuleEvaluate(prev, holds, o) = prev /\ prev.state # "NONE"
              \/ /\ RuleEvaluate(prev, holds, o).state \in {"UP", "DOWN"}
                 /\ ~Outdated(prev, o.at)
                 /\ RuleEvaluate(prev, holds, o).lastObservedAt = o.at
<1>1. /\ RuleApplied(prev, holds, o) \in Record
      /\ RuleApplied(prev, holds, o).state \in {"UP", "DOWN"}
      /\ RuleApplied(prev, holds, o).lastObservedAt = o.at
  <2> DEFINE s == IF holds THEN "DOWN" ELSE "UP"
  <2>1. s \in {"UP", "DOWN"}
    BY Zenon
  <2> HIDE DEF s
  <2>2. RuleApplied(prev, holds, o)
        = [prev EXCEPT !.state = s, !.lastObservedAt = o.at, !.lastSeenAt = o.at]
    BY Zenon DEF RuleApplied, s
  <2>3. RuleApplied(prev, holds, o).lastObservedAt = o.at
    BY <2>2 DEF Record
  <2> QED
    BY <2>1, <2>2, <2>3, Zenon DEF Record, Times, HealthStates
<1> QED
  BY <1>1, Zenon DEF RuleEvaluate, Outdated

\* eventFor reports exactly the edges of an outage.
LEMMA EventEdge ==
    ASSUME NEW from, NEW to, from = to \/ Moves(from, to)
    PROVE  /\ EventFor(from, to) \in {"alert", "recovery", "none"}
           /\ EventFor(from, to) = "alert" <=> from \notin OutageStates /\ to \in OutageStates
           /\ EventFor(from, to) = "recovery" <=> from \in OutageStates /\ to \notin OutageStates
  BY DEF EventFor, Moves, OutageStates, HealthStates

LEMMA TouchedAreKeys ==
    ASSUME NEW o \in Observation
    PROVE  /\ Touched(o) \subseteq Keys
           /\ \A k \in Keys : k[1] \in DefIds \cup RuleIds
<1>1. ASSUME NEW id \in DefIds \cup RuleIds PROVE KeyFor(id, o) \in Keys
  <2>1. o.device \in Devices /\ o.label \in Labels
    BY Zenon DEF Observation
  <2>2. KeyLabel(id, o.label) \in Labels
    BY <2>1, StageBAssumption, Zenon DEF KeyLabel
  <2> QED
    BY <2>1, <2>2, Zenon DEF KeyFor, Keys
<1>2. \A k \in Keys : k[1] \in DefIds \cup RuleIds
  BY SMT DEF Keys
<1> QED
  BY <1>1, <1>2, Zenon DEF Touched

\* The ordering guard of both engines: a record changes only for an observation
\* newer than the last one applied to it, and then carries its time.
Newer(prev, rec, o) ==
    \/ rec = prev
    \/ ~Outdated(prev, o.at) /\ rec.lastObservedAt = o.at /\ rec.state \in HealthStates

\* A transaction leaves a well-formed record: the old one, or one whose state is
\* reached by a legal move and whose time is newer than the old one's.
LEMMA NextRecordShape ==
    ASSUME TypeOK, NEW o \in Observation, NEW k \in Keys, NEW first
    PROVE  LET from == FromState(k, states[k])
               rec  == NextRecord(k, o, first)
           IN  /\ rec \in Record
               /\ from = rec.state \/ Moves(from, rec.state)
               /\ Newer(states[k], rec, o)
<1>1. o.at \in Nat /\ o.value \in Values
  BY Zenon DEF Observation
<1>2. states[k] \in Record
  BY Zenon DEF TypeOK
<1>3. CASE k[1] \in DefIds
  <2>1. Defs[k[1]] \in Definition
    BY <1>3, StageBAssumption, Zenon
  <2>2. k[1] \notin RuleIds
    BY <1>3, StageBAssumption, Zenon
  <2>3. NextRecord(k, o, first) = Evaluate(Defs[k[1]], states[k], o)
    BY <1>3, Zenon DEF NextRecord
  <2>4. FromState(k, states[k]) = states[k].state
    BY <2>2, Zenon DEF FromState
  <2> QED
    BY <1>1, <1>2, <2>1, <2>3, <2>4, EvaluateShape, Zenon DEF Newer, Moves
<1>4. CASE k[1] \notin DefIds
  <2> DEFINE h == Condition(Rules[k[1]], Samples(stored \cup {o}, Rules[k[1]], o), first)
  <2>1. k[1] \in RuleIds
    BY <1>4, TouchedAreKeys, Zenon
  <2>2. NextRecord(k, o, first) = RuleEvaluate(states[k], h, o)
    BY <1>4, Zenon DEF NextRecord
  <2> HIDE DEF h
  <2>a. /\ RuleEvaluate(states[k], h, o) \in Record
        /\ \/ RuleEvaluate(states[k], h, o) = states[k] /\ states[k].state # "NONE"
           \/ /\ RuleEvaluate(states[k], h, o).state \in {"UP", "DOWN"}
              /\ ~Outdated(states[k], o.at)
              /\ RuleEvaluate(states[k], h, o).lastObservedAt = o.at
    BY <1>1, <1>2, RuleEvaluateShape, Zenon
  <2>3. /\ NextRecord(k, o, first) \in Record
        /\ \/ NextRecord(k, o, first) = states[k] /\ states[k].state # "NONE"
           \/ /\ NextRecord(k, o, first).state \in {"UP", "DOWN"}
              /\ ~Outdated(states[k], o.at)
              /\ NextRecord(k, o, first).lastObservedAt = o.at
    BY <2>a, <2>2, Zenon
  <2>4. CASE NextRecord(k, o, first) = states[k] /\ states[k].state # "NONE"
    BY <2>3, <2>4, Zenon DEF FromState, Newer
  <2>5. CASE /\ NextRecord(k, o, first).state \in {"UP", "DOWN"}
             /\ ~Outdated(states[k], o.at)
             /\ NextRecord(k, o, first).lastObservedAt = o.at
    BY <2>3, <2>5, Zenon DEF Moves, HealthStates, OutageStates, Newer
  <2> QED
    BY <2>3, <2>4, <2>5, Zenon
<1> QED
  BY <1>3, <1>4, Zenon

-----------------------------------------------------------------------------
(* One transaction that applies observation o with new records recs.       *)

\* What a key's event says: there is one exactly on an outage edge.
LEMMA EventsOfTransaction ==
    ASSUME IInv, NEW o \in Observation, o \notin stored, NEW recs,
           \A k \in Touched(o) :
              LET from == FromState(k, states[k])
              IN  from = recs[k].state \/ Moves(from, recs[k].state)
    PROVE  LET evs == NewEvents(o, recs) \ events IN
           /\ \A e \in evs : /\ e.key \in Touched(o) /\ e.obs = o
                             /\ e.kind \in {"alert", "recovery"}
                             /\ e = Event(e.key, e.kind, o)
           /\ \A k \in Touched(o) :
                /\ Event(k, "alert", o) \in evs <=>
                      states[k].state \notin OutageStates /\ recs[k].state \in OutageStates
                /\ Event(k, "recovery", o) \in evs <=>
                      states[k].state \in OutageStates /\ recs[k].state \notin OutageStates
<1> DEFINE Kind(k) == EventFor(FromState(k, states[k]), recs[k].state)
<1>1. ASSUME NEW k \in Touched(o)
      PROVE  /\ Kind(k) \in {"alert", "recovery", "none"}
             /\ Kind(k) = "alert" <=>
                   states[k].state \notin OutageStates /\ recs[k].state \in OutageStates
             /\ Kind(k) = "recovery" <=>
                   states[k].state \in OutageStates /\ recs[k].state \notin OutageStates
  <2>1. FromState(k, states[k]) \in OutageStates <=> states[k].state \in OutageStates
    BY DEF FromState, OutageStates
  <2> DEFINE from == FromState(k, states[k])
  <2>2. from = recs[k].state \/ Moves(from, recs[k].state)
    BY Zenon
  <2> HIDE DEF from
  <2>3. /\ EventFor(from, recs[k].state) \in {"alert", "recovery", "none"}
        /\ EventFor(from, recs[k].state) = "alert" <=>
              from \notin OutageStates /\ recs[k].state \in OutageStates
        /\ EventFor(from, recs[k].state) = "recovery" <=>
              from \in OutageStates /\ recs[k].state \notin OutageStates
    BY <2>2, EventEdge, Zenon
  <2> QED
    BY <2>1, <2>3, Zenon DEF from
<1>2. NewEvents(o, recs) = { Event(k, Kind(k), o) : k \in { x \in Touched(o) : Kind(x) # "none" } }
  BY Zenon DEF NewEvents
<1>3. \A k, kind : /\ Event(k, kind, o).obs = o /\ Event(k, kind, o).key = k
                   /\ Event(k, kind, o).kind = kind
  BY Zenon DEF Event
<1>4. \A k, kind : Event(k, kind, o) \notin events
  BY <1>3, Zenon DEF IInv, EventsFromStored
<1> HIDE DEF Kind
<1>5. \A e \in NewEvents(o, recs) : \E k \in Touched(o) : Kind(k) # "none" /\ e = Event(k, Kind(k), o)
  BY <1>2, Zenon
<1>6. \A k \in Touched(o) : Kind(k) # "none" => Event(k, Kind(k), o) \in NewEvents(o, recs)
  BY <1>2, Zenon
<1>7. ASSUME NEW k \in Touched(o), NEW kind \in {"alert", "recovery"}
      PROVE  Event(k, kind, o) \in NewEvents(o, recs) <=> Kind(k) = kind
  <2>1. ASSUME Event(k, kind, o) \in NewEvents(o, recs) PROVE Kind(k) = kind
    <3>1. PICK x \in Touched(o) : Event(k, kind, o) = Event(x, Kind(x), o)
      BY <1>5, <2>1, Zenon
    <3>2. x = k /\ Kind(x) = kind
      BY <1>3, <3>1, SMT
    <3> QED
      BY <3>2, Zenon
  <2>2. kind # "none"
    BY <1>7, SMT
  <2>3. Kind(k) = kind => Event(k, kind, o) \in NewEvents(o, recs)
    BY <1>6, <2>2, Zenon
  <2> QED
    BY <2>1, <2>3, Zenon
<1>8. ASSUME NEW e \in NewEvents(o, recs)
      PROVE  /\ e.key \in Touched(o) /\ e.obs = o /\ e.kind \in {"alert", "recovery"}
             /\ e = Event(e.key, e.kind, o)
  <2>1. PICK x \in Touched(o) : Kind(x) # "none" /\ e = Event(x, Kind(x), o)
    BY <1>5, <1>8, Zenon
  <2>2. e.key = x /\ e.kind = Kind(x) /\ e.obs = o
    BY <1>3, <2>1, Zenon
  <2>3. Kind(x) \in {"alert", "recovery"}
    BY <1>1, <2>1, Zenon
  <2> QED
    BY <2>1, <2>2, <2>3, Zenon
<1> QED
  BY <1>1, <1>4, <1>7, <1>8, Zenon

\* What recordEvent does to the firing alerts of one key.
LEMMA FiringAfter ==
    ASSUME NEW evs, NEW k, RecordEvents(evs), \A e \in evs : e.kind \in {"alert", "recovery"},
           \A a \in alerts : a = [opened |-> a.opened, status |-> a.status]
    PROVE  /\ (\A e \in evs : e.key # k) => FiringFor(alerts', k) = FiringFor(alerts, k)
           /\ \A e \in evs : /\ e.key = k /\ e.kind = "alert"
                             /\ \A f \in evs : f.key = k => f = e
                             /\ FiringFor(alerts, k) = {}
                => FiringFor(alerts', k) = {[opened |-> e, status |-> "firing"]}
           /\ \A e \in evs : /\ e.key = k /\ e.kind = "recovery"
                             /\ \A f \in evs : f.key = k => f = e
                => FiringFor(alerts', k) = {}
<1> DEFINE After(a) == IF ResolvedBy(a, evs) = {} THEN a ELSE [a EXCEPT !.status = "resolved"]
           Opened(e) == [opened |-> e, status |-> "firing"]
<1>1. alerts' = { After(a) : a \in alerts } \cup { Opened(e) : e \in { x \in evs : OpensAlert(x) } }
  BY Zenon DEF RecordEvents
<1>2. ASSUME NEW a \in alerts
      PROVE  /\ After(a).opened = a.opened
             /\ ResolvedBy(a, evs) = {} => After(a) = a
             /\ ResolvedBy(a, evs) # {} => After(a).status = "resolved"
  <2>1. a = [opened |-> a.opened, status |-> a.status]
    BY <1>2, Zenon
  <2>2. [a EXCEPT !.status = "resolved"] = [opened |-> a.opened, status |-> "resolved"]
    BY <2>1
  <2>3. CASE ResolvedBy(a, evs) = {}
    BY <2>3, Zenon
  <2>4. CASE ResolvedBy(a, evs) # {}
    BY <2>2, <2>4
  <2> QED
    BY <2>3, <2>4, Zenon
<1>3. \A e : Opened(e).opened = e /\ Opened(e).status = "firing"
  BY Zenon
<1>4. \A a : ResolvedBy(a, evs) # {} <=>
             \E e \in evs : e.kind = "recovery" /\ e.key = a.opened.key /\ a.status = "firing"
  BY Zenon DEF ResolvedBy
<1> HIDE DEF After, Opened
<1>5. \A b : b \in FiringFor(alerts', k) <=>
             /\ b.opened.key = k /\ b.status = "firing"
             /\ \/ \E a \in alerts : b = After(a)
                \/ \E e \in evs : OpensAlert(e) /\ b = Opened(e)
  BY <1>1, Zenon DEF FiringFor
<1>6. ASSUME \A e \in evs : e.key # k PROVE FiringFor(alerts', k) = FiringFor(alerts, k)
  <2>1. ASSUME NEW b \in FiringFor(alerts', k) PROVE b \in FiringFor(alerts, k)
    <3>1. b.opened.key = k /\ b.status = "firing"
      BY <1>5, <2>1, Zenon
    <3>a. ASSUME NEW e \in evs, b = Opened(e) PROVE FALSE
      BY <1>3, <1>6, <3>1, <3>a, SMT
    <3>2. PICK a \in alerts : b = After(a)
      BY <1>5, <2>1, <3>a, Zenon
    <3>3. a.opened.key = k
      BY <1>2, <3>1, <3>2, Zenon
    <3>4. ResolvedBy(a, evs) = {}
      BY <1>4, <1>6, <3>3, Zenon
    <3>5. b = a
      BY <1>2, <3>2, <3>4, Zenon
    <3> QED
      BY <3>1, <3>2, <3>5, Zenon DEF FiringFor
  <2>2. ASSUME NEW b \in FiringFor(alerts, k) PROVE b \in FiringFor(alerts', k)
    <3>1. b \in alerts /\ b.opened.key = k /\ b.status = "firing"
      BY <2>2, Zenon DEF FiringFor
    <3>2. After(b) = b
      BY <1>2, <1>4, <1>6, <3>1, Zenon
    <3> QED
      BY <1>5, <3>1, <3>2, Zenon
  <2> QED
    BY <2>1, <2>2, Zenon
<1>7. ASSUME NEW e \in evs, e.key = k, e.kind = "alert", \A f \in evs : f.key = k => f = e,
             FiringFor(alerts, k) = {}
      PROVE  FiringFor(alerts', k) = {Opened(e)}
  <2>1. OpensAlert(e)
    BY <1>7, Zenon DEF OpensAlert
  <2>2. Opened(e) \in FiringFor(alerts', k)
    BY <1>3, <1>5, <1>7, <2>1, Zenon
  <2>3. ASSUME NEW b \in FiringFor(alerts', k) PROVE b = Opened(e)
    <3>1. b.opened.key = k /\ b.status = "firing"
      BY <1>5, <2>3, Zenon
    <3>2. ~\E a \in alerts : b = After(a)
      <4> SUFFICES ASSUME NEW a \in alerts, b = After(a) PROVE FALSE
        BY Zenon
      <4>1. a.opened.key = k /\ a = b
        BY <1>2, <3>1, Zenon
      <4> QED
        BY <1>7, <3>1, <4>1, Zenon DEF FiringFor
    <3>3. PICK f \in evs : b = Opened(f)
      BY <1>5, <2>3, <3>2, Zenon
    <3>4. f = e
      BY <1>3, <1>7, <3>1, <3>3, Zenon
    <3> QED
      BY <3>3, <3>4, Zenon
  <2> QED
    BY <2>2, <2>3, Zenon
<1>8. ASSUME NEW e \in evs, e.key = k, e.kind = "recovery", \A f \in evs : f.key = k => f = e
      PROVE  FiringFor(alerts', k) = {}
  <2> SUFFICES ASSUME NEW b \in FiringFor(alerts', k) PROVE FALSE
    BY Zenon
  <2>1. b.opened.key = k /\ b.status = "firing"
    BY <1>5, Zenon
  <2>2. CASE \E a \in alerts : b = After(a)
    <3>1. PICK a \in alerts : b = After(a)
      BY <2>2, Zenon
    <3>2. a.opened.key = k
      BY <1>2, <2>1, <3>1, Zenon
    <3>3. a.status = "firing"
      <4>1. CASE ResolvedBy(a, evs) = {}
        BY <1>2, <2>1, <3>1, <4>1, Zenon
      <4>2. CASE ResolvedBy(a, evs) # {}
        BY <1>4, <4>2, Zenon
      <4> QED
        BY <4>1, <4>2, Zenon
    <3>4. ResolvedBy(a, evs) # {}
      BY <1>4, <1>8, <3>2, <3>3, Zenon
    <3> QED
      BY <1>2, <2>1, <3>1, <3>4
  <2>3. CASE \E f \in evs : OpensAlert(f) /\ b = Opened(f)
    <3>1. PICK f \in evs : OpensAlert(f) /\ b = Opened(f)
      BY <2>3, Zenon
    <3>2. f = e
      BY <1>3, <1>8, <2>1, <3>1, Zenon
    <3> QED
      BY <1>8, <3>1, <3>2 DEF OpensAlert
  <2> QED
    BY <1>5, <2>2, <2>3, Zenon
<1> QED
  BY <1>6, <1>7, <1>8, Zenon DEF Opened

-----------------------------------------------------------------------------
\* The part of TypeOK about the database tables.
Transition == [ key : Keys, from : HealthStates \cup {"NONE"}, to : HealthStates, at : Nat ]
EventRow == [key : Keys, kind : {"alert", "recovery"}, obs : Observation]
TablesOK ==
    /\ stored \subseteq Observation
    /\ states \in [Keys -> Record]
    /\ transitions \subseteq Transition
    /\ events \subseteq EventRow
    /\ alerts \subseteq [opened : events, status : {"firing", "resolved"}]
    /\ outbox \subseteq [subject : {"events.device", "events.alert"}, event : events]
    /\ lastSeen \in [Devices -> Nat]

\* One transaction of Process: new records recs for the touched keys, new events
\* evs exactly on the outage edges, at most one per key, and the rows they bring.
Effects(o, recs, evs) ==
    /\ o \notin stored /\ stored' = stored \cup {o}
    /\ \A k \in Touched(o) :
         /\ k \in Keys /\ recs[k] \in Record
         /\ FromState(k, states[k]) = recs[k].state \/ Moves(FromState(k, states[k]), recs[k].state)
         /\ Newer(states[k], recs[k], o)
    /\ states' = [k \in Keys |-> IF k \in Touched(o) THEN recs[k] ELSE states[k]]
    /\ transitions' = transitions \cup
         { [key |-> k, from |-> FromState(k, states[k]), to |-> recs[k].state, at |-> o.at] :
             k \in { x \in Touched(o) : Transitioned(x, recs[x]) } }
    /\ RecordEvents(evs)
    /\ \A e \in evs : /\ e.key \in Touched(o) /\ e.obs = o
                      /\ e.kind \in {"alert", "recovery"}
                      /\ e = Event(e.key, e.kind, o)
    /\ \A k \in Touched(o) :
         /\ Event(k, "alert", o) \in evs <=>
               states[k].state \notin OutageStates /\ recs[k].state \in OutageStates
         /\ Event(k, "recovery", o) \in evs <=>
               states[k].state \in OutageStates /\ recs[k].state \notin OutageStates

LEMMA ProcessEffects ==
    ASSUME IInv, NEW o \in Observation, Process(o)
    PROVE  \E recs, evs : Effects(o, recs, evs)
<1>1. PICK first : ApplyUpdates(o, [k \in Touched(o) |-> NextRecord(k, o, first)])
  BY Zenon DEF Process
<1> DEFINE recs == [k \in Touched(o) |-> NextRecord(k, o, first)]
           evs  == NewEvents(o, recs) \ events
<1>2. o \notin stored /\ stored' = stored \cup {o}
  BY Zenon DEF Process
<1>3. \A k \in Touched(o) :
        /\ k \in Keys /\ recs[k] \in Record
        /\ FromState(k, states[k]) = recs[k].state \/ Moves(FromState(k, states[k]), recs[k].state)
        /\ Newer(states[k], recs[k], o)
  BY TouchedAreKeys, NextRecordShape, Zenon DEF IInv
<1>4. /\ states' = [k \in Keys |-> IF k \in Touched(o) THEN recs[k] ELSE states[k]]
      /\ transitions' = transitions \cup
           { [key |-> k, from |-> FromState(k, states[k]), to |-> recs[k].state, at |-> o.at] :
               k \in { x \in Touched(o) : Transitioned(x, recs[x]) } }
      /\ RecordEvents(evs)
  BY <1>1, Zenon DEF ApplyUpdates
<1> HIDE DEF recs, evs
<1>5. /\ \A e \in evs : /\ e.key \in Touched(o) /\ e.obs = o
                        /\ e.kind \in {"alert", "recovery"}
                        /\ e = Event(e.key, e.kind, o)
      /\ \A k \in Touched(o) :
           /\ Event(k, "alert", o) \in evs <=>
                 states[k].state \notin OutageStates /\ recs[k].state \in OutageStates
           /\ Event(k, "recovery", o) \in evs <=>
                 states[k].state \in OutageStates /\ recs[k].state \notin OutageStates
  BY <1>2, <1>3, EventsOfTransaction, Zenon DEF evs
<1>6. Effects(o, recs, evs)
  BY <1>2, <1>3, <1>4, <1>5, Zenon DEF Effects
<1> QED
  BY <1>6, Zenon

\* A transaction has at most one event per key.
LEMMA OneEventPerKey ==
    ASSUME NEW o, NEW recs, NEW evs, Effects(o, recs, evs),
           NEW e \in evs, NEW f \in evs, e.key = f.key
    PROVE  e = f
<1>1. /\ e.key \in Touched(o) /\ e.kind \in {"alert", "recovery"} /\ e = Event(e.key, e.kind, o)
      /\ f.key \in Touched(o) /\ f.kind \in {"alert", "recovery"} /\ f = Event(f.key, f.kind, o)
  BY Zenon DEF Effects
<1>2. \A k \in Touched(o) : ~(Event(k, "alert", o) \in evs /\ Event(k, "recovery", o) \in evs)
  BY Zenon DEF Effects
<1>3. e.kind = f.kind
  BY <1>1, <1>2, SMT
<1> QED
  BY <1>1, <1>3, Zenon

\* The transaction of Process keeps every table typed and the alerts in step
\* with the states (pipeline.go Process and recordEvent).
LEMMA ProcessPreserves ==
    ASSUME IInv, NEW o \in Observation, Process(o)
    PROVE  TablesOK' /\ EventsFromStored' /\ AlertMatchesState'
<1>1. PICK recs, evs : Effects(o, recs, evs)
  BY ProcessEffects, Zenon
<1>2. o \notin stored /\ stored' = stored \cup {o} /\ o.at \in Nat /\ o.device \in Devices
  BY <1>1, Zenon DEF Effects, Observation
<1>3. TypeOK /\ EventsFromStored /\ AlertMatchesState
  BY Zenon DEF IInv
<1>4. \A k \in Touched(o) :
        /\ k \in Keys /\ recs[k] \in Record
        /\ FromState(k, states[k]) = recs[k].state \/ Moves(FromState(k, states[k]), recs[k].state)
  BY <1>1, Zenon DEF Effects
<1>5. /\ states' = [k \in Keys |-> IF k \in Touched(o) THEN recs[k] ELSE states[k]]
      /\ transitions' = transitions \cup
           { [key |-> k, from |-> FromState(k, states[k]), to |-> recs[k].state, at |-> o.at] :
               k \in { x \in Touched(o) : Transitioned(x, recs[x]) } }
      /\ RecordEvents(evs)
  BY <1>1, Zenon DEF Effects
<1>6. /\ \A e \in evs : /\ e.key \in Touched(o) /\ e.obs = o
                        /\ e.kind \in {"alert", "recovery"}
                        /\ e = Event(e.key, e.kind, o)
      /\ \A k \in Touched(o) :
           /\ Event(k, "alert", o) \in evs <=>
                 states[k].state \notin OutageStates /\ recs[k].state \in OutageStates
           /\ Event(k, "recovery", o) \in evs <=>
                 states[k].state \in OutageStates /\ recs[k].state \notin OutageStates
  BY <1>1, Zenon DEF Effects
<1>7. events' = events \cup evs /\ EventsFromStored'
  <2>1. events' = events \cup evs
    BY <1>5, Zenon DEF RecordEvents
  <2> QED
    BY <1>2, <1>3, <1>6, <2>1, Zenon DEF EventsFromStored
<1>8. TablesOK'
  <2>1. stored' \subseteq Observation
    BY <1>2, <1>3, Zenon DEF TypeOK
  <2>2. states' \in [Keys -> Record]
    BY <1>3, <1>4, <1>5, Zenon DEF TypeOK
  <2>3. transitions' \subseteq Transition
    <3>1. ASSUME NEW k \in Touched(o), Transitioned(k, recs[k])
          PROVE  [key |-> k, from |-> FromState(k, states[k]), to |-> recs[k].state,
                  at |-> o.at] \in Transition
      <4>1. k \in Keys
        BY <1>4, Zenon
      <4>2. FromState(k, states[k]) \in HealthStates \cup {"NONE"}
        <5>1. states[k].state \in HealthStates \cup {"NONE"}
          BY <1>3, <4>1, Zenon DEF TypeOK, Record
        <5> QED
          BY <5>1, Zenon DEF FromState, HealthStates
      <4>3. recs[k].state \in HealthStates
        BY <1>4, <3>1, Zenon DEF Transitioned, Moves
      <4> QED
        BY <1>2, <4>1, <4>2, <4>3, Zenon DEF Transition
    <3>2. transitions \subseteq Transition
      BY <1>3, Zenon DEF TypeOK, Transition
    <3> QED
      BY <1>5, <3>1, <3>2, Zenon
  <2>4. events' \subseteq EventRow
    <3>1. ASSUME NEW e \in evs PROVE e \in EventRow
      <4>1. e.key \in Keys /\ e.kind \in {"alert", "recovery"}
        BY <1>4, <1>6, Zenon
      <4>2. e = [key |-> e.key, kind |-> e.kind, obs |-> o]
        BY <1>6, Zenon DEF Event
      <4>3. \A x \in Keys, y \in {"alert", "recovery"} : [key |-> x, kind |-> y, obs |-> o] \in EventRow
        BY Zenon DEF EventRow
      <4> QED
        BY <4>1, <4>2, <4>3, Zenon
    <3>2. events \subseteq EventRow
      BY <1>3, Zenon DEF TypeOK, EventRow
    <3> QED
      BY <1>7, <3>1, <3>2, Zenon
  <2>5. alerts' \subseteq [opened : events', status : {"firing", "resolved"}]
    <3>1. ASSUME NEW a \in alerts
          PROVE  /\ a \in [opened : events', status : {"firing", "resolved"}]
                 /\ [a EXCEPT !.status = "resolved"] \in [opened : events', status : {"firing", "resolved"}]
      <4>1. a \in [opened : events, status : {"firing", "resolved"}]
        BY <1>3, Zenon DEF TypeOK
      <4>2. a \in [opened : events', status : {"firing", "resolved"}]
        BY <1>7, <4>1, Zenon
      <4> QED
        BY <4>2, Zenon
    <3>2. ASSUME NEW e \in evs
          PROVE  [opened |-> e, status |-> "firing"] \in [opened : events', status : {"firing", "resolved"}]
      BY <1>7, Zenon
    <3> QED
      BY <1>5, <3>1, <3>2, Zenon DEF RecordEvents
  <2>6. outbox' \subseteq [subject : {"events.device", "events.alert"}, event : events']
    <3>1. \A e \in evs, s \in {"events.device", "events.alert"} :
             [subject |-> s, event |-> e] \in [subject : {"events.device", "events.alert"}, event : events']
      BY <1>7, Zenon
    <3>2. outbox \subseteq [subject : {"events.device", "events.alert"}, event : events']
      <4>1. outbox \subseteq [subject : {"events.device", "events.alert"}, event : events]
        BY <1>3, Zenon DEF TypeOK
      <4> QED
        BY <1>7, <4>1, Zenon
    <3>3. outbox' = outbox
                 \cup { [subject |-> "events.device", event |-> e] : e \in evs }
                 \cup { [subject |-> "events.alert", event |-> e] :
                          e \in { x \in evs : OpensAlert(x) \/ ResolvesAlert(x) } }
      BY <1>5, Zenon DEF RecordEvents
    <3> DEFINE Row == [subject : {"events.device", "events.alert"}, event : events']
    <3>4. \A e \in evs : [subject |-> "events.device", event |-> e] \in Row
      BY <3>1, Zenon
    <3>5. \A e \in evs : [subject |-> "events.alert", event |-> e] \in Row
      BY <3>1, Zenon
    <3>6. outbox \subseteq Row
      BY <3>2, Zenon
    <3> HIDE DEF Row
    <3>7. outbox' \subseteq Row
      BY <3>3, <3>4, <3>5, <3>6, Zenon
    <3> QED
      BY <3>7, Zenon DEF Row
  <2>7. lastSeen' \in [Devices -> Nat]
    <3>1. lastSeen \in [Devices -> Nat]
      BY <1>3, Zenon DEF TypeOK
    <3>2. lastSeen' = lastSeen \/ lastSeen' = [lastSeen EXCEPT ![o.device] = o.at]
      BY Zenon DEF Process
    <3> QED
      BY <1>2, <3>1, <3>2, Zenon
  <2> QED
    BY <2>1, <2>2, <2>3, <2>4, <2>5, <2>6, <2>7, Zenon DEF TablesOK
<1>9. AlertMatchesState'
  <2> SUFFICES ASSUME NEW k \in Keys
               PROVE  IF states'[k].state \in OutageStates
                      THEN \E a \in FiringFor(alerts', k) : FiringFor(alerts', k) = {a}
                      ELSE FiringFor(alerts', k) = {}
    BY Zenon DEF AlertMatchesState, FiringFor
  <2>0. /\ \A e \in evs : e.kind \in {"alert", "recovery"}
        /\ \A a \in alerts : a = [opened |-> a.opened, status |-> a.status]
    <3>1. \A a \in alerts : a \in [opened : events, status : {"firing", "resolved"}]
      BY <1>3, Zenon DEF TypeOK
    <3>2. \A a \in [opened : events, status : {"firing", "resolved"}] :
             a = [opened |-> a.opened, status |-> a.status]
      BY SMT
    <3> QED
      BY <1>6, <3>1, <3>2, Zenon
  <2>1. IF states[k].state \in OutageStates
        THEN \E a \in FiringFor(alerts, k) : FiringFor(alerts, k) = {a}
        ELSE FiringFor(alerts, k) = {}
    BY <1>3, Zenon DEF AlertMatchesState
  <2>2. CASE \A e \in evs : e.key # k
    <3>1. FiringFor(alerts', k) = FiringFor(alerts, k)
      BY <1>5, <2>0, <2>2, FiringAfter, Zenon
    <3>2. states'[k].state \in OutageStates <=> states[k].state \in OutageStates
      <4>1. CASE k \notin Touched(o)
        BY <1>5, <4>1, Zenon
      <4>2. CASE k \in Touched(o)
        <5>1. Event(k, "alert", o).key = k /\ Event(k, "recovery", o).key = k
          BY Zenon DEF Event
        <5>2. Event(k, "alert", o) \notin evs /\ Event(k, "recovery", o) \notin evs
          BY <2>2, <5>1, Zenon
        <5>3. states'[k] = recs[k]
          BY <1>5, <4>2, Zenon
        <5> QED
          BY <1>6, <4>2, <5>2, <5>3, Zenon
      <4> QED
        BY <4>1, <4>2, Zenon
    <3> QED
      BY <2>1, <3>1, <3>2, Zenon
  <2>3. CASE \E e \in evs : e.key = k
    <3>1. PICK e \in evs : e.key = k
      BY <2>3, Zenon
    <3>2. k \in Touched(o) /\ e = Event(k, e.kind, o) /\ e.kind \in {"alert", "recovery"}
      BY <1>6, <3>1, Zenon
    <3>3. states'[k] = recs[k]
      BY <1>5, <3>2, Zenon
    <3>e. \A f \in evs : f.key = k => f = e
      BY <1>1, <3>1, OneEventPerKey, Zenon
    <3>5. CASE e.kind = "alert"
      <4>1. states[k].state \notin OutageStates /\ recs[k].state \in OutageStates
        BY <1>6, <3>1, <3>2, <3>5, SMT
      <4>2. RecordEvents(evs) /\ FiringFor(alerts, k) = {}
        BY <1>5, <2>1, <4>1, Zenon
      <4>3. FiringFor(alerts', k) = {[opened |-> e, status |-> "firing"]}
        BY <2>0, <3>1, <3>e, <3>5, <4>2, FiringAfter, SMT
      <4> QED
        BY <3>3, <4>1, <4>3, Zenon
    <3>6. CASE e.kind = "recovery"
      <4>1. recs[k].state \notin OutageStates
        BY <1>6, <3>1, <3>2, <3>6, SMT
      <4>2. FiringFor(alerts', k) = {}
        BY <1>5, <2>0, <3>1, <3>e, <3>6, FiringAfter, SMT
      <4> QED
        BY <3>3, <4>1, <4>2, Zenon
    <3> QED
      BY <3>2, <3>5, <3>6, Zenon
  <2> QED
    BY <2>2, <2>3, Zenon
<1> QED
  BY <1>7, <1>8, <1>9, Zenon

-----------------------------------------------------------------------------
LEMMA MetricIsString ==
    ASSUME NEW id \in DefIds \cup RuleIds
    PROVE  Metric(id) \in STRING
<1>1. CASE id \in DefIds
  <2>1. Defs[id] \in Definition
    BY <1>1, StageBAssumption, Zenon
  <2>2. Defs[id].metric \in STRING
    BY <2>1, Zenon DEF Definition
  <2> QED
    BY <1>1, <2>2, Zenon DEF Metric
<1>2. CASE id \notin DefIds
  <2>1. Rules[id] \in Rule
    BY <1>2, StageBAssumption, Zenon
  <2>2. Rules[id].metric \in STRING
    BY <2>1, Zenon DEF Rule
  <2> QED
    BY <1>2, <2>2, Zenon DEF Metric
<1> QED
  BY <1>1, <1>2, Zenon

\* The sweeper makes well-formed observations of the swept entities.
LEMMA StaleSamplesAreObservations ==
    ASSUME TypeOK, NEW p
    PROVE  StaleSamples(p) \subseteq Observation
<1>1. ASSUME NEW k \in SweptKeys
      PROVE  [device |-> k[2], label |-> k[3], metric |-> Metric(k[1]),
              value |-> StaleValue(Defs[k[1]]), at |-> Stamp(now), source |-> "sweeper",
              origin |-> k[1]] \in Observation
  <2>1. k \in Keys /\ k[1] \in DefIds
    BY <1>1, Zenon DEF SweptKeys
  <2>2. k[2] \in Devices /\ k[3] \in Labels
    BY <2>1, SMT DEF Keys
  <2>3. Metric(k[1]) \in STRING
    BY <2>1, MetricIsString, Zenon
  <2>4. StaleValue(Defs[k[1]]) \in Values
    <3>1. \A b : BoolValue(b) \in Values
      BY SMT DEF BoolValue, Values
    <3> QED
      BY <3>1, Zenon DEF StaleValue
  <2>5. Stamp(now) \in Nat
    <3>1. now \in Nat /\ SweepInterval \in Nat \ {0}
      BY StageBAssumption, Zenon DEF TypeOK
    <3>2. now \div SweepInterval \in Nat
      BY <3>1, SMT
    <3> QED
      BY <3>1, <3>2, SMT DEF Stamp
  <2>6. k[1] \in DefIds \cup {"collector"}
    BY <2>1, Zenon
  <2> QED
    BY <2>2, <2>3, <2>4, <2>5, <2>6, Zenon DEF Observation
<1> QED
  BY <1>1, Zenon DEF StaleSamples

\* The part of TypeOK about the world around the database.
WorldOK ==
    /\ now \in Nat /\ published \subseteq Observation
    /\ startedAt \in [Processors -> Nat]
    /\ sweeping \in [Processors -> SUBSET Observation]

LEMMA TypeOKParts == TypeOK <=> WorldOK /\ TablesOK
  BY Zenon DEF TypeOK, WorldOK, TablesOK, Transition, EventRow

LEMMA TypeOKPartsPrimed == TypeOK' <=> WorldOK' /\ TablesOK'
  BY Zenon DEF TypeOK, WorldOK, TablesOK, Transition, EventRow

\* A step that leaves the tables alone keeps what is said of them.
LEMMA TablesUnchanged ==
    ASSUME IInv,
           UNCHANGED <<stored, states, transitions, events, alerts, outbox, lastSeen>>
    PROVE  TablesOK' /\ EventsFromStored' /\ AlertMatchesState'
<1>1. TablesOK /\ EventsFromStored /\ AlertMatchesState
  BY TypeOKParts, Zenon DEF IInv
<1>2. /\ stored' = stored /\ states' = states /\ transitions' = transitions
      /\ events' = events /\ alerts' = alerts /\ outbox' = outbox /\ lastSeen' = lastSeen
  BY Zenon
<1>3. TablesOK'
  BY <1>1, <1>2, SMT DEF TablesOK
<1>4. EventsFromStored'
  BY <1>1, <1>2, Zenon DEF EventsFromStored
<1>5. AlertMatchesState'
  <2>1. \A k : FiringFor(alerts', k) = FiringFor(alerts, k)
    BY <1>2, Zenon
  <2> QED
    BY <1>1, <1>2, <2>1, Zenon DEF AlertMatchesState, FiringFor
<1> QED
  BY <1>3, <1>4, <1>5, Zenon

LEMMA HandlePreserves ==
    ASSUME IInv, NEW o \in Observation, Process(o) \/ Skip(o)
    PROVE  TablesOK' /\ EventsFromStored' /\ AlertMatchesState'
<1>1. CASE Process(o)
  BY <1>1, ProcessPreserves, Zenon
<1>2. CASE Skip(o)
  <2>1. UNCHANGED <<stored, states, transitions, events, alerts, outbox, lastSeen>>
    BY <1>2, Zenon DEF Skip
  <2> QED
    BY <2>1, TablesUnchanged, Zenon
<1> QED
  BY <1>1, <1>2, Zenon

-----------------------------------------------------------------------------
LEMMA InitIInv == Init => IInv
<1> SUFFICES ASSUME Init PROVE IInv
  BY Zenon
<1>1. /\ now = StartTime /\ published = {} /\ stored = {}
      /\ states = [k \in Keys |-> NoRecord]
      /\ transitions = {} /\ events = {} /\ alerts = {} /\ outbox = {}
      /\ lastSeen = [d \in Devices |-> ZeroTime]
      /\ startedAt = [p \in Processors |-> StartTime]
      /\ sweeping = [p \in Processors |-> {}]
  BY Zenon DEF Init
<1>2. NoRecord \in Record /\ NoRecord.state = "NONE" /\ ZeroTime \in Nat
  BY SMT DEF NoRecord, Record, Times, ZeroTime, HealthStates
<1>3. StartTime \in Nat
  BY StageBAssumption, Zenon
<1>4. TypeOK
  <2>1. states \in [Keys -> Record]
    BY <1>1, <1>2, Zenon
  <2>2. lastSeen \in [Devices -> Nat] /\ startedAt \in [Processors -> Nat]
    BY <1>1, <1>2, <1>3, Zenon
  <2>3. sweeping \in [Processors -> SUBSET Observation]
    BY <1>1, Zenon
  <2>4. now \in Nat
    BY <1>1, <1>3, Zenon
  <2>5. \A S : {} \subseteq S
    BY Zenon
  <2>6. /\ published \subseteq Observation /\ stored \subseteq Observation
        /\ transitions \subseteq Transition /\ events \subseteq EventRow
        /\ alerts \subseteq [opened : events, status : {"firing", "resolved"}]
        /\ outbox \subseteq [subject : {"events.device", "events.alert"}, event : events]
    BY <1>1, <2>5, Zenon
  <2> QED
    BY <2>1, <2>2, <2>3, <2>4, <2>6, TypeOKParts, Zenon DEF WorldOK, TablesOK
<1>5. EventsFromStored
  BY <1>1, Zenon DEF EventsFromStored
<1>6. AlertMatchesState
  <2>1. \A k : FiringFor(alerts, k) = {}
    BY <1>1, Zenon DEF FiringFor
  <2>2. \A k \in Keys : states[k].state \notin OutageStates
    BY <1>1, <1>2, SMT DEF OutageStates
  <2> QED
    BY <2>1, <2>2, Zenon DEF AlertMatchesState
<1> QED
  BY <1>4, <1>5, <1>6, Zenon DEF IInv

LEMMA NextIInv == IInv /\ [Next]_vars => IInv'
<1> SUFFICES ASSUME IInv, [Next]_vars PROVE IInv'
  BY Zenon
<1>0. TypeOK /\ WorldOK
  BY TypeOKParts, Zenon DEF IInv
<1>t. ASSUME UNCHANGED <<stored, states, transitions, events, alerts, outbox, lastSeen>>
      PROVE  TablesOK' /\ EventsFromStored' /\ AlertMatchesState'
  BY <1>t, TablesUnchanged, Zenon
<1>q. ASSUME WorldOK', TablesOK' /\ EventsFromStored' /\ AlertMatchesState'
      PROVE  IInv'
  BY <1>q, TypeOKPartsPrimed, Zenon DEF IInv
<1>1. CASE Tick
  <2>1. WorldOK'
    BY <1>0, <1>1, SMT DEF Tick, WorldOK
  <2> QED
    BY <1>1, <1>t, <1>q, <2>1, Zenon DEF Tick
<1>2. ASSUME NEW dev \in Devices, NEW label \in Labels, NEW m \in Metrics, NEW v \in Readings,
             Collect(dev, label, m, v)
      PROVE  IInv'
  <2> DEFINE o == [device |-> dev, label |-> label, metric |-> m, value |-> v,
                   at |-> now, source |-> "snmp", origin |-> "collector"]
  <2>1. o \in Observation
    <3>1. m \in STRING /\ v \in Values /\ now \in Nat
      BY <1>0, <1>2, MetricIsString, StageBAssumption, Zenon DEF Metrics, WorldOK
    <3> QED
      BY <3>1, Zenon DEF Observation
  <2>2. published' = published \cup {o} /\ now' = now
        /\ startedAt' = startedAt /\ sweeping' = sweeping
    BY <1>2, Zenon DEF Collect
  <2> HIDE DEF o
  <2>3. WorldOK'
    BY <1>0, <2>1, <2>2, Zenon DEF WorldOK
  <2> QED
    BY <1>2, <1>t, <1>q, <2>3, Zenon DEF Collect
<1>3. ASSUME NEW o \in published, Deliver(o) PROVE IInv'
  <2>1. o \in Observation
    BY <1>0, <1>3, Zenon DEF WorldOK
  <2>2. TablesOK' /\ EventsFromStored' /\ AlertMatchesState'
    BY <1>3, <2>1, HandlePreserves, Zenon DEF Deliver
  <2>3. WorldOK'
    BY <1>0, <1>3, SMT DEF WorldOK, Deliver
  <2> QED
    BY <1>q, <2>2, <2>3, Zenon
<1>4. ASSUME NEW p \in Processors, SweepStart(p) PROVE IInv'
  <2>1. StaleSamples(p) \subseteq Observation
    BY <1>0, StaleSamplesAreObservations, Zenon
  <2>2. /\ sweeping' = [sweeping EXCEPT ![p] = StaleSamples(p)]
        /\ now' = now /\ published' = published /\ startedAt' = startedAt
    BY <1>4, Zenon DEF SweepStart
  <2>3. WorldOK'
    BY <1>0, <2>1, <2>2, Zenon DEF WorldOK
  <2> QED
    BY <1>4, <1>t, <1>q, <2>3, Zenon DEF SweepStart
<1>5. ASSUME NEW p \in Processors, NEW o \in sweeping[p], SweepFeed(p, o) PROVE IInv'
  <2>1. o \in Observation
    BY <1>0, <1>5, Zenon DEF WorldOK
  <2>2. TablesOK' /\ EventsFromStored' /\ AlertMatchesState'
    BY <1>5, <2>1, HandlePreserves, Zenon DEF SweepFeed
  <2>3. /\ sweeping' = [sweeping EXCEPT ![p] = sweeping[p] \ {o}]
        /\ now' = now /\ published' = published /\ startedAt' = startedAt
    BY <1>5, Zenon DEF SweepFeed
  <2>4. sweeping[p] \ {o} \subseteq Observation
    BY <1>0, <1>5, Zenon DEF WorldOK
  <2>5. WorldOK'
    BY <1>0, <2>3, <2>4, Zenon DEF WorldOK
  <2> QED
    BY <1>q, <2>2, <2>5, Zenon
<1>6. ASSUME NEW p \in Processors, SweepFail(p) PROVE IInv'
  <2>1. /\ sweeping' = [sweeping EXCEPT ![p] = {}]
        /\ now' = now /\ published' = published /\ startedAt' = startedAt
    BY <1>6, Zenon DEF SweepFail
  <2>2. WorldOK'
    BY <1>0, <2>1, Zenon DEF WorldOK
  <2> QED
    BY <1>6, <1>t, <1>q, <2>2, Zenon DEF SweepFail
<1>7. ASSUME NEW p \in Processors, Restart(p) PROVE IInv'
  <2>1. /\ sweeping' = [sweeping EXCEPT ![p] = {}]
        /\ startedAt' = [startedAt EXCEPT ![p] = now]
        /\ now' = now /\ published' = published
    BY <1>7, Zenon DEF Restart
  <2>2. WorldOK'
    BY <1>0, <2>1, Zenon DEF WorldOK
  <2> QED
    BY <1>7, <1>t, <1>q, <2>2, Zenon DEF Restart
<1>8. CASE UNCHANGED vars
  <2>1. WorldOK'
    BY <1>0, <1>8, SMT DEF vars, WorldOK
  <2> QED
    BY <1>8, <1>t, <1>q, <2>1, Zenon DEF vars
<1> QED
  BY <1>1, <1>2, <1>3, <1>4, <1>5, <1>6, <1>7, <1>8, Zenon DEF Next

\* Every table of stage B keeps its type, whatever the definitions, rules,
\* devices and processors are and however long the clock runs.
THEOREM TypeCorrect == Spec => []TypeOK
<1>1. IInv => TypeOK
  BY Zenon DEF IInv
<1> QED
  BY <1>1, InitIInv, NextIInv, PTL DEF Spec

\* The alerts table follows the state table in every reachable state: one
\* firing alert for an entity in an outage, none otherwise, under any
\* redelivery, reordering, sweep race or restart (Process, recordEvent).
THEOREM AlertsFollowStates == Spec => []AlertMatchesState
<1>1. IInv => AlertMatchesState
  BY Zenon DEF IInv
<1> QED
  BY <1>1, InitIInv, NextIInv, PTL DEF Spec

-----------------------------------------------------------------------------
(* On top of IInv: a step is one transaction or leaves the tables alone.   *)

LEMMA StepCases ==
    ASSUME IInv, [Next]_vars
    PROVE  \/ \E o \in Observation : \E recs, evs : Effects(o, recs, evs)
           \/ UNCHANGED <<stored, states, transitions, events, alerts, outbox, lastSeen>>
<1>0. WorldOK
  BY TypeOKParts, Zenon DEF IInv
<1>p. ASSUME NEW o \in Observation, Process(o) \/ Skip(o)
      PROVE  \/ \E x \in Observation : \E recs, evs : Effects(x, recs, evs)
             \/ UNCHANGED <<stored, states, transitions, events, alerts, outbox, lastSeen>>
  BY <1>p, ProcessEffects, Zenon DEF Skip
<1>1. CASE Tick
  BY <1>1, Zenon DEF Tick
<1>2. ASSUME NEW dev \in Devices, NEW label \in Labels, NEW m \in Metrics, NEW v \in Readings,
             Collect(dev, label, m, v)
      PROVE  UNCHANGED <<stored, states, transitions, events, alerts, outbox, lastSeen>>
  BY <1>2, Zenon DEF Collect
<1>3. ASSUME NEW o \in published, Deliver(o)
      PROVE  \/ \E x \in Observation : \E recs, evs : Effects(x, recs, evs)
             \/ UNCHANGED <<stored, states, transitions, events, alerts, outbox, lastSeen>>
  BY <1>0, <1>3, <1>p, Zenon DEF Deliver, WorldOK
<1>4. ASSUME NEW p \in Processors, SweepStart(p) \/ SweepFail(p) \/ Restart(p)
      PROVE  UNCHANGED <<stored, states, transitions, events, alerts, outbox, lastSeen>>
  BY <1>4, Zenon DEF SweepStart, SweepFail, Restart
<1>5. ASSUME NEW p \in Processors, NEW o \in sweeping[p], SweepFeed(p, o)
      PROVE  \/ \E x \in Observation : \E recs, evs : Effects(x, recs, evs)
             \/ UNCHANGED <<stored, states, transitions, events, alerts, outbox, lastSeen>>
  <2>1. o \in Observation
    BY <1>0, <1>5, Zenon DEF WorldOK
  <2> QED
    BY <1>5, <1>p, <2>1, Zenon DEF SweepFeed
<1>6. CASE UNCHANGED vars
  BY <1>6, Zenon DEF vars
<1> QED
  BY <1>1, <1>2, <1>3, <1>4, <1>5, <1>6, Zenon DEF Next

\* No event of a transaction meets an alerts table that disagrees with it:
\* every alert opens one, every recovery resolves one.
LEMMA EventsChangeAlerts ==
    ASSUME IInv, NEW o, NEW recs, NEW evs, Effects(o, recs, evs), NEW e \in evs
    PROVE  OpensAlert(e) \/ ResolvesAlert(e)
<1>1. /\ e.key \in Touched(o) /\ e.kind \in {"alert", "recovery"} /\ e = Event(e.key, e.kind, o)
      /\ e.key \in Keys
  BY Zenon DEF Effects
<1>2. IF states[e.key].state \in OutageStates
      THEN \E a \in FiringFor(alerts, e.key) : FiringFor(alerts, e.key) = {a}
      ELSE FiringFor(alerts, e.key) = {}
  BY <1>1, Zenon DEF IInv, AlertMatchesState
<1>3. CASE e.kind = "alert"
  <2>1. Event(e.key, "alert", o) \in evs
    BY <1>1, <1>3, Zenon
  <2>2. states[e.key].state \notin OutageStates
    BY <1>1, <2>1, Zenon DEF Effects
  <2> QED
    BY <1>2, <1>3, <2>2, Zenon DEF OpensAlert
<1>4. CASE e.kind = "recovery"
  <2>1. Event(e.key, "recovery", o) \in evs
    BY <1>1, <1>4, Zenon
  <2>2. states[e.key].state \in OutageStates
    BY <1>1, <2>1, Zenon DEF Effects
  <2>3. FiringFor(alerts, e.key) # {}
    BY <1>2, <2>2, Zenon
  <2> QED
    BY <1>4, <2>3, Zenon DEF ResolvesAlert
<1> QED
  BY <1>1, <1>3, <1>4, Zenon

LEMMA NotifiedStep == IInv /\ EveryEventIsNotified /\ [Next]_vars => EveryEventIsNotified'
<1> SUFFICES ASSUME IInv, EveryEventIsNotified, [Next]_vars PROVE EveryEventIsNotified'
  BY Zenon
<1>1. CASE UNCHANGED <<stored, states, transitions, events, alerts, outbox, lastSeen>>
  BY <1>1, Zenon DEF EveryEventIsNotified
<1>2. ASSUME NEW o \in Observation, NEW recs, NEW evs, Effects(o, recs, evs)
      PROVE  EveryEventIsNotified'
  <2>1. /\ events' = events \cup evs
        /\ outbox' = outbox
                 \cup { [subject |-> "events.device", event |-> e] : e \in evs }
                 \cup { [subject |-> "events.alert", event |-> e] :
                          e \in { x \in evs : OpensAlert(x) \/ ResolvesAlert(x) } }
    BY <1>2, Zenon DEF Effects, RecordEvents
  <2>2. { x \in evs : OpensAlert(x) \/ ResolvesAlert(x) } = evs
    BY <1>2, EventsChangeAlerts, Zenon
  <2>3. outbox' = outbox
                 \cup { [subject |-> "events.device", event |-> e] : e \in evs }
                 \cup { [subject |-> "events.alert", event |-> e] : e \in evs }
    BY <2>1, <2>2, SMT
  <2>4. outbox = [subject : {"events.device", "events.alert"}, event : events]
    BY Zenon DEF EveryEventIsNotified
  <2>5. outbox' = [subject : {"events.device", "events.alert"}, event : events']
    <3>1. ASSUME NEW r \in outbox'
          PROVE  r \in [subject : {"events.device", "events.alert"}, event : events']
      <4>1. CASE r \in outbox
        BY <2>1, <2>4, <4>1, SMT
      <4>2. ASSUME NEW e \in evs, NEW s \in {"events.device", "events.alert"},
                   r = [subject |-> s, event |-> e]
            PROVE  r \in [subject : {"events.device", "events.alert"}, event : events']
        BY <2>1, <4>2, Zenon
      <4> QED
        BY <2>3, <3>1, <4>1, <4>2, Zenon
    <3>2. ASSUME NEW s \in {"events.device", "events.alert"}, NEW e \in events'
          PROVE  [subject |-> s, event |-> e] \in outbox'
      BY <2>1, <2>3, <2>4, <3>2, Zenon
    <3>3. ASSUME NEW r \in [subject : {"events.device", "events.alert"}, event : events']
          PROVE  r \in outbox'
      <4>1. /\ r = [subject |-> r.subject, event |-> r.event]
            /\ r.subject \in {"events.device", "events.alert"} /\ r.event \in events'
        BY <3>3, SMT
      <4> QED
        BY <3>2, <4>1, Zenon
    <3> QED
      BY <3>1, <3>3, Zenon
  <2> QED
    BY <2>5, Zenon DEF EveryEventIsNotified
<1> QED
  BY <1>1, <1>2, StepCases, Zenon

\* Every stored event is queued for both subjects and nothing else is, under
\* any redelivery, reordering or sweep race: recordEvent, which queues
\* events.alert only when OpenAlert or ResolveAlert reports a change, never
\* drops a notification.
THEOREM EventsAreNotified == Spec => []EveryEventIsNotified
<1>1. Init => EveryEventIsNotified
  BY SMT DEF Init, EveryEventIsNotified
<1> QED
  BY <1>1, InitIInv, NextIInv, NotifiedStep, PTL DEF Spec

-----------------------------------------------------------------------------
(* Stage B implements AlertLifecycle.                                      *)

\* The refinement mapping: the opening event of each key's firing alert, and
\* what has been queued for events.alert.
Firing == [k \in Keys |-> { a.opened : a \in FiringFor(alerts, k) }]
Announced == { r.event : r \in { x \in outbox : x.subject = "events.alert" } }

LEMMA AlertRows ==
    ASSUME NEW rows, NEW evs,
           rows = [subject : {"events.device", "events.alert"}, event : evs]
    PROVE  { r.event : r \in { x \in rows : x.subject = "events.alert" } } = evs
<1> DEFINE Ann == { r.event : r \in { x \in rows : x.subject = "events.alert" } }
<1>2. ASSUME NEW e \in evs PROVE e \in Ann
  <2> DEFINE r == [subject |-> "events.alert", event |-> e]
  <2>1. r \in rows /\ r.subject = "events.alert" /\ r.event = e
    BY <1>2, Zenon
  <2> HIDE DEF r
  <2> QED
    BY <2>1, Zenon
<1>3. ASSUME NEW e \in Ann PROVE e \in evs
  <2>1. PICK r \in rows : e = r.event
    BY <1>3, Zenon
  <2> QED
    BY <2>1, Zenon
<1> QED
  BY <1>2, <1>3, Zenon

LEMMA AnnouncedIsEvents ==
    /\ EveryEventIsNotified => Announced = events
    /\ EveryEventIsNotified' => Announced' = events'
  BY AlertRows, Zenon DEF EveryEventIsNotified, Announced

LEMMA FiringPrimed ==
    /\ Firing' = [k \in Keys |-> { a.opened : a \in FiringFor(alerts', k) }]
    /\ \A k \in Keys : Firing[k] = {} <=> FiringFor(alerts, k) = {}
<1>1. Firing' = [k \in Keys |-> { a.opened : a \in FiringFor(alerts', k) }]
  BY Zenon DEF Firing, FiringFor
<1>2. ASSUME NEW k \in Keys PROVE Firing[k] = {} <=> FiringFor(alerts, k) = {}
  <2>1. Firing[k] = { a.opened : a \in FiringFor(alerts, k) }
    BY <1>2, Zenon DEF Firing
  <2> QED
    BY <2>1, Zenon
<1> QED
  BY <1>1, <1>2, Zenon

\* One transaction is one Change of the lifecycle.
LEMMA TransactionIsChange ==
    ASSUME IInv, EveryEventIsNotified, EveryEventIsNotified',
           NEW o, NEW recs, NEW evs, Effects(o, recs, evs)
    PROVE  Lifecycle!Change
<1>1. events' = events \cup evs /\ RecordEvents(evs)
  BY Zenon DEF Effects, RecordEvents
<1>2. \A e \in evs : e \notin events
  BY Zenon DEF Effects, IInv, EventsFromStored
<1>3. Announced = events /\ Announced' = events \cup evs
  <2>1. Announced' = events'
    BY AnnouncedIsEvents, Zenon
  <2> QED
    BY <1>1, <2>1, AnnouncedIsEvents, Zenon
<1>4. Announced' \ Announced = evs /\ Announced \subseteq Announced'
  BY <1>2, <1>3, Zenon
<1>5. \A e \in evs : /\ e.key \in Keys /\ e.kind \in {"alert", "recovery"}
                     /\ IF e.kind = "alert" THEN Firing[e.key] = {} ELSE Firing[e.key] # {}
  <2> SUFFICES ASSUME NEW e \in evs
               PROVE  /\ e.key \in Keys /\ e.kind \in {"alert", "recovery"}
                      /\ IF e.kind = "alert" THEN Firing[e.key] = {} ELSE Firing[e.key] # {}
    BY Zenon
  <2>1. e.key \in Keys /\ e.kind \in {"alert", "recovery"}
    BY Zenon DEF Effects
  <2>2. OpensAlert(e) \/ ResolvesAlert(e)
    BY EventsChangeAlerts, Zenon
  <2>3. IF e.kind = "alert" THEN FiringFor(alerts, e.key) = {} ELSE FiringFor(alerts, e.key) # {}
    BY <2>2 DEF OpensAlert, ResolvesAlert
  <2> QED
    BY <2>1, <2>3, FiringPrimed, Zenon
<1>6. \A e, f \in evs : e.key = f.key => e = f
  BY OneEventPerKey, Zenon
<1>7. ASSUME NEW k \in Keys
      PROVE  { a.opened : a \in FiringFor(alerts', k) } =
                IF \E e \in evs : e.key = k
                THEN { e \in evs : e.key = k /\ e.kind = "alert" }
                ELSE Firing[k]
  <2>0. /\ \A e \in evs : e.kind \in {"alert", "recovery"}
        /\ \A a \in alerts : a = [opened |-> a.opened, status |-> a.status]
    <3>1. \A a \in alerts : a \in [opened : events, status : {"firing", "resolved"}]
      BY Zenon DEF IInv, TypeOK
    <3>2. \A a \in [opened : events, status : {"firing", "resolved"}] :
             a = [opened |-> a.opened, status |-> a.status]
      BY SMT
    <3> QED
      BY <1>5, <3>1, <3>2, Zenon
  <2>1. CASE \A e \in evs : e.key # k
    <3>1. FiringFor(alerts', k) = FiringFor(alerts, k)
      BY <1>1, <2>0, <2>1, FiringAfter, Zenon
    <3> QED
      BY <2>1, <3>1, Zenon DEF Firing
  <2>2. ASSUME NEW e \in evs, e.key = k, e.kind = "alert"
        PROVE  { a.opened : a \in FiringFor(alerts', k) } =
                  { x \in evs : x.key = k /\ x.kind = "alert" }
    <3>1. FiringFor(alerts, k) = {} /\ \A f \in evs : f.key = k => f = e
      BY <1>5, <1>6, <2>2, FiringPrimed, Zenon
    <3>2. FiringFor(alerts', k) = {[opened |-> e, status |-> "firing"]}
      BY <1>1, <2>0, <2>2, <3>1, FiringAfter, SMT
    <3>3. { a.opened : a \in FiringFor(alerts', k) } = {e}
      BY <3>2
    <3>4. { x \in evs : x.key = k /\ x.kind = "alert" } = {e}
      BY <2>2, <3>1, Zenon
    <3> QED
      BY <3>3, <3>4, Zenon
  <2>3. ASSUME NEW e \in evs, e.key = k, e.kind = "recovery"
        PROVE  { a.opened : a \in FiringFor(alerts', k) } =
                  { x \in evs : x.key = k /\ x.kind = "alert" }
    <3>1. \A f \in evs : f.key = k => f = e
      BY <1>6, <2>3, Zenon
    <3>2. FiringFor(alerts', k) = {}
      BY <1>1, <2>0, <2>3, <3>1, FiringAfter, SMT
    <3>3. { a.opened : a \in FiringFor(alerts', k) } = {}
      BY <3>2
    <3>4. \A x \in evs : ~(x.key = k /\ x.kind = "alert")
      BY <2>3, <3>1
    <3> QED
      BY <3>3, <3>4, Zenon
  <2> QED
    BY <1>5, <2>1, <2>2, <2>3, Zenon
<1>8. Firing' = [k \in Keys |->
                    IF \E e \in evs : e.key = k
                    THEN { e \in evs : e.key = k /\ e.kind = "alert" }
                    ELSE Firing[k]]
  BY <1>7, FiringPrimed, Zenon
<1>9. /\ Announced \subseteq Announced'
      /\ \A e \in Announced' \ Announced :
            e.key \in Keys /\ IF e.kind = "alert" THEN Firing[e.key] = {} ELSE Firing[e.key] # {}
      /\ \A e, f \in Announced' \ Announced : e.key = f.key => e = f
      /\ Firing' = [k \in Keys |->
                    IF \E e \in Announced' \ Announced : e.key = k
                    THEN { e \in Announced' \ Announced : e.key = k /\ e.kind = "alert" }
                    ELSE Firing[k]]
  BY <1>4, <1>5, <1>6, <1>8, Zenon
<1> QED
  BY <1>9, Zenon DEF Lifecycle!Change, Lifecycle!New, Lifecycle!Legal, Firing, Announced

LEMMA LifecycleStep ==
    IInv /\ EveryEventIsNotified /\ EveryEventIsNotified' /\ [Next]_vars
       => [Lifecycle!Change]_(Lifecycle!vars)
<1> SUFFICES ASSUME IInv, EveryEventIsNotified, EveryEventIsNotified', [Next]_vars
             PROVE  [Lifecycle!Change]_(Lifecycle!vars)
  BY Zenon
<1>1. CASE UNCHANGED <<stored, states, transitions, events, alerts, outbox, lastSeen>>
  <2>1. alerts' = alerts /\ outbox' = outbox
    BY <1>1, Zenon
  <2>2. Firing' = Firing /\ Announced' = Announced
    BY <2>1, FiringPrimed, Zenon DEF Firing, Announced
  <2> QED
    BY <2>2, Zenon DEF Lifecycle!vars, Firing, Announced
<1>2. ASSUME NEW o \in Observation, NEW recs, NEW evs, Effects(o, recs, evs)
      PROVE  Lifecycle!Change
  BY <1>2, TransactionIsChange, Zenon
<1> QED
  BY <1>1, <1>2, StepCases, Zenon

\* Stage B implements the alert lifecycle for every value of the constants: per
\* alert key, events.alert carries a raise, then a clear, then a raise, each
\* announced by exactly one event, and nothing else (recordEvent, OpenAlert and
\* ResolveAlert against the state engine's decisions).
THEOREM LifecycleImplemented == Spec => ImplementsAlertLifecycle
<1>1. Init => Lifecycle!Init
  <2> SUFFICES ASSUME Init PROVE Lifecycle!Init
    BY Zenon
  <2>1. alerts = {} /\ outbox = {}
    BY Zenon DEF Init
  <2>2. \A k : FiringFor(alerts, k) = {}
    BY <2>1, Zenon DEF FiringFor
  <2>3. \A k : { a.opened : a \in FiringFor(alerts, k) } = {}
    BY <2>2, SMT
  <2>4. { r.event : r \in { x \in outbox : x.subject = "events.alert" } } = {}
    BY <2>1, SMT
  <2> QED
    BY <2>3, <2>4, Zenon DEF Lifecycle!Init
<1>2. Init => EveryEventIsNotified
  BY SMT DEF Init, EveryEventIsNotified
<1> QED
  BY <1>1, <1>2, InitIInv, NextIInv, NotifiedStep, LifecycleStep, PTL
     DEF Spec, ImplementsAlertLifecycle, Lifecycle!Spec

-----------------------------------------------------------------------------
(* The history of one entity: its events and its transition audit.         *)

Alternates(E, out) ==
    /\ \A e, f \in E : e # f => e.obs.at # f.obs.at
    /\ \A e, f \in E : e.kind = f.kind /\ e.obs.at < f.obs.at =>
           \E g \in E : g.kind # e.kind /\ e.obs.at < g.obs.at /\ g.obs.at < f.obs.at
    /\ \A e \in E : (\A f \in E : e.obs.at <= f.obs.at) => e.kind = "alert"
    /\ \A e \in E : (\A f \in E : f.obs.at <= e.obs.at) => ((e.kind = "alert") <=> out)

IsPathTo(T, s) ==
    /\ \A t, u \in T : t # u => t.at # u.at
    /\ \A t \in T :
         IF \A u \in T : u.at <= t.at
         THEN t.to = s
         ELSE \E u \in T : /\ t.at < u.at /\ u.from = t.to
                           /\ \A w \in T : t.at < w.at => u.at <= w.at

\* What alternation needs to be inductive.  Every row of an entity is at most
\* as new as the last sample applied to it, so that an applied sample is newer
\* than all of them, and there is a last row, which tells the current state.
RowsDated ==
    \A k \in Keys :
        /\ \A e \in EventsOf(k) : /\ states[k].state # "NONE"
                                  /\ e.obs.at <= states[k].lastObservedAt
        /\ \A t \in TransitionsOf(k) : /\ states[k].state # "NONE"
                                       /\ t.at <= states[k].lastObservedAt
LastEvent ==
    \A k \in Keys :
        IF EventsOf(k) = {} THEN states[k].state \notin OutageStates
        ELSE \E e \in EventsOf(k) : \A f \in EventsOf(k) : f.obs.at <= e.obs.at
LastTransition ==
    \A k \in Keys : TransitionsOf(k) # {} =>
        \E t \in TransitionsOf(k) : \A u \in TransitionsOf(k) : u.at <= t.at

HistoryInv == RowsDated /\ LastEvent /\ LastTransition /\ EventsAlternate /\ AuditIsAPath

\* An event newer than all others, at an outage edge, continues the alternation.
LEMMA AlternatesExtended ==
    ASSUME NEW E, NEW e, NEW out \in BOOLEAN, NEW now2 \in BOOLEAN, Alternates(E, out),
           \A f \in E \cup {e} : f.obs.at \in Nat /\ f.kind \in {"alert", "recovery"},
           \A f \in E : f.obs.at < e.obs.at,
           E = {} => ~out,
           E # {} => \E l \in E : \A f \in E : f.obs.at <= l.obs.at,
           now2 <=> ~out, (e.kind = "alert") <=> now2
    PROVE  /\ Alternates(E \cup {e}, now2)
           /\ \A f \in E \cup {e} : f.obs.at <= e.obs.at
<1> DEFINE F == E \cup {e}
<1>1. \A f \in F : f.obs.at <= e.obs.at
  OBVIOUS
<1>2. \A f, g \in F : f # g => f.obs.at # g.obs.at
  BY DEF Alternates
<1>3. ASSUME NEW f \in F, NEW g \in F, f.kind = g.kind, f.obs.at < g.obs.at
      PROVE  \E h \in F : h.kind # f.kind /\ f.obs.at < h.obs.at /\ h.obs.at < g.obs.at
  <2>1. f \in E
    BY <1>1, <1>3
  <2>2. CASE g \in E
    BY <1>3, <2>1, <2>2 DEF Alternates
  <2>3. CASE g = e
    <3>1. PICK l \in E : \A x \in E : x.obs.at <= l.obs.at
      BY <2>1
    <3>2. (l.kind = "alert") <=> out
      BY <3>1 DEF Alternates
    <3>3. l.kind # f.kind
      BY <1>3, <2>3, <3>2
    <3>4. l # f
      BY <3>3
    <3>5. f.obs.at # l.obs.at /\ f.obs.at <= l.obs.at
      BY <2>1, <3>1, <3>4 DEF Alternates
    <3> QED
      BY <2>1, <2>3, <3>1, <3>3, <3>5
  <2> QED
    BY <1>3, <2>2, <2>3
<1>4. ASSUME NEW f \in F, \A g \in F : f.obs.at <= g.obs.at PROVE f.kind = "alert"
  <2>1. CASE f \in E
    BY <1>4, <2>1 DEF Alternates
  <2>2. CASE f = e
    <3>1. E = {}
      BY <1>4, <2>2
    <3> QED
      BY <2>2, <3>1
  <2> QED
    BY <1>4, <2>1, <2>2
<1>5. ASSUME NEW f \in F, \A g \in F : g.obs.at <= f.obs.at PROVE (f.kind = "alert") <=> now2
  <2>1. f = e
    BY <1>5
  <2> QED
    BY <2>1
<1> QED
  BY <1>1, <1>2, <1>3, <1>4, <1>5, Zenon DEF Alternates

\* A transition newer than all others that starts in the state the path ends
\* in continues the path.
LEMMA PathExtended ==
    ASSUME NEW T, NEW t, NEW s, IsPathTo(T, s),
           \A u \in T \cup {t} : u.at \in Nat, \A u \in T : u.at < t.at,
           T # {} => t.from = s /\ \E l \in T : \A u \in T : u.at <= l.at
    PROVE  IsPathTo(T \cup {t}, t.to) /\ \A u \in T \cup {t} : u.at <= t.at
<1> DEFINE U == T \cup {t}
<1>1. \A u \in U : u.at <= t.at
  OBVIOUS
<1>2. \A u, v \in U : u # v => u.at # v.at
  BY DEF IsPathTo
<1>3. ASSUME NEW u \in U, \A v \in U : v.at <= u.at PROVE u.to = t.to
  <2>1. u = t
    BY <1>3
  <2> QED
    BY <2>1
<1>4. ASSUME NEW u \in U, ~\A v \in U : v.at <= u.at
      PROVE  \E v \in U : /\ u.at < v.at /\ v.from = u.to
                          /\ \A w \in U : u.at < w.at => v.at <= w.at
  <2>1. u \in T
    BY <1>1, <1>4
  <2>2. CASE \A v \in T : v.at <= u.at
    <3>1. u.to = s /\ t.from = s
      BY <2>1, <2>2 DEF IsPathTo
    <3>2. u.at < t.at /\ \A w \in U : u.at < w.at => t.at <= w.at
      BY <2>1, <2>2
    <3> QED
      BY <3>1, <3>2
  <2>3. CASE ~\A v \in T : v.at <= u.at
    <3>1. PICK v \in T : u.at < v.at /\ v.from = u.to /\ \A w \in T : u.at < w.at => v.at <= w.at
      BY <2>1, <2>3 DEF IsPathTo
    <3>2. \A w \in U : u.at < w.at => v.at <= w.at
      BY <3>1
    <3> QED
      BY <3>1, <3>2
  <2> QED
    BY <2>2, <2>3
<1> QED
  BY <1>1, <1>2, <1>3, <1>4, Zenon DEF IsPathTo

\* What one transaction does to the events of one entity.
LEMMA EventsOfKey ==
    ASSUME IInv, NEW o \in Observation, NEW recs, NEW evs, Effects(o, recs, evs), NEW k \in Keys
    PROVE  /\ Newer(states[k], states'[k], o)
           /\ \/ /\ EventsOf(k)' = EventsOf(k)
                 /\ states'[k].state \in OutageStates <=> states[k].state \in OutageStates
              \/ \E e : /\ EventsOf(k)' = EventsOf(k) \cup {e}
                        /\ e.obs = o /\ e.kind \in {"alert", "recovery"}
                        /\ (e.kind = "alert") <=> states'[k].state \in OutageStates
                        /\ states'[k].state \in OutageStates <=> states[k].state \notin OutageStates
<1>1. EventsOf(k)' = EventsOf(k) \cup { e \in evs : e.key = k }
  <2>1. events' = events \cup evs
    BY Zenon DEF Effects, RecordEvents
  <2>2. EventsOf(k)' = { e \in events' : e.key = k }
    BY Zenon DEF EventsOf
  <2> QED
    BY <2>1, <2>2, Zenon DEF EventsOf
<1>2. states'[k] = IF k \in Touched(o) THEN recs[k] ELSE states[k]
  BY Zenon DEF Effects
<1>3. Newer(states[k], states'[k], o)
  <2>1. CASE k \in Touched(o)
    BY <1>2, <2>1, Zenon DEF Effects
  <2>2. CASE k \notin Touched(o)
    BY <1>2, <2>2, Zenon DEF Newer
  <2> QED
    BY <2>1, <2>2, Zenon
<1>4. CASE \A e \in evs : e.key # k
  <2>1. EventsOf(k)' = EventsOf(k)
    BY <1>1, <1>4, Zenon
  <2>2. states'[k].state \in OutageStates <=> states[k].state \in OutageStates
    <3>1. CASE k \notin Touched(o)
      BY <1>2, <3>1, Zenon
    <3>2. CASE k \in Touched(o)
      <4>1. Event(k, "alert", o).key = k /\ Event(k, "recovery", o).key = k
        BY Zenon DEF Event
      <4>2. Event(k, "alert", o) \notin evs /\ Event(k, "recovery", o) \notin evs
        BY <1>4, <4>1, Zenon
      <4> QED
        BY <1>2, <3>2, <4>2, Zenon DEF Effects
    <3> QED
      BY <3>1, <3>2, Zenon
  <2> QED
    BY <1>3, <2>1, <2>2, Zenon
<1>5. ASSUME NEW e \in evs, e.key = k
      PROVE  /\ EventsOf(k)' = EventsOf(k) \cup {e}
             /\ e.obs = o /\ e.kind \in {"alert", "recovery"}
             /\ (e.kind = "alert") <=> states'[k].state \in OutageStates
             /\ states'[k].state \in OutageStates <=> states[k].state \notin OutageStates
  <2>1. /\ k \in Touched(o) /\ e.obs = o /\ e.kind \in {"alert", "recovery"}
        /\ e = Event(k, e.kind, o)
    BY <1>5, Zenon DEF Effects
  <2>2. { f \in evs : f.key = k } = {e}
    BY <1>5, OneEventPerKey, Zenon
  <2>3. states'[k] = recs[k]
    BY <1>2, <2>1, Zenon
  <2>4. CASE e.kind = "alert"
    <3>1. Event(k, "alert", o) \in evs
      BY <2>1, <2>4, <1>5, Zenon
    <3>2. states[k].state \notin OutageStates /\ recs[k].state \in OutageStates
      BY <2>1, <3>1, Zenon DEF Effects
    <3> QED
      BY <1>1, <2>1, <2>2, <2>3, <2>4, <3>2, Zenon
  <2>5. CASE e.kind = "recovery"
    <3>1. Event(k, "recovery", o) \in evs
      BY <2>1, <2>5, <1>5, Zenon
    <3>2. states[k].state \in OutageStates /\ recs[k].state \notin OutageStates
      BY <2>1, <3>1, Zenon DEF Effects
    <3>3. e.kind # "alert"
      BY <2>5
    <3> QED
      BY <1>1, <2>1, <2>2, <2>3, <3>2, <3>3, Zenon
  <2> QED
    BY <2>1, <2>4, <2>5, Zenon
<1> QED
  BY <1>3, <1>4, <1>5, Zenon

\* What one transaction does to the transition audit of one entity.
LEMMA TransitionsOfKey ==
    ASSUME IInv, NEW o \in Observation, NEW recs, NEW evs, Effects(o, recs, evs), NEW k \in Keys
    PROVE  \/ /\ TransitionsOf(k)' = TransitionsOf(k)
              /\ states[k].state # "NONE" => states'[k].state = states[k].state
           \/ \E t : /\ TransitionsOf(k)' = TransitionsOf(k) \cup {t}
                     /\ t.at = o.at /\ t.to = states'[k].state
                     /\ states[k].state # "NONE" => t.from = states[k].state
                     /\ states'[k] # states[k]
<1> DEFINE Row(x) == [key |-> x, from |-> FromState(x, states[x]), to |-> recs[x].state, at |-> o.at]
           new == { Row(x) : x \in { y \in Touched(o) : Transitioned(y, recs[y]) } }
<1>1. TransitionsOf(k)' = TransitionsOf(k) \cup { t \in new : t.key = k }
  <2>1. transitions' = transitions \cup new
    BY Zenon DEF Effects
  <2>2. TransitionsOf(k)' = { t \in transitions' : t.key = k }
    BY Zenon DEF TransitionsOf
  <2> QED
    BY <2>1, <2>2, Zenon DEF TransitionsOf
<1>2. states'[k] = IF k \in Touched(o) THEN recs[k] ELSE states[k]
  BY Zenon DEF Effects
<1>3. \A x : /\ Row(x).key = x /\ Row(x).from = FromState(x, states[x])
             /\ Row(x).to = recs[x].state /\ Row(x).at = o.at
  BY Zenon
<1>4. states[k].state # "NONE" => FromState(k, states[k]) = states[k].state
  BY Zenon DEF FromState
<1>5. \A t : t \in new <=> \E x \in Touched(o) : Transitioned(x, recs[x]) /\ t = Row(x)
  BY Zenon
<1> HIDE DEF Row, new
<1>6. CASE k \in Touched(o) /\ Transitioned(k, recs[k])
  <2>1. { t \in new : t.key = k } = {Row(k)}
    <3>1. Row(k) \in new /\ Row(k).key = k
      BY <1>3, <1>5, <1>6, Zenon
    <3>2. ASSUME NEW t \in new, t.key = k PROVE t = Row(k)
      <4>1. PICK x \in Touched(o) : t = Row(x)
        BY <1>5, <3>2, Zenon
      <4>2. x = k
        BY <1>3, <3>2, <4>1, SMT
      <4> QED
        BY <4>1, <4>2, Zenon
    <3> QED
      BY <3>1, <3>2, Zenon
  <2>2. states'[k] = recs[k] /\ FromState(k, states[k]) # recs[k].state
    BY <1>2, <1>6, Zenon DEF Transitioned
  <2>3. recs[k].state \in HealthStates
    BY <1>6, <2>2, Zenon DEF Effects, Moves
  <2>4. states'[k] # states[k]
    <3> SUFFICES ASSUME states'[k] = states[k] PROVE FALSE
      BY Zenon
    <3>1. states[k].state # "NONE"
      BY <2>2, <2>3 DEF HealthStates
    <3> QED
      BY <1>4, <2>2, <3>1, Zenon
  <2> QED
    BY <1>1, <1>3, <1>4, <2>1, <2>2, <2>4, Zenon
<1>7. CASE ~(k \in Touched(o) /\ Transitioned(k, recs[k]))
  <2>1. { t \in new : t.key = k } = {}
    <3>1. ASSUME NEW t \in new, t.key = k PROVE FALSE
      <4>1. PICK x \in Touched(o) : Transitioned(x, recs[x]) /\ t = Row(x)
        BY <1>5, <3>1, Zenon
      <4>2. x = k
        BY <1>3, <3>1, <4>1, SMT
      <4> QED
        BY <1>7, <4>1, <4>2, Zenon
    <3> QED
      BY <3>1, Zenon
  <2>2. states[k].state # "NONE" => states'[k].state = states[k].state
    BY <1>2, <1>4, <1>7, Zenon DEF Transitioned
  <2> QED
    BY <1>1, <2>1, <2>2, Zenon
<1> QED
  BY <1>6, <1>7, Zenon

\* The history of one entity, as HistoryInv states it.
KeyHistory(E, T, rec) ==
    /\ \A e \in E : rec.state # "NONE" /\ e.obs.at <= rec.lastObservedAt
    /\ \A t \in T : rec.state # "NONE" /\ t.at <= rec.lastObservedAt
    /\ E = {} => rec.state \notin OutageStates
    /\ E # {} => \E e \in E : \A f \in E : f.obs.at <= e.obs.at
    /\ T # {} => \E t \in T : \A u \in T : u.at <= t.at
    /\ Alternates(E, rec.state \in OutageStates)
    /\ IsPathTo(T, rec.state)

LEMMA HistoryIsKeyHistory ==
    /\ HistoryInv <=> \A k \in Keys : KeyHistory(EventsOf(k), TransitionsOf(k), states[k])
    /\ HistoryInv' <=> \A k \in Keys : KeyHistory(EventsOf(k)', TransitionsOf(k)', states'[k])
<1>1. EventsAlternate <=> \A k \in Keys : Alternates(EventsOf(k), states[k].state \in OutageStates)
  BY Zenon DEF EventsAlternate, Alternates
<1>2. AuditIsAPath <=> \A k \in Keys : IsPathTo(TransitionsOf(k), states[k].state)
  BY Zenon DEF AuditIsAPath, IsPathTo
<1>3. EventsAlternate' <=> \A k \in Keys : Alternates(EventsOf(k)', states'[k].state \in OutageStates)
  BY Zenon DEF EventsAlternate, Alternates, EventsOf
<1>4. AuditIsAPath' <=> \A k \in Keys : IsPathTo(TransitionsOf(k)', states'[k].state)
  BY Zenon DEF AuditIsAPath, IsPathTo, TransitionsOf
<1>5. HistoryInv <=> \A k \in Keys : KeyHistory(EventsOf(k), TransitionsOf(k), states[k])
  BY <1>1, <1>2, Zenon DEF HistoryInv, RowsDated, LastEvent, LastTransition, KeyHistory
<1>6. HistoryInv' <=> \A k \in Keys : KeyHistory(EventsOf(k)', TransitionsOf(k)', states'[k])
  BY <1>3, <1>4, Zenon DEF HistoryInv, RowsDated, LastEvent, LastTransition, KeyHistory
<1> QED
  BY <1>5, <1>6, Zenon

LEMMA HistoryStep == IInv /\ HistoryInv /\ [Next]_vars => HistoryInv'
<1> SUFFICES ASSUME IInv, HistoryInv, [Next]_vars PROVE HistoryInv'
  BY Zenon
<1>1. CASE UNCHANGED <<stored, states, transitions, events, alerts, outbox, lastSeen>>
  <2>1. events' = events /\ transitions' = transitions /\ states' = states
    BY <1>1, Zenon
  <2>2. \A k : EventsOf(k)' = EventsOf(k) /\ TransitionsOf(k)' = TransitionsOf(k)
    BY <2>1, Zenon DEF EventsOf, TransitionsOf
  <2> QED
    BY <2>1, <2>2, HistoryIsKeyHistory, Zenon
<1>2. ASSUME NEW o \in Observation, NEW recs, NEW evs, Effects(o, recs, evs), NEW k \in Keys
      PROVE  KeyHistory(EventsOf(k)', TransitionsOf(k)', states'[k])
  <2> DEFINE E  == EventsOf(k)
             T  == TransitionsOf(k)
             E2 == EventsOf(k)'
             T2 == TransitionsOf(k)'
             old == states[k]
             rec == states'[k]
  <2>1. /\ \A e \in E : e.obs.at \in Nat /\ e.kind \in {"alert", "recovery"}
        /\ \A t \in T : t.at \in Nat
        /\ old.lastObservedAt \in Nat /\ o.at \in Nat
    <3>1. \A e \in events : e.obs \in Observation /\ e.kind \in {"alert", "recovery"}
      BY Zenon DEF IInv, TypeOK
    <3>2. \A t \in transitions : t.at \in Nat
      BY Zenon DEF IInv, TypeOK
    <3>3. \A x \in Observation : x.at \in Nat
      BY Zenon DEF Observation
    <3>4. old \in Record
      BY Zenon DEF IInv, TypeOK
    <3>5. old.lastObservedAt \in Nat
      BY <3>4, Zenon DEF Record, Times
    <3> QED
      BY <3>1, <3>2, <3>3, <3>5, Zenon DEF EventsOf, TransitionsOf
  <2>2. KeyHistory(E, T, old)
    BY HistoryIsKeyHistory, Zenon
  <2>3. Newer(old, rec, o)
    BY <1>2, EventsOfKey, Zenon
  <2>4. \/ E2 = E /\ (rec.state \in OutageStates <=> old.state \in OutageStates)
        \/ \E e : /\ E2 = E \cup {e}
                  /\ e.obs = o /\ e.kind \in {"alert", "recovery"}
                  /\ (e.kind = "alert") <=> rec.state \in OutageStates
                  /\ rec.state \in OutageStates <=> old.state \notin OutageStates
    BY <1>2, EventsOfKey, Zenon
  <2>5. \/ T2 = T /\ (old.state # "NONE" => rec.state = old.state)
        \/ \E t : /\ T2 = T \cup {t} /\ t.at = o.at /\ t.to = rec.state
                  /\ old.state # "NONE" => t.from = old.state
                  /\ rec # old
    BY <1>2, TransitionsOfKey, Zenon
  <2> HIDE DEF E, T, E2, T2, old, rec
  <2>6. /\ \A e \in E : old.state # "NONE" /\ e.obs.at <= old.lastObservedAt
        /\ \A t \in T : old.state # "NONE" /\ t.at <= old.lastObservedAt
        /\ E = {} => old.state \notin OutageStates
        /\ E # {} => \E e \in E : \A f \in E : f.obs.at <= e.obs.at
        /\ T # {} => \E t \in T : \A u \in T : u.at <= t.at
        /\ Alternates(E, old.state \in OutageStates)
        /\ IsPathTo(T, old.state)
    BY <2>2, Zenon DEF KeyHistory
  <2>7. \/ rec = old
        \/ /\ old.state # "NONE" => old.lastObservedAt < o.at
           /\ rec.lastObservedAt = o.at /\ rec.state # "NONE"
    BY <2>1, <2>3 DEF Newer, Outdated, HealthStates
  <2>8. rec # old => /\ \A e \in E : e.obs.at < o.at
                     /\ \A t \in T : t.at < o.at
    BY <2>1, <2>6, <2>7
  <2>9. /\ \A e \in E2 : rec.state # "NONE" /\ e.obs.at <= rec.lastObservedAt
        /\ E2 = {} => rec.state \notin OutageStates
        /\ E2 # {} => \E e \in E2 : \A f \in E2 : f.obs.at <= e.obs.at
        /\ Alternates(E2, rec.state \in OutageStates)
    <3>1. CASE E2 = E /\ (rec.state \in OutageStates <=> old.state \in OutageStates)
      <4>1. \A e \in E2 : rec.state # "NONE" /\ e.obs.at <= rec.lastObservedAt
        BY <2>1, <2>6, <2>7, <3>1
      <4>2. Alternates(E, rec.state \in OutageStates)
        BY <2>6, <3>1, Zenon DEF Alternates
      <4> QED
        BY <2>6, <3>1, <4>1, <4>2, Zenon
    <3>2. ASSUME NEW e, E2 = E \cup {e}, e.obs = o, e.kind \in {"alert", "recovery"},
                 (e.kind = "alert") <=> rec.state \in OutageStates,
                 rec.state \in OutageStates <=> old.state \notin OutageStates
          PROVE  /\ \A f \in E2 : rec.state # "NONE" /\ f.obs.at <= rec.lastObservedAt
                 /\ E2 # {} /\ \E x \in E2 : \A f \in E2 : f.obs.at <= x.obs.at
                 /\ Alternates(E2, rec.state \in OutageStates)
      <4>1. rec # old
        BY <3>2, Zenon
      <4>2. \A f \in E \cup {e} : f.obs.at \in Nat /\ f.kind \in {"alert", "recovery"}
        BY <2>1, <3>2, Zenon
      <4>3. \A f \in E : f.obs.at < e.obs.at
        BY <2>8, <3>2, <4>1, Zenon
      <4> DEFINE a == old.state \in OutageStates
                 b == rec.state \in OutageStates
      <4>a. a \in BOOLEAN /\ b \in BOOLEAN
        BY SMT
      <4>4. /\ (b <=> ~a) /\ ((e.kind = "alert") <=> b)
            /\ Alternates(E, a) /\ (E = {} => ~a)
        BY <2>6, <3>2, Zenon
      <4> HIDE DEF a, b
      <4>5. Alternates(E \cup {e}, b) /\ \A f \in E \cup {e} : f.obs.at <= e.obs.at
        BY <2>6, <4>2, <4>3, <4>4, <4>a, AlternatesExtended, Zenon
      <4>6. rec.state # "NONE" /\ rec.lastObservedAt = e.obs.at
        BY <2>7, <3>2, <4>1
      <4> QED
        BY <3>2, <4>5, <4>6, Zenon DEF b
    <3> QED
      BY <2>4, <3>1, <3>2, Zenon
  <2>10. /\ \A t \in T2 : rec.state # "NONE" /\ t.at <= rec.lastObservedAt
         /\ T2 # {} => \E t \in T2 : \A u \in T2 : u.at <= t.at
         /\ IsPathTo(T2, rec.state)
    <3>1. CASE T2 = T /\ (old.state # "NONE" => rec.state = old.state)
      <4>1. \A t \in T2 : rec.state # "NONE" /\ t.at <= rec.lastObservedAt
        BY <2>1, <2>6, <2>7, <3>1
      <4>2. CASE T = {}
        BY <3>1, <4>2, Zenon DEF IsPathTo
      <4>3. CASE T # {}
        <5>1. rec.state = old.state
          BY <2>6, <3>1, <4>3, Zenon
        <5> QED
          BY <2>6, <3>1, <4>1, <5>1, Zenon
      <4> QED
        BY <4>2, <4>3, Zenon
    <3>2. ASSUME NEW t, T2 = T \cup {t}, t.at = o.at, t.to = rec.state,
                 old.state # "NONE" => t.from = old.state, rec # old
          PROVE  /\ \A u \in T2 : rec.state # "NONE" /\ u.at <= rec.lastObservedAt
                 /\ \E x \in T2 : \A u \in T2 : u.at <= x.at
                 /\ IsPathTo(T2, rec.state)
      <4>1. /\ \A u \in T \cup {t} : u.at \in Nat
            /\ \A u \in T : u.at < t.at
        BY <2>1, <2>8, <3>2, Zenon
      <4>2. T # {} => t.from = old.state /\ \E l \in T : \A u \in T : u.at <= l.at
        BY <2>6, <3>2, Zenon
      <4>3. IsPathTo(T, old.state)
        BY <2>6, Zenon
      <4>4. IsPathTo(T \cup {t}, t.to) /\ \A u \in T \cup {t} : u.at <= t.at
        BY <4>1, <4>2, <4>3, PathExtended, Zenon
      <4>5. rec.state # "NONE" /\ rec.lastObservedAt = t.at
        BY <2>7, <3>2
      <4> QED
        BY <3>2, <4>4, <4>5, Zenon
    <3> QED
      BY <2>5, <3>1, <3>2, Zenon
  <2>11. KeyHistory(E2, T2, rec)
    BY <2>9, <2>10, Zenon DEF KeyHistory
  <2> QED
    BY <2>11, Zenon DEF E2, T2, rec
<1>3. ASSUME NEW o \in Observation, NEW recs, NEW evs, Effects(o, recs, evs) PROVE HistoryInv'
  BY <1>2, <1>3, HistoryIsKeyHistory, Zenon
<1> QED
  BY <1>1, <1>3, StepCases, Zenon

LEMMA InitHistory == Init => HistoryInv
<1> SUFFICES ASSUME Init, NEW k \in Keys PROVE KeyHistory(EventsOf(k), TransitionsOf(k), states[k])
  BY HistoryIsKeyHistory, Zenon
<1>1. EventsOf(k) = {} /\ TransitionsOf(k) = {}
  BY Zenon DEF Init, EventsOf, TransitionsOf
<1>2. states[k].state \notin OutageStates
  BY DEF Init, NoRecord, OutageStates
<1> QED
  BY <1>1, <1>2, Zenon DEF KeyHistory, Alternates, IsPathTo

\* Under any redelivery, reordering and sweep race the events of an entity are,
\* in event time, alert, recovery, alert, ..., and the last of them tells
\* whether it is in an outage now (eventFor and recordEvent behind the ordering
\* guard of Evaluate).
THEOREM EventsAlternateAlways == Spec => []EventsAlternate
<1>1. HistoryInv => EventsAlternate
  BY Zenon DEF HistoryInv
<1> QED
  BY <1>1, InitIInv, NextIInv, InitHistory, HistoryStep, PTL DEF Spec

\* The transition audit of every entity is a path that ends in its current
\* state: InsertTransition and PutState never disagree, and no late sample
\* slips a row in between.
THEOREM AuditIsAPathAlways == Spec => []AuditIsAPath
<1>1. HistoryInv => AuditIsAPath
  BY Zenon DEF HistoryInv
<1> QED
  BY <1>1, InitIInv, NextIInv, InitHistory, HistoryStep, PTL DEF Spec

-----------------------------------------------------------------------------
(* Alerts of the sweeper.                                                  *)

Buckets == { Stamp(t) : t \in Nat }

\* Synthetic samples are booleans and carry the time of their sweep's bucket.
Synthetic(o) == o.at \in Buckets /\ o.value.type = "bool"
Stamped(S) == \A o \in S : o.source = "sweeper" => Synthetic(o)
StampedInv == /\ Stamped(published) /\ Stamped(stored)
              /\ \A p \in Processors : Stamped(sweeping[p])

\* What a boolean definition's record knows of the stored samples: none that it
\* can judge is newer than the record, and a failure streak ends in a stored
\* bad sample of the record's time.
Judges(k, o)  == k \in Touched(o) /\ o.value.type = "bool"
Good(k, o)    == (o.value.num = 1) <=> Defs[k[1]].equals
IsBoolean(k)  == k[1] \in DefIds /\ Defs[k[1]].kind = "good_when"
Hears(k, rec, S) ==
    /\ \A o \in S : Judges(k, o) => rec.state # "NONE" /\ o.at <= rec.lastObservedAt
    /\ rec.failures > 0 =>
          \E b \in S : Judges(k, b) /\ ~Good(k, b) /\ b.at = rec.lastObservedAt
HeardInv == \A k \in Keys : IsBoolean(k) => Hears(k, states[k], stored)

\* Two different buckets are an interval apart.
LEMMA BucketsApart ==
    ASSUME NEW x \in Buckets, NEW y \in Buckets, x < y
    PROVE  x <= y - SweepInterval
<1>1. SweepInterval \in Nat \ {0}
  BY StageBAssumption
<1>2. PICK s \in Nat : x = (s \div SweepInterval) * SweepInterval
  BY Zenon DEF Buckets, Stamp
<1>3. PICK t \in Nat : y = (t \div SweepInterval) * SweepInterval
  BY Zenon DEF Buckets, Stamp
<1> DEFINE I == SweepInterval
           a == s \div SweepInterval
           b == t \div SweepInterval
<1>4. a \in Nat /\ b \in Nat /\ I \in Nat
  BY <1>1, <1>2, <1>3
<1>5. x = a * I /\ y = b * I
  BY <1>2, <1>3
<1> HIDE DEF a, b, I
<1>6. a + 1 <= b
  <2> SUFFICES ASSUME b <= a PROVE FALSE
    BY <1>4
  <2>1. b * I <= a * I
    BY <1>4
  <2> QED
    BY <1>4, <1>5, <2>1
<1>7. (a + 1) * I <= b * I
  BY <1>4, <1>6
<1>8. (a + 1) * I = a * I + I
  BY <1>4
<1>9. a * I \in Nat /\ b * I \in Nat
  BY <1>4
<1> QED
  BY <1>4, <1>5, <1>7, <1>8, <1>9 DEF I

LEMMA StaleSamplesAreStamped ==
    ASSUME TypeOK, NEW p
    PROVE  Stamped(StaleSamples(p))
<1> SUFFICES ASSUME NEW o \in StaleSamples(p) PROVE Synthetic(o)
  BY Zenon DEF Stamped
<1>1. PICK k \in SweptKeys : o = [device |-> k[2], label |-> k[3], metric |-> Metric(k[1]),
              value |-> StaleValue(Defs[k[1]]), at |-> Stamp(now), source |-> "sweeper",
              origin |-> k[1]]
  BY Zenon DEF StaleSamples
<1>2. o.at = Stamp(now) /\ o.value = StaleValue(Defs[k[1]])
  BY <1>1, Zenon
<1>3. \A v : BoolValue(v).type = "bool"
  BY Zenon DEF BoolValue
<1>4. o.value.type = "bool"
  BY <1>2, <1>3, Zenon DEF StaleValue
<1>5. now \in Nat
  BY Zenon DEF TypeOK
<1> QED
  BY <1>2, <1>4, <1>5, Zenon DEF Synthetic, Buckets

\* A transaction works on a published or a synthetic observation.
LEMMA StepSource ==
    ASSUME IInv, StampedInv, [Next]_vars
    PROVE  \/ \E o \in Observation : Process(o) /\ (o.source = "sweeper" => Synthetic(o))
           \/ UNCHANGED <<stored, states, transitions, events, alerts, outbox, lastSeen>>
<1>0. WorldOK
  BY TypeOKParts, Zenon DEF IInv
<1>1. ASSUME NEW o \in published, Deliver(o)
      PROVE  \/ \E x \in Observation : Process(x) /\ (x.source = "sweeper" => Synthetic(x))
             \/ UNCHANGED <<stored, states, transitions, events, alerts, outbox, lastSeen>>
  <2>1. o \in Observation /\ (o.source = "sweeper" => Synthetic(o))
    BY <1>0, <1>1, Zenon DEF WorldOK, StampedInv, Stamped
  <2> QED
    BY <1>1, <2>1, Zenon DEF Deliver, Skip
<1>2. ASSUME NEW p \in Processors, NEW o \in sweeping[p], SweepFeed(p, o)
      PROVE  \/ \E x \in Observation : Process(x) /\ (x.source = "sweeper" => Synthetic(x))
             \/ UNCHANGED <<stored, states, transitions, events, alerts, outbox, lastSeen>>
  <2>1. o \in Observation /\ (o.source = "sweeper" => Synthetic(o))
    BY <1>0, <1>2, Zenon DEF WorldOK, StampedInv, Stamped
  <2> QED
    BY <1>2, <2>1, Zenon DEF SweepFeed, Skip
<1>3. ASSUME NEW p \in Processors, SweepStart(p) \/ SweepFail(p) \/ Restart(p)
      PROVE  UNCHANGED <<stored, states, transitions, events, alerts, outbox, lastSeen>>
  BY <1>3, Zenon DEF SweepStart, SweepFail, Restart
<1>4. ASSUME NEW dev \in Devices, NEW label \in Labels, NEW m \in Metrics, NEW v \in Readings,
             Collect(dev, label, m, v)
      PROVE  UNCHANGED <<stored, states, transitions, events, alerts, outbox, lastSeen>>
  BY <1>4, Zenon DEF Collect
<1>5. CASE Tick
  BY <1>5, Zenon DEF Tick
<1>6. CASE UNCHANGED vars
  BY <1>6, Zenon DEF vars
<1> QED
  BY <1>1, <1>2, <1>3, <1>4, <1>5, <1>6, Zenon DEF Next

LEMMA StampedStep == IInv /\ StampedInv /\ [Next]_vars => StampedInv'
<1> SUFFICES ASSUME IInv, StampedInv, [Next]_vars PROVE StampedInv'
  BY Zenon
<1>0. WorldOK /\ TypeOK
  BY TypeOKParts, Zenon DEF IInv
<1>1. Stamped(stored')
  <2>1. ASSUME NEW o \in Observation, Process(o), o.source = "sweeper" => Synthetic(o)
        PROVE  Stamped(stored')
    <3>1. stored' = stored \cup {o}
      BY <2>1, Zenon DEF Process
    <3> QED
      BY <2>1, <3>1, Zenon DEF StampedInv, Stamped
  <2>2. CASE UNCHANGED <<stored, states, transitions, events, alerts, outbox, lastSeen>>
    BY <2>2, Zenon DEF StampedInv
  <2> QED
    BY <2>1, <2>2, StepSource, Zenon
<1>2. Stamped(published')
  <2>1. ASSUME NEW dev \in Devices, NEW label \in Labels, NEW m \in Metrics, NEW v \in Readings,
               Collect(dev, label, m, v)
        PROVE  Stamped(published')
    <3> DEFINE o == [device |-> dev, label |-> label, metric |-> m, value |-> v,
                     at |-> now, source |-> "snmp", origin |-> "collector"]
    <3>1. published' = published \cup {o}
      BY <2>1, Zenon DEF Collect
    <3>2. o.source # "sweeper"
      BY SMT
    <3> HIDE DEF o
    <3> QED
      BY <3>1, <3>2, Zenon DEF StampedInv, Stamped
  <2>2. ASSUME published' = published PROVE Stamped(published')
    BY <2>2, Zenon DEF StampedInv
  <2> QED
    BY <2>1, <2>2, Zenon DEF Next, Tick, Deliver, SweepStart, SweepFeed, SweepFail, Restart, vars
<1>3. ASSUME NEW q \in Processors PROVE Stamped(sweeping'[q])
  <2>0. Stamped(sweeping[q]) /\ Stamped({}) /\ sweeping \in [Processors -> SUBSET Observation]
    BY <1>0, Zenon DEF StampedInv, Stamped, WorldOK
  <2>1. ASSUME NEW p \in Processors, SweepStart(p) PROVE Stamped(sweeping'[q])
    <3>1. sweeping' = [sweeping EXCEPT ![p] = StaleSamples(p)]
      BY <2>1, Zenon DEF SweepStart
    <3>2. sweeping'[q] = IF q = p THEN StaleSamples(p) ELSE sweeping[q]
      BY <2>0, <3>1, Zenon
    <3> QED
      BY <1>0, <2>0, <3>2, StaleSamplesAreStamped, Zenon
  <2>2. ASSUME NEW p \in Processors, NEW o \in sweeping[p], SweepFeed(p, o)
        PROVE  Stamped(sweeping'[q])
    <3>1. sweeping' = [sweeping EXCEPT ![p] = sweeping[p] \ {o}]
      BY <2>2, Zenon DEF SweepFeed
    <3>2. sweeping'[q] \subseteq sweeping[q]
      BY <2>0, <3>1, Zenon
    <3> QED
      BY <2>0, <3>2, Zenon DEF Stamped
  <2>3. ASSUME NEW p \in Processors, SweepFail(p) \/ Restart(p) PROVE Stamped(sweeping'[q])
    <3>1. sweeping' = [sweeping EXCEPT ![p] = {}]
      BY <2>3, Zenon DEF SweepFail, Restart
    <3>2. sweeping'[q] = IF q = p THEN {} ELSE sweeping[q]
      BY <2>0, <3>1, Zenon
    <3> QED
      BY <2>0, <3>2, Zenon
  <2>4. ASSUME sweeping' = sweeping PROVE Stamped(sweeping'[q])
    BY <2>0, <2>4, Zenon
  <2> QED
    BY <2>1, <2>2, <2>3, <2>4, Zenon DEF Next, Tick, Collect, Deliver, vars
<1> QED
  BY <1>1, <1>2, <1>3, Zenon DEF StampedInv, Stamped, Synthetic, Buckets, Stamp

\* What one sample does to the record of a boolean definition: it is ignored,
\* clears the failure streak, or is a failure, which opens an outage only if
\* another one came before it or the definition needs but one.
NeedsTwo(def) == def.failAfter >= 2 \/ def.failFor >= 1

LEMMA BooleanVerdict ==
    ASSUME NEW def \in Definition, def.kind = "good_when", NEW prev \in Record, NEW o,
           o.at \in Nat, o.value \in Values
    PROVE  LET rec  == Evaluate(def, prev, o)
               good == (o.value.num = 1) <=> def.equals
           IN  \/ rec = prev /\ (Outdated(prev, o.at) \/ o.value.type # "bool")
               \/ /\ ~Outdated(prev, o.at) /\ o.value.type = "bool"
                  /\ rec.state \in HealthStates /\ rec.lastObservedAt = o.at
                  /\ good => rec.failures = 0
                  /\ prev.state \notin OutageStates /\ rec.state \in OutageStates /\ NeedsTwo(def)
                        => prev.failures > 0
<1> DEFINE j   == Judge(def, prev, o.value)
           rec == [prev EXCEPT !.breached = j.breached, !.lastObservedAt = o.at,
                               !.lastSeenAt = IF o.source = "sweeper" THEN @ ELSE o.at]
           good == (o.value.num = 1) <=> def.equals
           new == Evaluate(def, prev, o)
<1>1. (j.good <=> good) /\ j.breached = prev.breached /\ prev.breached \in BOOLEAN
      /\ j.good \in BOOLEAN
  <2>1. def.equals \in BOOLEAN /\ prev.breached \in BOOLEAN
    BY Zenon DEF Definition, Record
  <2>2. (o.value.num = 1) \in BOOLEAN
    BY SMT
  <2> QED
    BY <2>1, <2>2, Zenon DEF Judge
<1>2. CASE Ignored(def, prev, o)
  <2>1. new = prev
    BY <1>2, Zenon DEF Evaluate
  <2>2. Outdated(prev, o.at) \/ o.value.type # "bool"
    BY <1>2, Zenon DEF Ignored, Judgeable
  <2> QED
    BY <2>1, <2>2, Zenon
<1>3. CASE ~Ignored(def, prev, o)
  <2>1. ~Outdated(prev, o.at) /\ o.value.type = "bool"
    BY <1>3, Zenon DEF Ignored, Judgeable
  <2>2. new = Step(def, rec, j.good, o.at)
    BY <1>3, Zenon DEF Evaluate, Applied
  <2> DEFINE seen == IF o.source = "sweeper" THEN prev.lastSeenAt ELSE o.at
  <2>3. /\ rec \in Record /\ rec.state = prev.state /\ rec.failures = prev.failures
        /\ rec.lastObservedAt = o.at /\ rec.badSince = prev.badSince /\ prev.failures \in Nat
    <3> HIDE DEF j
    <3>1. rec = [prev EXCEPT !.breached = j.breached, !.lastObservedAt = o.at, !.lastSeenAt = seen]
      BY Zenon
    <3>2. seen \in Nat
      BY Zenon DEF Record, Times
    <3> HIDE DEF seen
    <3> QED
      BY <1>1, <3>1, <3>2 DEF Record, Times
  <2>4. CASE j.good
    <3> HIDE DEF rec, j
    <3>1. new = GoodStep(def, rec, o.at)
      BY <2>2, <2>4, Zenon DEF Step
    <3> DEFINE g == GoodStep(def, rec, o.at)
    <3>a. /\ g.failures = 0 /\ g.lastObservedAt = rec.lastObservedAt
          /\ rec.state \notin OutageStates => g.state = "UP"
      BY <2>3, GoodFields, Zenon
    <3>2. /\ new.failures = 0 /\ new.lastObservedAt = rec.lastObservedAt
          /\ rec.state \notin OutageStates => new.state = "UP"
      BY <3>1, <3>a, Zenon
    <3>3. Moves(rec.state, new.state)
      BY <2>3, <3>1, GoodStepShape, Zenon
    <3>4. new.state \in HealthStates
      BY <3>3, Zenon DEF Moves
    <3>5. "UP" \notin OutageStates
      BY DEF OutageStates
    <3> HIDE DEF new
    <3> QED
      BY <2>1, <2>3, <3>2, <3>4, <3>5, Zenon DEF new
  <2>5. CASE ~j.good
    <3> DEFINE since == IF rec.failures = 0 THEN o.at ELSE rec.badSince
               confirmed == rec.failures + 1 >= def.failAfter /\ o.at - since >= def.failFor
    <3> HIDE DEF rec, j
    <3>1. new = BadStep(def, rec, o.at)
      BY <2>2, <2>5, Zenon DEF Step
    <3> DEFINE f == BadStep(def, rec, o.at)
    <3>a. /\ f.lastObservedAt = rec.lastObservedAt
          /\ f.state = IF rec.state \in OutageStates \/ confirmed THEN "DOWN" ELSE "SUSPECT"
      BY <2>3, BadFields, Zenon
    <3>2. /\ new.lastObservedAt = rec.lastObservedAt
          /\ new.state = IF rec.state \in OutageStates \/ confirmed THEN "DOWN" ELSE "SUSPECT"
      BY <3>1, <3>a, Zenon
    <3>3. Moves(rec.state, new.state)
      BY <2>3, <3>1, BadStepShape, Zenon
    <3>4. new.state \in HealthStates
      BY <3>3, Zenon DEF Moves
    <3>5. "SUSPECT" \notin OutageStates
      BY DEF OutageStates
    <3>6. ASSUME NeedsTwo(def), confirmed PROVE rec.failures > 0
      <4>1. def.failAfter \in Nat /\ def.failFor \in Nat
        BY Zenon DEF Definition
      <4> QED
        BY <2>3, <3>6, <4>1 DEF NeedsTwo
    <3> HIDE DEF new, confirmed
    <3>7. prev.state \notin OutageStates /\ new.state \in OutageStates /\ NeedsTwo(def)
             => prev.failures > 0
      BY <2>3, <3>2, <3>5, <3>6, Zenon
    <3>8. ~good
      BY <1>1, <2>5, Zenon
    <3> QED
      BY <2>1, <2>3, <3>2, <3>4, <3>7, <3>8, Zenon DEF new
  <2> QED
    BY <2>4, <2>5, Zenon
<1> QED
  BY <1>2, <1>3, Zenon

\* The record of a definition after a transaction.
LEMMA DefinitionRecords ==
    ASSUME TypeOK, NEW o \in Observation, Process(o), NEW k \in Keys, k[1] \in DefIds
    PROVE  states'[k] = IF k \in Touched(o) THEN Evaluate(Defs[k[1]], states[k], o) ELSE states[k]
<1>1. PICK first : ApplyUpdates(o, [x \in Touched(o) |-> NextRecord(x, o, first)])
  BY Zenon DEF Process
<1>2. states' = [x \in Keys |-> IF x \in Touched(o)
                                THEN [y \in Touched(o) |-> NextRecord(y, o, first)][x] ELSE states[x]]
  BY <1>1, Zenon DEF ApplyUpdates
<1>3. states'[k] = IF k \in Touched(o) THEN NextRecord(k, o, first) ELSE states[k]
  BY <1>2, Zenon
<1> QED
  BY <1>3, Zenon DEF NextRecord

LEMMA HeardStep == IInv /\ StampedInv /\ HeardInv /\ [Next]_vars => HeardInv'
<1> SUFFICES ASSUME IInv, StampedInv, HeardInv, [Next]_vars, NEW k \in Keys, IsBoolean(k)
             PROVE  Hears(k, states'[k], stored')
  BY Zenon DEF HeardInv, IsBoolean, Hears, Judges, Good, Touched
<1>1. Hears(k, states[k], stored)
  BY Zenon DEF HeardInv
<1>2. CASE UNCHANGED <<stored, states, transitions, events, alerts, outbox, lastSeen>>
  BY <1>1, <1>2, Zenon
<1>3. ASSUME NEW o \in Observation, Process(o) PROVE Hears(k, states'[k], stored')
  <2> DEFINE old == states[k]
             rec == states'[k]
  <2>1. /\ k[1] \in DefIds /\ Defs[k[1]] \in Definition /\ Defs[k[1]].kind = "good_when"
    BY StageBAssumption, Zenon DEF IsBoolean
  <2>2. stored' = stored \cup {o}
    BY <1>3, Zenon DEF Process
  <2>3. old \in Record /\ o.at \in Nat /\ o.value \in Values /\ TypeOK
    BY Zenon DEF IInv, TypeOK, Observation
  <2>4. old.lastObservedAt \in Nat /\ \A x \in stored : x.at \in Nat
    <3>1. stored \subseteq Observation
      BY Zenon DEF IInv, TypeOK
    <3>2. \A x \in stored : x.at \in Nat
      BY <3>1, Zenon DEF Observation
    <3> QED
      BY <2>3, <3>2, Zenon DEF Record, Times
  <2>5. rec = IF k \in Touched(o) THEN Evaluate(Defs[k[1]], old, o) ELSE old
    BY <1>3, <2>1, <2>3, DefinitionRecords, Zenon
  <2>6. CASE k \notin Touched(o)
    <3>1. ~Judges(k, o) /\ rec = old
      BY <2>5, <2>6, Zenon DEF Judges
    <3> QED
      BY <1>1, <2>2, <3>1, Zenon DEF Hears
  <2>7. CASE k \in Touched(o)
    <3> DEFINE new == Evaluate(Defs[k[1]], old, o)
    <3>a. \/ new = old /\ (Outdated(old, o.at) \/ o.value.type # "bool")
          \/ /\ ~Outdated(old, o.at) /\ o.value.type = "bool"
             /\ new.state \in HealthStates /\ new.lastObservedAt = o.at
             /\ Good(k, o) => new.failures = 0
      <4> HIDE DEF old
      <4> QED
        BY <2>1, <2>3, BooleanVerdict DEF Good
    <3>1. \/ rec = old /\ (Outdated(old, o.at) \/ o.value.type # "bool")
          \/ /\ ~Outdated(old, o.at) /\ o.value.type = "bool"
             /\ rec.state \in HealthStates /\ rec.lastObservedAt = o.at
             /\ Good(k, o) => rec.failures = 0
      BY <2>5, <2>7, <3>a, Zenon
    <3>2. CASE rec = old /\ (Outdated(old, o.at) \/ o.value.type # "bool")
      <4>1. Judges(k, o) => old.state # "NONE" /\ o.at <= old.lastObservedAt
        BY <3>2, Zenon DEF Judges, Outdated
      <4> QED
        BY <1>1, <2>2, <3>2, <4>1, Zenon DEF Hears
    <3>3. CASE /\ ~Outdated(old, o.at) /\ o.value.type = "bool"
               /\ rec.state \in HealthStates /\ rec.lastObservedAt = o.at
               /\ Good(k, o) => rec.failures = 0
      <4>1. rec.state # "NONE"
        BY <3>3 DEF HealthStates
      <4>2. ASSUME NEW x \in stored, Judges(k, x) PROVE x.at <= o.at
        <5>1. old.state # "NONE" /\ x.at <= old.lastObservedAt
          BY <1>1, <4>2, Zenon DEF Hears
        <5>2. ~(o.at <= old.lastObservedAt)
          BY <3>3, <5>1, Zenon DEF Outdated
        <5> QED
          BY <2>3, <2>4, <5>1, <5>2
      <4>3. o.at <= o.at
        BY <2>3
      <4>4. Judges(k, o) /\ o \in stored'
        BY <2>2, <2>7, <3>3, Zenon DEF Judges
      <4>5. rec.failures > 0 => ~Good(k, o)
        BY <3>3
      <4> QED
        BY <2>2, <3>3, <4>1, <4>2, <4>3, <4>4, <4>5, Zenon DEF Hears
    <3> QED
      BY <3>1, <3>2, <3>3, Zenon
  <2> QED
    BY <2>6, <2>7, Zenon
<1> QED
  BY <1>2, <1>3, StepSource, Zenon

LEMMA InitHeard == Init => StampedInv /\ HeardInv
<1> SUFFICES ASSUME Init PROVE StampedInv /\ HeardInv
  BY Zenon
<1>1. published = {} /\ stored = {} /\ \A p \in Processors : sweeping[p] = {}
  BY Zenon DEF Init
<1>2. \A k \in Keys : ~(states[k].failures > 0)
  BY DEF Init, NoRecord
<1> QED
  BY <1>1, <1>2, Zenon DEF StampedInv, Stamped, HeardInv, Hears

\* If every boolean definition needs two failures, a sweep never raises an
\* alert over a good sample of the last sweep interval after which the device
\* reported no failure, however old its snapshot is and whatever other
\* processors do (Sweep, StaleSamples).  With fail_after 1 it can.
THEOREM SweepsRespectSigns ==
    ASSUME \A d \in DefIds : Defs[d].kind = "good_when" => NeedsTwo(Defs[d])
    PROVE  Spec => SilenceAlertNeedsSilence
<1> DEFINE A == \A e \in events' \ events :
                  e.kind = "alert" /\ e.obs.source = "sweeper" /\ e.key[1] \in DefIds =>
                    \A o \in stored :
                      Heard(e.key, o, TRUE) /\ o.at > e.obs.at - SweepInterval =>
                        \E b \in stored : Heard(e.key, b, FALSE) /\ b.at >= o.at
<1>1. ASSUME IInv, StampedInv, HeardInv, [Next]_vars PROVE A
  <2> SUFFICES ASSUME NEW e \in events' \ events, e.kind = "alert", e.obs.source = "sweeper",
                      e.key[1] \in DefIds, NEW g \in stored, Heard(e.key, g, TRUE),
                      g.at > e.obs.at - SweepInterval
               PROVE  \E b \in stored : Heard(e.key, b, FALSE) /\ b.at >= g.at
    BY Zenon
  <2>1. PICK o \in Observation : Process(o) /\ (o.source = "sweeper" => Synthetic(o))
    BY <1>1, StepSource, Zenon
  <2>2. PICK recs, evs : Effects(o, recs, evs)
    BY <1>1, <2>1, ProcessEffects, Zenon
  <2> DEFINE k == e.key
             d == Defs[k[1]]
             old == states[k]
             rec == states'[k]
  <2>3. e \in evs
    BY <2>2, Zenon DEF Effects, RecordEvents
  <2>4. k \in Touched(o) /\ e.obs = o /\ k \in Keys /\ e = Event(k, "alert", o)
    BY <2>2, <2>3, Zenon DEF Effects
  <2>5. old.state \notin OutageStates /\ rec.state \in OutageStates
    <3>1. states'[k] = recs[k]
      BY <2>2, <2>4, Zenon DEF Effects
    <3> QED
      BY <2>2, <2>3, <2>4, <3>1, Zenon DEF Effects
  <2>6. Synthetic(o)
    BY <2>1, <2>4, Zenon
  <2>7. d \in Definition /\ old \in Record /\ o.at \in Nat /\ o.value \in Values /\ TypeOK
        /\ g.at \in Nat
    <3>1. g \in Observation
      BY <1>1, Zenon DEF IInv, TypeOK
    <3> QED
      BY <1>1, <2>4, <3>1, StageBAssumption, Zenon DEF IInv, TypeOK, Observation
  <2>8. rec = Evaluate(d, old, o)
    BY <2>1, <2>4, <2>7, DefinitionRecords, Zenon
  <2>9. d.kind = "good_when"
    <3> SUFFICES ASSUME d.kind # "good_when" PROVE FALSE
      BY Zenon
    <3>1. ~Judgeable(d, o.value)
      BY <2>6 DEF Judgeable, Synthetic
    <3>2. rec = old
      BY <2>8, <3>1, Zenon DEF Evaluate, Ignored
    <3> QED
      BY <2>5, <3>2, Zenon
  <2>10. NeedsTwo(d)
    BY <2>9, Zenon
  <2>11. ~Outdated(old, o.at) /\ old.failures > 0
    <3> HIDE DEF d, old, rec
    <3>1. rec # old
      BY <2>5, Zenon
    <3> QED
      BY <2>5, <2>7, <2>8, <2>9, <2>10, <3>1, BooleanVerdict, Zenon
  <2>12. Hears(k, old, stored)
    BY <1>1, <2>4, <2>9, Zenon DEF HeardInv, IsBoolean
  <2>13. PICK b \in stored : Judges(k, b) /\ ~Good(k, b) /\ b.at = old.lastObservedAt
    BY <2>11, <2>12, Zenon DEF Hears
  <2>14. Judges(k, g)
    BY Zenon DEF Heard, Judges
  <2>15. old.state # "NONE" /\ g.at <= b.at
    BY <2>12, <2>13, <2>14, Zenon DEF Hears
  <2>16. ~(o.at <= b.at)
    BY <2>11, <2>13, <2>15, Zenon DEF Outdated
  <2>17. b \in Observation
    BY <1>1, Zenon DEF IInv, TypeOK
  <2>18. b.at \in Nat /\ b.source \in {"snmp", "sweeper"}
    BY <2>17, Zenon DEF Observation
  <2>19. b.source = "snmp"
    <3> SUFFICES ASSUME b.source = "sweeper" PROVE FALSE
      BY <2>18, Zenon
    <3>1. Synthetic(b)
      BY <1>1, Zenon DEF StampedInv, Stamped
    <3>2. b.at \in Buckets /\ o.at \in Buckets /\ b.at < o.at
      BY <2>6, <2>7, <2>16, <2>18, <3>1 DEF Synthetic
    <3>3. b.at <= o.at - SweepInterval
      BY <3>2, BucketsApart, Zenon
    <3>4. g.at > o.at - SweepInterval /\ SweepInterval \in Nat
      BY <2>4, StageBAssumption, Zenon
    <3> QED
      BY <2>7, <2>15, <2>18, <3>3, <3>4
  <2>20. Heard(k, b, FALSE)
    BY <2>13, <2>19, Zenon DEF Heard, Judges, Good
  <2>21. b.at >= g.at
    BY <2>7, <2>15, <2>18
  <2> QED
    BY <2>20, <2>21, Zenon
<1>2. IInv /\ StampedInv /\ HeardInv /\ [Next]_vars => [A]_vars
  BY <1>1, Zenon
<1> HIDE DEF A
<1>3. Spec => [][A]_vars
  BY <1>2, InitIInv, NextIInv, InitHeard, StampedStep, HeardStep, PTL DEF Spec
<1> QED
  BY <1>3 DEF SilenceAlertNeedsSilence, A
=============================================================================

--------------------------- MODULE HealthMachine ---------------------------
(***************************************************************************)
(* The state engine (internal/state): a pure function from the previous    *)
(* record of an entity and one sample to the next record, the transition   *)
(* and the event it produces.  No variables: the modules that own records  *)
(* (HealthRun, StageB) apply these operators.                              *)
(*                                                                         *)
(* Times are natural numbers; ZeroTime is Go's zero time.Time, which is    *)
(* before every observation.  A value is [type, num]: booleans are 0 / 1,  *)
(* as InsertObservation stores them; a text value has no number.           *)
(***************************************************************************)
EXTENDS Integers

ZeroTime == 0
Times == Nat

HealthStates == {"UP", "SUSPECT", "DOWN", "RECOVERING"}

Values == [type : {"bool", "num", "text"}, num : Int]
BoolValue(b) == [type |-> "bool", num |-> IF b THEN 1 ELSE 0]
NumValue(n)  == [type |-> "num", num |-> n]
TextValue    == [type |-> "text", num |-> 0]

\* kind "good_when" judges a boolean against `equals`; "above" is
\* breach_above + clear_below, "below" is breach_below + clear_above.
Definition ==
    [ metric : STRING, keyed : BOOLEAN,
      kind : {"good_when", "above", "below"},
      equals : BOOLEAN, breach : Int, clear : Int,
      failAfter : Nat, failFor : Nat, recoverAfter : Nat, recoverFor : Nat,
      stale : BOOLEAN ]

\* What Definition.validate lets through.
ValidDefinition(def) ==
    /\ def.failAfter >= 1 /\ def.recoverAfter >= 1
    /\ def.kind = "above" => def.clear <= def.breach
    /\ def.kind = "below" => def.clear >= def.breach

\* A record exists (prev # nil in the code) iff its state is not "NONE".
Record ==
    [ state : HealthStates \cup {"NONE"}, failures : Nat, successes : Nat,
      breached : BOOLEAN, badSince : Times, goodSince : Times,
      lastObservedAt : Times, lastSeenAt : Times ]

NoRecord ==
    [ state |-> "NONE", failures |-> 0, successes |-> 0, breached |-> FALSE,
      badSince |-> ZeroTime, goodSince |-> ZeroTime,
      lastObservedAt |-> ZeroTime, lastSeenAt |-> ZeroTime ]

-----------------------------------------------------------------------------
\* The hysteresis memory after a numeric sample: a breached metric stays
\* breached until the value crosses the clear line.
Breached(def, was, num) ==
    IF def.kind = "above"
    THEN IF was THEN ~(num < def.clear) ELSE num > def.breach
    ELSE IF was THEN ~(num > def.clear) ELSE num < def.breach

Judgeable(def, val) ==
    val.type = IF def.kind = "good_when" THEN "bool" ELSE "num"

\* judge: the sample's verdict and the hysteresis bit it leaves behind.
Judge(def, rec, val) ==
    IF def.kind = "good_when"
    THEN [good |-> (val.num = 1) = def.equals, breached |-> rec.breached]
    ELSE LET b == Breached(def, rec.breached, val.num)
         IN  [good |-> ~b, breached |-> b]

-----------------------------------------------------------------------------
(* step: a first sample is judged as if the entity had been UP.            *)

GoodStep(def, rec, at) ==
    LET base  == [rec EXCEPT !.failures = 0, !.badSince = ZeroTime]
        since == IF rec.successes = 0 THEN at ELSE rec.goodSince
    IN  CASE rec.state \in {"NONE", "UP", "SUSPECT"} ->
               [base EXCEPT !.state = "UP"]
          [] /\ rec.state \in {"DOWN", "RECOVERING"}
             /\ rec.successes + 1 >= def.recoverAfter
             /\ at - since >= def.recoverFor ->
               [base EXCEPT !.state = "UP", !.successes = 0, !.goodSince = ZeroTime]
          [] OTHER ->
               [base EXCEPT !.state = "RECOVERING",
                            !.successes = rec.successes + 1, !.goodSince = since]

BadStep(def, rec, at) ==
    LET since == IF rec.failures = 0 THEN at ELSE rec.badSince
        next  == [rec EXCEPT !.successes = 0, !.goodSince = ZeroTime,
                             !.failures = rec.failures + 1, !.badSince = since]
    IN  IF \/ rec.state \in {"DOWN", "RECOVERING"}
           \/ rec.failures + 1 >= def.failAfter /\ at - since >= def.failFor
        THEN [next EXCEPT !.state = "DOWN"]
        ELSE [next EXCEPT !.state = "SUSPECT"]

\* Mutants: a good sample decrements the failure streak instead of clearing
\* it, or leaves it alone; a bad sample leaves the recovery streak alone.
StepDecaying(def, rec, good, at) ==
    IF good THEN [GoodStep(def, rec, at) EXCEPT !.failures = rec.failures - 1]
            ELSE BadStep(def, rec, at)
StepKeepingStreak(def, rec, good, at) ==
    IF good THEN GoodStep(def, rec, at)
            ELSE [BadStep(def, rec, at) EXCEPT !.successes = rec.successes,
                                               !.goodSince = rec.goodSince]

StepKeepingFailures(def, rec, good, at) ==
    IF good THEN [GoodStep(def, rec, at) EXCEPT !.failures = rec.failures]
            ELSE BadStep(def, rec, at)

Step(def, rec, good, at) ==
    IF good THEN GoodStep(def, rec, at) ELSE BadStep(def, rec, at)

-----------------------------------------------------------------------------
EventForEveryDown(from, to) ==   \* mutant: falling back to DOWN alerts again
    CASE to = "DOWN" /\ from # "DOWN"                -> "alert"
      [] to = "UP" /\ from \in {"RECOVERING", "DOWN"} -> "recovery"
      [] OTHER -> "none"
EventForRecovering(from, to) ==  \* mutant: a one-sample recovery is not reported
    CASE to = "DOWN" /\ from \notin {"RECOVERING", "DOWN"} -> "alert"
      [] to = "UP" /\ from = "RECOVERING"                  -> "recovery"
      [] OTHER -> "none"

\* Only entering DOWN from outside an outage alerts, and only leaving the
\* outage recovers: SUSPECT, and RECOVERING falling back, are silent.
EventFor(from, to) ==
    CASE to = "DOWN" /\ from \notin {"RECOVERING", "DOWN"} -> "alert"
      [] to = "UP" /\ from \in {"RECOVERING", "DOWN"}      -> "recovery"
      [] OTHER -> "none"

OutdatedStrictly(prev, at) ==    \* mutant: equal timestamps are applied
    prev.state # "NONE" /\ at < prev.lastObservedAt
OutdatedNever(prev, at) ==       \* mutant: no ordering guard
    FALSE

\* The duplicate check and the ordering check of Evaluate coincide here: the
\* last applied observation has the last applied timestamp.
Outdated(prev, at) == prev.state # "NONE" /\ at <= prev.lastObservedAt

Ignored(def, prev, o) == Outdated(prev, o.at) \/ ~Judgeable(def, o.value)

\* Evaluate for a sample that is not ignored.  A synthetic sample does not
\* move lastSeenAt, which drives stale-data detection.
Applied(def, prev, o) ==
    LET j   == Judge(def, prev, o.value)
        rec == [prev EXCEPT !.breached = j.breached,
                            !.lastObservedAt = o.at,
                            !.lastSeenAt = IF o.source = "sweeper" THEN @ ELSE o.at]
    IN  Step(def, rec, j.good, o.at)

Evaluate(def, prev, o) ==
    IF Ignored(def, prev, o) THEN prev ELSE Applied(def, prev, o)

\* What an open outage looks like in a record.
OutageStates == {"DOWN", "RECOVERING"}
=============================================================================

----------------------------- MODULE HealthRun -----------------------------
(***************************************************************************)
(* One entity of the state engine fed an arbitrary stream of samples, late *)
(* and duplicate ones included.  `hist` is the stream of samples that were *)
(* applied; the properties say what the incremental machine (counters,     *)
(* debounce timestamps, hysteresis bit) computes as a declarative function *)
(* of that whole stream.                                                   *)
(***************************************************************************)
EXTENDS HealthMachine, Sequences

CONSTANTS Definitions,   \* the definitions a run may use
          Readings,      \* the values a sample may carry
          MaxTime        \* bound: observation timestamps are 1..MaxTime

ASSUME HealthRunAssumption ==
    /\ Definitions \subseteq Definition
    /\ \A d \in Definitions : ValidDefinition(d)
    /\ Readings \subseteq Values
    /\ MaxTime \in Nat

VARIABLES def,    \* the definition, fixed for a run
          rec,    \* the entity's StateRecord
          hist    \* history: the applied samples, oldest first

vars == <<def, rec, hist>>

Sample == [value : Readings, at : 1..MaxTime, source : {"snmp"}]

Init == /\ def \in Definitions
        /\ rec = NoRecord
        /\ hist = <<>>

Feed(o) == /\ rec' = Evaluate(def, rec, o)
           /\ hist' = IF Ignored(def, rec, o) THEN hist ELSE Append(hist, o)
           /\ UNCHANGED def

Next == \E o \in Sample : Feed(o)

Spec == Init /\ [][Next]_vars

TypeOK == /\ def \in Definitions
          /\ rec \in Record
          /\ hist \in Seq(Sample)

-----------------------------------------------------------------------------
(* Reference definitions: what definition d makes of a whole history h.    *)

Crosses(d, v) == CASE d.kind = "good_when" -> (v.num = 1) # d.equals
                   [] d.kind = "above"     -> v.num > d.breach
                   [] OTHER                -> v.num < d.breach
Clears(d, v)  == CASE d.kind = "good_when" -> (v.num = 1) = d.equals
                   [] d.kind = "above"     -> v.num < d.clear
                   [] OTHER                -> v.num > d.clear

\* Sample i is bad: some sample crossed the breach line and none since then
\* crossed the clear line.
BadAt(d, h, i) == \E k \in 1..i : /\ Crosses(d, h[k].value)
                                  /\ \A j \in (k + 1)..i : ~Clears(d, h[j].value)

\* At sample i a run of bad (good) samples is long enough, in number and in
\* time, to open (to close) an outage.
FailureConfirmed(d, h, i) ==
    \E s \in 1..i : /\ \A k \in s..i : BadAt(d, h, k)
                    /\ i - s + 1 >= d.failAfter
                    /\ h[i].at - h[s].at >= d.failFor
RecoveryConfirmed(d, h, i) ==
    \E s \in 1..i : /\ \A k \in s..i : ~BadAt(d, h, k)
                    /\ i - s + 1 >= d.recoverAfter
                    /\ h[i].at - h[s].at >= d.recoverFor

\* An outage was confirmed and no recovery has been confirmed since.
InOutage(d, h) == \E i \in 1..Len(h) : /\ FailureConfirmed(d, h, i)
                                       /\ \A j \in (i + 1)..Len(h) : ~RecoveryConfirmed(d, h, j)

\* The machine's four states are exactly what the applied history means: DOWN
\* or RECOVERING iff a confirmed failure has not been followed by a confirmed
\* recovery, and within each pair the last sample decides (state/engine.go
\* step, judge).  A counter that is not reset, a debounce timestamp that
\* survives a good sample or a lost hysteresis bit breaks it.
StateMatchesHistory ==
    LET n == Len(hist)
    IN  IF n = 0 THEN rec.state = "NONE"
        ELSE rec.state = CASE InOutage(def, hist) /\ BadAt(def, hist, n)  -> "DOWN"
                           [] InOutage(def, hist) /\ ~BadAt(def, hist, n) -> "RECOVERING"
                           [] ~InOutage(def, hist) /\ BadAt(def, hist, n) -> "SUSPECT"
                           [] OTHER                                       -> "UP"

\* However samples are reordered or repeated, those that are applied are in
\* strictly increasing time order, and the record carries the newest of them
\* (the ordering guard of Evaluate).
AppliedInOrder ==
    /\ \A i, j \in 1..Len(hist) : i < j => hist[i].at < hist[j].at
    /\ hist # <<>> => /\ rec.lastObservedAt = hist[Len(hist)].at
                      /\ rec.lastSeenAt = hist[Len(hist)].at

\* An alert event is emitted exactly when an outage begins and a recovery
\* event exactly when it ends (eventFor): never twice in a row, and never for
\* a bounce between DOWN and RECOVERING.
EdgeStep ==
    LET e == EventFor(rec.state, rec'.state)
    IN  /\ (e = "alert")    <=> ~InOutage(def, hist) /\ InOutage(def, hist')
        /\ (e = "recovery") <=> InOutage(def, hist) /\ ~InOutage(def, hist')
EventsOnOutageEdgesOnly == [][EdgeStep]_vars
=============================================================================

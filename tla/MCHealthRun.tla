---------------------------- MODULE MCHealthRun ----------------------------
(* A boolean definition, and both directions of a numeric threshold.       *)
EXTENDS HealthRun

MCDefinition(kind, equals, breach, clear, fa, ff, ra, rf) ==
    [ metric |-> "m", keyed |-> TRUE, kind |-> kind, equals |-> equals,
      breach |-> breach, clear |-> clear,
      failAfter |-> fa, failFor |-> ff, recoverAfter |-> ra, recoverFor |-> rf,
      stale |-> FALSE ]

MCDefinitions ==
    { MCDefinition("good_when", TRUE, 0, 0, 3, 0, 2, 0),   \* device-reachability
      MCDefinition("good_when", FALSE, 0, 0, 1, 2, 1, 2),  \* time debounce only
      MCDefinition("above", TRUE, 2, 1, 2, 2, 2, 0),
      MCDefinition("below", TRUE, 0, 1, 1, 0, 2, 3) }

MCReadings == { BoolValue(TRUE), BoolValue(FALSE), TextValue }
              \cup { NumValue(n) : n \in 0..3 }
=============================================================================

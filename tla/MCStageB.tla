------------------------------ MODULE MCStageB ------------------------------
EXTENDS StageB

CONSTANTS sw1, port1, none

MCDef(metric, keyed, fa, ra, stale) ==
    [ metric |-> metric, keyed |-> keyed, kind |-> "good_when", equals |-> TRUE,
      breach |-> 0, clear |-> 0, failAfter |-> fa, failFor |-> 0,
      recoverAfter |-> ra, recoverFor |-> 0, stale |-> stale ]

\* One reachability definition, swept for staleness.
SweptDefs == [reach |-> MCDef("up", FALSE, 2, 1, TRUE)]
\* The same with fail_after 1: one sample is enough to alert.
EagerDefs == [reach |-> MCDef("up", FALSE, 1, 1, TRUE)]
NoRules   == [r \in {} |-> r]

\* One machine per series next to a device-wide one fed by every series of the
\* device, so that samples of equal time meet in one record; a flapping and an
\* aggregate rule on the same metric.  One definition is for other devices.
MixedDefs  == [port |-> MCDef("up", TRUE, 1, 2, FALSE), any |-> MCDef("up", FALSE, 2, 1, FALSE),
               other |-> MCDef("up", FALSE, 1, 1, FALSE)]
MixedRules == [flap |-> [ metric |-> "up", kind |-> "transitions", window |-> 3,
                          count |-> 2, above |-> TRUE, limit |-> 0 ],
               low  |-> [ metric |-> "up", kind |-> "average", window |-> 2,
                          count |-> 2, above |-> FALSE, limit |-> 1 ]]

AllButOther == [id \in DefIds \cup RuleIds |-> IF id = "other" THEN {} ELSE Devices]

Booleans == {BoolValue(TRUE), BoolValue(FALSE)}
=============================================================================

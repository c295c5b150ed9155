----------------------------- MODULE MCDelivery -----------------------------
EXTENDS Delivery

CONSTANTS w1, w2

\* Two messages of one device and one of another.
MCKey       == [a1 |-> "a", a2 |-> "a", b1 |-> "b"]
MCShardOf   == [a |-> 0, b |-> 1]
AnyOutcome  == [p \in {"a1", "a2", "b1"} |-> {"ok", "transient", "permanent"}]
\* One message may fail in any way, the other never does; it waits, is
\* delivered again and may be lost with its worker.
OneFails    == [AnyOutcome EXCEPT !["a2"] = {"ok"}]
MayRecover  == [p \in {"a1", "a2", "b1"} |-> {"ok", "transient"}]
=============================================================================

----------------------------- MODULE MCCollector -----------------------------
EXTENDS Collector

\* Two devices compete for one worker or share two; a third is switched off.
MCList     == <<"d1", "d2", "off">>
MCInterval == [d1 |-> 2, d2 |-> 1, off |-> 1]
MCOffset   == [d1 |-> 1, d2 |-> 0, off |-> 0]
==============================================================================

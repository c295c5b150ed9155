---------------------------- MODULE MCAutomation ----------------------------
EXTENDS Automation

CONSTANTS w1, w2

\* Policies: "manual" has a delay and needs an approval; a script proposes for
\* "scripted", which cools down and has a retry limit.
All         == {"manual", "scripted"}
MCTrigger   == [p \in All |-> {"k1"}]
MCTarget    == [k1 |-> "t"]
MCProposals == [p \in All |-> IF p = "scripted"
                              THEN {"accepted", "rejected", "nothing", "unavailable"}
                              ELSE {"accepted"}]
MCDuration  == [p \in All |-> IF p = "manual" THEN 1 ELSE 0]
MCCooldown  == [p \in All |-> IF p = "scripted" THEN 1 ELSE 0]
MCRetries   == [p \in All |-> IF p = "scripted" THEN 1 ELSE 0]
MCApproval  == [p \in All |-> p = "manual"]
MCTimeout   == [p \in All |-> 2]
=============================================================================

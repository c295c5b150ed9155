--------------------------- MODULE AlertLifecycle ---------------------------
(***************************************************************************)
(* What stage B promises to the readers of the alert stream: per alert key *)
(* an alert is raised, then cleared, then raised again, each change is     *)
(* announced by exactly one new event, and nothing else is announced.      *)
(***************************************************************************)
CONSTANT Keys

VARIABLES firing,     \* [Keys -> the event that raised the alert, or none]: a set
          announced   \* the alert events announced so far

vars == <<firing, announced>>

Init == /\ firing = [k \in Keys |-> {}]
        /\ announced = {}

New == announced' \ announced

\* Event e raises the alert of a quiet key, or clears that of a firing one.
Legal(e) == IF e.kind = "alert" THEN firing[e.key] = {} ELSE firing[e.key] # {}

\* One transaction may change several keys, each at most once.
Change ==
    /\ announced \subseteq announced'
    /\ \A e \in New : e.key \in Keys /\ Legal(e)
    /\ \A e, f \in New : e.key = f.key => e = f
    /\ firing' = [k \in Keys |->
                    IF \E e \in New : e.key = k
                    THEN { e \in New : e.key = k /\ e.kind = "alert" }
                    ELSE firing[k]]

Spec == Init /\ [][Change]_vars
=============================================================================

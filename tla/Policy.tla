------------------------------- MODULE Policy -------------------------------
(***************************************************************************)
(* The automation policy file (internal/automation/policy.go): defaults,   *)
(* validation, the match of events with policies, allowlists and           *)
(* maintenance windows.                                                    *)
(*                                                                         *)
(* A time is a number of ticks since a Sunday midnight UTC.  A day has Day *)
(* ticks; the code never uses that there are 1440 minutes in one.  A time  *)
(* zone gives every instant its offset, which may change with the season.  *)
(* What a policy says about time otherwise (duration, cooldown, approval)  *)
(* is Automation's.                                                        *)
(***************************************************************************)
EXTENDS Catalog

CONSTANTS
    Day,          \* ticks of a day
    DefaultTag    \* DefaultRequireTag

ASSUME PolicyAssumption == Day \in Nat \ {0} /\ DefaultTag # ""

Unset      == -1                       \* a zero time.Time
NoSchedule == [days |-> {}, start |-> 0, end |-> 0, zone |-> <<>>]
Weekdays   == 0..6

-----------------------------------------------------------------------------
(* Maintenance windows.                                                    *)

HasBounds(w) == w.from # Unset \/ w.until # Unset

\* validateWindow: exactly one of from/until and recurring, readable times.
ValidWindow(w) ==
    /\ w.id # ""
    /\ HasBounds(w) # (w.recurring # NoSchedule)
    /\ w.recurring # NoSchedule => /\ w.recurring.start \in 0..(Day - 1)
                                   /\ w.recurring.end \in 0..(Day - 1)
                                   /\ w.recurring.days \subseteq Weekdays

\* covers: no criterion covers everything, otherwise any one of them is enough.
Covers(w, dev) ==
    \/ w.devices = {} /\ w.site = "" /\ w.tags = {}
    \/ dev.id \in w.devices
    \/ w.site # "" /\ w.site = dev.site
    \/ w.tags \cap dev.tags # {}

OnDay(r, d) == r.days = {} \/ d \in r.days

\* now.In(loc): what the clocks of the zone show, as ticks.
WallClock(r, now) == now + r.zone[now]

\* Mutated: what is left of a window after midnight goes by the current day.
RecurringToday(r, now) ==
    LET local == WallClock(r, now)
        day   == (local \div Day) % 7
        cur   == local % Day
    IN  OnDay(r, day) /\ IF r.start <= r.end THEN r.start <= cur /\ cur < r.end
                         ELSE cur >= r.start \/ cur < r.end

\* The recurring half of Active: a window that crosses midnight belongs to the
\* day it started on.
Recurring(r, now) ==
    LET local == WallClock(r, now)
        day   == (local \div Day) % 7
        cur   == local % Day
    IN  IF r.start <= r.end THEN OnDay(r, day) /\ r.start <= cur /\ cur < r.end
        ELSE \/ cur >= r.start /\ OnDay(r, day)
             \/ cur < r.end /\ OnDay(r, (day + 6) % 7)

Active(w, now, dev) ==
    /\ Covers(w, dev)
    /\ IF HasBounds(w)
       THEN (w.from # Unset => now >= w.from) /\ (w.until # Unset => now < w.until)
       ELSE w.recurring # NoSchedule /\ Recurring(w.recurring, now)

InMaintenance(file, now, dev) == \E w \in file.windows : Active(w, now, dev)

-----------------------------------------------------------------------------
(* Policies.                                                               *)

\* Parse: what a policy that leaves settings out gets, and dryRun.
WithDefaults(p) ==
    [p EXCEPT !.requireTag = IF @ = "" THEN DefaultTag ELSE @]

\* Mutated: a policy that does not say is live.
DryRunIfSet(p) == p.dryRun = "true"
DryRun(p)      == p.dryRun # "false"

\* validatePolicy: exactly one source of actions, from the catalog; an action
\* without templates is checked at once, and what a script may propose has a
\* bound.
ValidPolicy(p) ==
    /\ p.id # "" /\ p.event # "" /\ p.deviceTypes \subseteq Types
    /\ (p.action = "") # (p.script = "")
    /\ p.action # "" =>
           /\ p.action \in DOMAIN Actions
           /\ p.target # Template =>
                  ValidShape(Actions[p.action], [target |-> p.target, params |-> p.params, longReason |-> FALSE])
    /\ p.script # "" => p.allowed # {} /\ p.allowed \subseteq DOMAIN Actions

\* Parse: a file is accepted as a whole or not at all.
ValidFile(file) ==
    /\ \A w \in file.windows : ValidWindow(w)
    /\ \A p \in file.policies : ValidPolicy(p)
    /\ \A p, q \in file.policies : p.id = q.id => p = q

SeverityRank == [info |-> 1, warning |-> 2, critical |-> 3]

\* Match: every criterion that is set has to hold, and every tag.
Matches(p, ev, dev) ==
    /\ p.event = ev.type
    /\ p.deviceTypes = {} \/ dev.type \in p.deviceTypes
    /\ p.site \in {"", dev.site}
    /\ p.minSeverity # "" => SeverityRank[ev.severity] >= SeverityRank[p.minSeverity]
    /\ p.tags \subseteq dev.tags

Match(file, ev, dev) == { WithDefaults(p) : p \in { q \in file.policies : Matches(q, ev, dev) } }

Allowlisted(file, id)      == id \in file.allowlist
ExtensionApproved(file, s) == s \in file.extensions
=============================================================================

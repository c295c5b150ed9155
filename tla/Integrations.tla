---------------------------- MODULE Integrations ----------------------------
(***************************************************************************)
(* Integration scripts: the delivery of one alert event to every script    *)
(* that wants it (automation/worker.go, scripting/proposer.go), what a     *)
(* script may ask of the host during its run (scripting/api), and what is  *)
(* recorded of it.                                                         *)
(*                                                                         *)
(* What a script does is an input: its calls of the host API, whether it   *)
(* catches the exception of each, and what it returns.  An attempt is one  *)
(* delivery of the message: engine says whether the policies could be      *)
(* evaluated, at and after where the platform gave up (before script at    *)
(* had made more than after calls; 0 is nowhere), up whether endpoints can *)
(* be reached, store which insertion fails (0 is none).                    *)
(***************************************************************************)
EXTENDS Integers, Sequences, SequencesExt, FiniteSets

CONSTANTS
    MaxEvents, MaxObservations, MaxHTTPCalls   \* budgets of one invocation

ASSUME IntegrationsAssumption ==
    MaxEvents \in Nat /\ MaxObservations \in Nat /\ MaxHTTPCalls \in Nat

Ranks  == [info |-> 1, warning |-> 2, critical |-> 3]
Budget == [emit |-> MaxEvents, metric |-> MaxObservations, http |-> MaxHTTPCalls]

-----------------------------------------------------------------------------
(* scripting/api                                                           *)

NewCall == [used |-> [emit |-> 0, metric |-> 0, http |-> 0], emitted |-> <<>>, sent |-> {}, thrown |-> FALSE]

\* An argument is malformed (not the expected shape), refused by one of the
\* checks, or good.
Asked(c, call)    == c.used[call.fn] < Budget[call.fn] /\ call.arg # "malformed"
Accepted(c, call) == Asked(c, call) /\ call.arg = "good"

\* Each throws what the script may catch.
Throw(c, call) == [c EXCEPT !.thrown = ~call.caught]
Spend(c, call) == [c EXCEPT !.used[call.fn] = @ + 1]

\* events.emit: the event is only noted.
EmitEvent(c, call) ==
    IF Accepted(c, call) THEN [Spend(c, call) EXCEPT !.emitted = Append(@, call.what)] ELSE Throw(c, call)

\* metrics.emit: nobody reads the observations of an integration.
EmitMetric(c, call) == IF Accepted(c, call) THEN Spend(c, call) ELSE Throw(c, call)

\* http.request: counts before it is checked, and leaves at once.
HttpRequest(c, call, up) ==
    LET spent == IF Asked(c, call) THEN Spend(c, call) ELSE c
        left  == IF Accepted(c, call) THEN [spent EXCEPT !.sent = @ \cup {call.what}] ELSE spent
    IN  IF Accepted(c, call) /\ up THEN left ELSE Throw(left, call)

HostCall(c, call, up) ==
    IF c.thrown THEN c
    ELSE CASE call.fn = "emit"   -> EmitEvent(c, call)
           [] call.fn = "metric" -> EmitMetric(c, call)
           [] call.fn = "http"   -> HttpRequest(c, call, up)

RunScript(does, up) == FoldLeft(LAMBDA c, call : HostCall(c, call, up), NewCall, does)

-----------------------------------------------------------------------------
(* scripting/proposer.go                                                   *)

\* The contract of handleEvent: {ok: boolean, message?: string}.
ReturnsResult(s) == s.returns \in {"ok", "not ok"}

\* Mutated: what the script asked for is kept when it broke its contract.
RunHandleKeeping(s, up, cut, after) ==
    LET c == RunScript(IF cut THEN SubSeq(s.does, 1, after) ELSE s.does, up)
    IN  [ err |-> IF cut THEN "platform" ELSE "", emitted |-> IF cut THEN <<>> ELSE c.emitted, sent |-> c.sent ]

\* RunHandle: emission is deferred until the script has met its contract.  A
\* script that stopped being active since it was listed is not run.
RunHandle(s, up, cut, after) ==
    LET c == RunScript(IF cut THEN SubSeq(s.does, 1, after) ELSE s.does, up)
    IN  IF ~s.active THEN [err |-> "script", emitted |-> <<>>, sent |-> {}]
        ELSE IF cut THEN [err |-> "platform", emitted |-> <<>>, sent |-> c.sent]
        ELSE IF c.thrown \/ ~ReturnsResult(s) THEN [err |-> "script", emitted |-> <<>>, sent |-> c.sent]
        ELSE [err |-> "", emitted |-> c.emitted, sent |-> c.sent]

\* Which scripts HandleEvent runs.
Interested(s, ev) ==
    /\ s.events = {} \/ ev.type \in s.events
    /\ s.minSeverity # "" => Ranks[ev.severity] >= Ranks[s.minSeverity]

\* One script of HandleEvent: its failure is left behind, the platform's ends
\* the loop.  The id of an emitted event names script, content and trigger.
VisitScript(acc, i, ev, scripts, a) ==
    LET s == scripts[i]
        r == RunHandle(s, a.up, a.at = i, a.after)
    IN  IF acc.err # "" \/ ~Interested(s, ev) THEN acc
        ELSE [ err     |-> IF r.err = "platform" THEN "platform" ELSE "",
               emitted |-> acc.emitted \o [k \in DOMAIN r.emitted |-> <<s.key, r.emitted[k], ev.id>>],
               sent    |-> acc.sent \cup { <<s.key, ev.id, q>> : q \in r.sent } ]

HandleEvent(ev, scripts, a) ==
    FoldLeft(LAMBDA acc, i : VisitScript(acc, i, ev, scripts, a),
             [err |-> "", emitted |-> <<>>, sent |-> {}], [i \in DOMAIN scripts |-> i])

\* PersistEvent, one transaction: an event that is there already is skipped.
PersistEvent(w, id) ==
    IF id \in w.events THEN w
    ELSE [w EXCEPT !.events = @ \cup {id}, !.outbox = Append(@, id)]

\* The loop over the emitted events; the one that cannot be stored ends it.
PersistAll(w, emitted, fails) ==
    FoldLeft(PersistEvent, w, IF fails \in DOMAIN emitted THEN SubSeq(emitted, 1, fails - 1) ELSE emitted)

\* IntegrationRunner.Run: nothing is stored before every script had its turn.
RunIntegrations(ev, scripts, a, w) ==
    LET h == HandleEvent(ev, scripts, a)
        v == [w EXCEPT !.sent = @ \cup h.sent]
    IN  IF h.err # "" THEN [err |-> h.err, world |-> v]
        ELSE [ err   |-> IF a.store \in DOMAIN h.emitted THEN "platform" ELSE "",
               world |-> PersistAll(v, h.emitted, a.store) ]

\* IntegrationRunner.Invoke, the action invoke_extension: a script that reports
\* failure has failed, but what it emitted stays.
Invoke(request, s, a, w) ==
    LET r   == RunHandle(s, a.up, a.at = 1, a.after)
        ids == [k \in DOMAIN r.emitted |-> <<s.key, r.emitted[k], request>>]
        v   == PersistAll([w EXCEPT !.sent = @ \cup { <<s.key, request, q>> : q \in r.sent }], ids, a.store)
    IN  [ err   |-> IF r.err # "" \/ a.store \in DOMAIN ids \/ s.returns # "ok" THEN "failed" ELSE "", world |-> v ]

-----------------------------------------------------------------------------
(* automation/worker.go                                                    *)

NewWorld == [events |-> {}, outbox |-> <<>>, sent |-> {}]

\* Worker.Handle: a message without its ids is poison; policies come first; an
\* event of a device that is not registered runs no integration.
HandleMessage(msg, scripts, a, w) ==
    IF ~msg.complete THEN [err |-> "poison", world |-> w]
    ELSE IF ~a.engine THEN [err |-> "platform", world |-> w]
    ELSE IF ~msg.deviceKnown THEN [err |-> "", world |-> w]
    ELSE RunIntegrations(msg.event, scripts, a, w)

\* The deliveries of one message, until one of them settles it.
DeliverOnce(acc, a, msg, scripts) ==
    LET r == HandleMessage(msg, scripts, a, acc.world)
    IN  IF acc.tries > 0 /\ acc.err # "platform" THEN acc
        ELSE [err |-> r.err, world |-> r.world, tries |-> acc.tries + 1]

DeliverMessage(msg, scripts, attempts) ==
    FoldLeft(LAMBDA acc, a : DeliverOnce(acc, a, msg, scripts),
             [err |-> "", world |-> NewWorld, tries |-> 0], attempts)
=============================================================================

------------------------------ MODULE Response ------------------------------
(***************************************************************************)
(* From an event to a changed device, for one request                      *)
(* (internal/automation/engine.go and adapters/): a request is recorded    *)
(* with one policy file and inventory, and processed later, possibly after *)
(* a restart with others.  The gates that depend on the history of         *)
(* requests (cooldown, retries, approval) are in Automation.               *)
(*                                                                         *)
(* What the world answers is an input: reads says whether the SNMP         *)
(* preflight works, replies how the calls of the action end: "ok",         *)
(* "refused" (nothing happened) or "lost" (it happened, the caller sees an *)
(* error).                                                                 *)
(***************************************************************************)
EXTENDS Policy, FiniteSetsExt

-----------------------------------------------------------------------------
(* Stage one: HandleEvent for one matching policy.                         *)

Propose(p, ev, scripted) ==
    IF p.action = "" THEN scripted
    ELSE [action |-> p.action, target |-> Expand(p.target, ev), params |-> p.params, longReason |-> FALSE]

CheckProposal(p, pr, dev) == (p.script # "" => pr.action \in p.allowed) /\ Validate(pr, dev)

\* The request's dry-run flag is decided here and only ever added to later.
Request(p, ev, dev, scripted, globalDry) ==
    LET pr == Propose(p, ev, scripted)
    IN  [ policy |-> p.id, proposal |-> pr, dryRun |-> globalDry \/ DryRun(p),
          status |-> IF CheckProposal(p, pr, dev) THEN "pending" ELSE "denied" ]

-----------------------------------------------------------------------------
(* Stage two: the gates of process, in the order of the code.              *)

Live(req, pol, globalDry) == ~(req.dryRun \/ globalDry \/ DryRun(pol))

Gate(name, open) == [gate |-> name, open |-> open]

\* The gates of a valid proposal.
Gates(req, pol, dev, file, w) ==
    LET pr   == req.proposal
        spec == Actions[pr.action]
    IN  << Gate("policy", pol.script # "" => pr.action \in pol.allowed),
           Gate("extension", pr.action = "invoke_extension" => ExtensionApproved(file, pr.params.script)),
           Gate("tag", pol.requireTag \in dev.tags),
           Gate("capability", spec.capability # "" => spec.capability \in dev.capabilities),
           Gate("allowlist", Live(req, pol, w.globalDry) /\ spec.disruptive => Allowlisted(file, dev.id)),
           Gate("maintenance", ~InMaintenance(file, w.now, dev)) >>

\* The name of the gate that refuses, or "open".
Verdict(req, dev, file, w) ==
    LET found == { p \in file.policies : p.id = req.policy }
        pol   == WithDefaults(CHOOSE p \in found : TRUE)
        gates == Gates(req, pol, dev, file, w)
        shut  == { i \in DOMAIN gates : ~gates[i].open }
    IN  IF found = {} THEN "policy"
        ELSE IF ~dev.enabled THEN "device"
        ELSE IF ~w.firing THEN "alert"
        ELSE IF ~Validate(req.proposal, dev) THEN "validation"
        ELSE IF shut # {} THEN gates[Min(shut)].gate
        ELSE "open"

-----------------------------------------------------------------------------
(* The adapters.                                                           *)

ActionFailed == [error |-> TRUE, changed |-> FALSE, did |-> <<>>]
Unchanged    == [error |-> FALSE, changed |-> FALSE, did |-> <<>>]

\* Mutated: the error of the first of two calls is overwritten by the second.
PerformAll(calls, replies) ==
    [ error |-> replies[Len(calls)] # "ok", changed |-> replies[Len(calls)] = "ok",
      did |-> SelectSeq(calls, LAMBDA c : \E i \in DOMAIN calls : calls[i] = c /\ replies[i] # "refused") ]

\* Calls of the controller one after the other, until one fails.
Perform(calls, replies) ==
    LET bad == { i \in DOMAIN calls : replies[i] # "ok" }
        n   == IF bad = {} THEN Len(calls)
               ELSE IF replies[Min(bad)] = "lost" THEN Min(bad) ELSE Min(bad) - 1
    IN  [error |-> bad # {}, changed |-> bad = {}, did |-> SubSeq(calls, 1, n)]

\* A change of the adapter's own mock state cannot fail.
Local(what) == [error |-> FALSE, changed |-> TRUE, did |-> <<what>>]

PortCalls == [ disable_interface |-> <<"down">>, enable_interface |-> <<"up">>,
               bounce_interface |-> <<"down", "up">> ]

\* Switch.Execute and mutate: the port is read first, and a dry run stops there.
SwitchExecute(pr, dry, w) ==
    CASE pr.action = "query_vlan_state"                         -> Unchanged
      [] pr.action = "query_interface_state"                    -> IF w.reads THEN Unchanged ELSE ActionFailed
      [] pr.action \in DOMAIN PortCalls /\ w.reads /\ ~dry      -> Perform(PortCalls[pr.action], w.replies)
      [] pr.action = "set_interface_description" /\ w.reads /\ ~dry -> Local("description")
      [] pr.action \in DOMAIN PortCalls \cup {"set_interface_description"} /\ w.reads /\ dry -> Unchanged
      [] OTHER                                                  -> ActionFailed

\* AccessPoint.Execute.
AccessPointExecute(pr, dry, w) ==
    CASE pr.action \in {"query_ap_clients", "query_interface_state"} -> IF w.reads THEN Unchanged ELSE ActionFailed
      [] pr.action \in {"restart_ap_service", "update_ap_config"} /\ dry -> Unchanged
      [] pr.action = "restart_ap_service" /\ ~dry               -> Perform(<<"online">>, w.replies)
      [] pr.action = "update_ap_config" /\ ~dry                 -> Local("config")
      [] OTHER                                                  -> ActionFailed

\* Host.Execute: an unknown maintenance task is an error in a dry run too.
HostExecute(pr, dry, w) ==
    CASE pr.action = "collect_diagnostics"                      -> IF w.reads THEN Unchanged ELSE ActionFailed
      [] pr.action = "run_maintenance_task" /\ ~w.knownTask     -> ActionFailed
      [] pr.action = "run_maintenance_task" /\ w.knownTask      -> IF dry THEN Unchanged ELSE Local("task")
      [] pr.action = "restart_service"                          -> IF dry THEN Unchanged ELSE Perform(<<"online">>, w.replies)
      [] OTHER                                                  -> ActionFailed

PlatformCalls == [create_event_record |-> <<"record">>, invoke_extension |-> <<"invoke">>, send_webhook |-> <<"post">>]

\* Generic.Execute and webhook: a recorder, invoker or endpoint that is not
\* configured refuses; a dry run does not look.
GenericExecute(pr, dry, w) ==
    CASE pr.action = "noop" \/ (pr.action \in DOMAIN PlatformCalls /\ dry) -> Unchanged
      [] pr.action \in DOMAIN PlatformCalls /\ ~dry             -> Perform(PlatformCalls[pr.action], w.replies)
      [] OTHER                                                  -> ActionFailed

GenericActions == DOMAIN PlatformCalls \cup {"noop"}

\* Set.For, and execute's denial when there is no adapter.
Execute(pr, dev, dry, w) ==
    IF pr.action \in GenericActions THEN [status |-> "done", result |-> GenericExecute(pr, dry, w)]
    ELSE CASE dev.type \in NetTypes     -> [status |-> "done", result |-> SwitchExecute(pr, dry, w)]
           [] dev.type = "access_point" -> [status |-> "done", result |-> AccessPointExecute(pr, dry, w)]
           [] dev.type \in HostTypes    -> [status |-> "done", result |-> HostExecute(pr, dry, w)]
           [] OTHER                     -> [status |-> "denied", result |-> ActionFailed]

Refused(status, gate) == [status |-> status, gate |-> gate, changed |-> FALSE, did |-> <<>>]

\* process and execute: the request's outcome and what was done.
Process(req, dev, file, w) ==
    LET gate == Verdict(req, dev, file, w)
        dry  == ~Live(req, CHOOSE p \in file.policies : p.id = req.policy, w.globalDry)
        x    == Execute(req.proposal, dev, dry, w)
        ended == IF x.result.error THEN "failed" ELSE IF dry THEN "dry_run" ELSE "succeeded"
    IN  CASE req.status = "denied" -> Refused("denied", "proposal")
          [] req.status # "denied" /\ gate # "open" -> Refused(IF gate = "alert" THEN "expired" ELSE "denied", gate)
          [] OTHER -> IF x.status = "denied" THEN Refused("denied", "adapter")
                      ELSE [ status |-> ended, gate |-> "none", changed |-> x.result.changed, did |-> x.result.did ]

-----------------------------------------------------------------------------
(* What is expected of them.                                               *)

\* The occurrences of a window, counted in days of its zone's clocks: one
\* begins on every day the window names and lasts until the clocks show the
\* end time next.
InOccurrence(r, now) ==
    LET local == WallClock(r, now)
    IN  \E n \in ((local \div Day) - 1)..(local \div Day) :
            /\ r.days = {} \/ n % 7 \in r.days
            /\ n * Day + r.start <= local
            /\ local < n * Day + r.start + ((r.end - r.start) % Day)

UnderMaintenance(file, now, dev) ==
    \E w \in file.windows :
        /\ dev.id \in w.devices \/ dev.site \in {w.site} \ {""} \/ w.tags \cap dev.tags # {}
           \/ (w.devices = {} /\ w.tags = {} /\ w.site = "")
        /\ IF w.recurring # NoSchedule THEN InOccurrence(w.recurring, now)
           ELSE (w.from = Unset \/ w.from <= now) /\ (w.until = Unset \/ now < w.until)
=============================================================================

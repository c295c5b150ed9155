------------------------------ MODULE Catalog ------------------------------
(***************************************************************************)
(* The closed catalog of automation actions (internal/automation/          *)
(* actions.go) and the checks a proposal has to pass.                      *)
(*                                                                         *)
(* A target is "" (none), Port (a name the pattern accepts), Garbled (one  *)
(* it does not) or Template, a policy's "{interface}".  A parameter's      *)
(* value is "good" or "bad" by its pattern.                                *)
(***************************************************************************)
EXTENDS Integers, Sequences, FiniteSets

Port     == "Gi0/1"
Garbled  == "not a port"
Template == "{interface}"

NetTypes  == {"switch", "router"}
HostTypes == {"server", "workstation"}
Types     == NetTypes \cup HostTypes \cup {"access_point", "printer"}

Action(types, capability, needsTarget, required, optional, disruptive) ==
    [ types |-> types, capability |-> capability, needsTarget |-> needsTarget,
      required |-> required, optional |-> optional, disruptive |-> disruptive ]

PortAction(required) == Action(NetTypes, "interface-admin", TRUE, required, {}, TRUE)

\* Catalog: an empty set of types means any.
Actions ==
    [ disable_interface         |-> PortAction({}),
      enable_interface          |-> PortAction({}),
      bounce_interface          |-> PortAction({}),
      set_interface_description |-> PortAction({"description"}),
      query_interface_state     |-> Action(NetTypes \cup {"access_point"}, "", TRUE, {}, {}, FALSE),
      query_vlan_state          |-> Action(NetTypes, "", FALSE, {}, {"vlan"}, FALSE),
      restart_ap_service        |-> Action({"access_point"}, "service-restart", FALSE, {"service"}, {}, TRUE),
      query_ap_clients          |-> Action({"access_point"}, "", FALSE, {}, {}, FALSE),
      update_ap_config          |-> Action({"access_point"}, "config-update", FALSE, {"key", "value"}, {}, TRUE),
      restart_service           |-> Action(HostTypes, "service-restart", FALSE, {"service"}, {}, TRUE),
      collect_diagnostics       |-> Action(HostTypes, "diagnostics", FALSE, {}, {}, FALSE),
      run_maintenance_task      |-> Action(HostTypes, "diagnostics", FALSE, {"task"}, {}, TRUE),
      send_webhook              |-> Action({}, "", FALSE, {"endpoint"}, {"message"}, FALSE),
      create_event_record       |-> Action({}, "", FALSE, {"message"}, {"severity"}, FALSE),
      invoke_extension          |-> Action({}, "", FALSE, {"script"}, {}, FALSE),
      noop                      |-> Action({}, "", FALSE, {}, {}, FALSE) ]

\* validateShape: the target, no unknown or malformed parameter, none missing.
ValidShape(spec, pr) ==
    /\ IF spec.needsTarget THEN pr.target = Port ELSE pr.target = ""
    /\ \A k \in DOMAIN pr.params : k \in spec.required \cup spec.optional /\ pr.params[k] # "bad"
    /\ spec.required \subseteq DOMAIN pr.params
    /\ ~pr.longReason

\* Validate: the same check for every proposer.
Validate(pr, dev) ==
    /\ pr.action \in DOMAIN Actions
    /\ ValidShape(Actions[pr.action], pr)
    /\ Actions[pr.action].types # {} => dev.type \in Actions[pr.action].types

\* expand: a label the event does not have leaves the template as it is.
Expand(target, ev) == IF target = Template /\ ev.interface # "" THEN ev.interface ELSE target
=============================================================================

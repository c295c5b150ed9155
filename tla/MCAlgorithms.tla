---------------------------- MODULE MCAlgorithms ----------------------------
(* Small input sets for Algorithms. *)
EXTENDS Algorithms

-----------------------------------------------------------------------------
(* Windows: a day of four ticks, nine days, three time zones with a fixed  *)
(* offset and two whose clocks are put forward or back on the third day.   *)

Box(type, tags, caps) ==
    [id |-> "d1", type |-> type, enabled |-> TRUE, tags |-> tags, capabilities |-> caps, site |-> "lab"]

Window(from, until, rec) ==
    [id |-> "w", devices |-> {}, site |-> "", tags |-> {}, from |-> from, until |-> until, recurring |-> rec]

Instants == 4..35
Zones ==
    { [t \in Instants |-> o] : o \in {-2, 0, 1} }
    \cup { [t \in Instants |-> IF t < 14 THEN 0 ELSE 1], [t \in Instants |-> IF t < 14 THEN 1 ELSE 0] }

Recurrences ==
    [days : {{}, {1}, {0, 3}, {6}}, start : 0..3, end : 0..3, zone : Zones]

MCWindows ==
    [window : { Window(Unset, Unset, r) : r \in Recurrences }, now : Instants, dev : {Box("switch", {}, {})}]
    \cup [window : { Window(f, u, NoSchedule) : f, u \in {Unset, 5, 7} }
                   \cup { [Window(5, 9, NoSchedule) EXCEPT !.devices = d, !.site = s, !.tags = t] :
                              d \in {{}, {"d1"}, {"d2"}}, s \in {"", "lab", "home"}, t \in {{}, {"a"}, {"b", "c"}} },
          now : 4..9, dev : { [Box("switch", {"a"}, {}) EXCEPT !.site = s] : s \in {"lab", ""} }]

-----------------------------------------------------------------------------
(* Responses: everything is in order but what spoils says.                 *)

TypeFor(action) ==
    LET types == Actions[action].types
    IN  IF types = {} THEN "printer" ELSE CHOOSE t \in types : TRUE

Proposal(action) ==
    [ action |-> action, target |-> IF Actions[action].needsTarget THEN Port ELSE "",
      params |-> [k \in Actions[action].required |-> "good"], longReason |-> FALSE ]

PolicyFor(action, source, dry) ==
    [ id |-> "p", event |-> "fault", action |-> IF source = "fixed" THEN action ELSE "",
      target |-> IF source = "fixed" /\ Actions[action].needsTarget THEN Template ELSE "",
      params |-> IF source = "fixed" THEN Proposal(action).params ELSE <<>>,
      script |-> IF source = "fixed" THEN "" ELSE "s",
      allowed |-> IF source = "fixed" THEN {} ELSE {action, "noop"},
      dryRun |-> dry, requireTag |-> "", deviceTypes |-> {}, site |-> "", minSeverity |-> "warning", tags |-> {} ]

FileFor(action, source, dry) ==
    [ windows |-> {}, policies |-> {PolicyFor(action, source, dry)}, allowlist |-> {"d1"}, extensions |-> {"good"} ]

Spoils == {"tag", "capability", "allowlist", "maintenance", "enabled", "firing", "policy", "allowed", "extension", "type"}

Response(action, source, dry1, dry2, dryA, dryB, spoils, replies, reads) ==
    LET caps == {Actions[action].capability} \ {""}
        dev  == Box(TypeFor(action), {DefaultTag}, caps)
        file == FileFor(action, source, dry2)
        pols == { p \in { [q EXCEPT !.allowed = IF "allowed" \in spoils /\ source # "fixed" THEN {"noop"} ELSE @]
                             : q \in file.policies } : "policy" \notin spoils }
    IN  [ recorded |-> FileFor(action, source, dry1), event |-> [type |-> "fault", severity |-> "critical", interface |-> Port],
          scripted |-> Proposal(action), device |-> dev, globalDry |-> dryA,
          current |-> [file EXCEPT !.policies = pols,
                                   !.allowlist = IF "allowlist" \in spoils THEN {} ELSE @,
                                   !.extensions = IF "extension" \in spoils THEN {} ELSE @,
                                   !.windows = IF "maintenance" \in spoils THEN {Window(5, Unset, NoSchedule)} ELSE @],
          later |-> [dev EXCEPT !.tags = IF "tag" \in spoils THEN {} ELSE @,
                                !.capabilities = IF "capability" \in spoils THEN {} ELSE @,
                                !.enabled = "enabled" \notin spoils,
                                !.type = IF "type" \in spoils THEN "printer" ELSE @],
          world |-> [ firing |-> "firing" \notin spoils, globalDry |-> dryB, now |-> 6, reads |-> reads,
                      replies |-> replies, knownTask |-> reads ] ]

Good == <<"ok", "ok">>
Few(S, n) == { T \in SUBSET S : Cardinality(T) <= n }

MCResponses ==
    { Response(a, s, d1, d2, FALSE, FALSE, x, Good, TRUE) :
          a \in DOMAIN Actions, s \in {"fixed", "scripted"}, d1 \in {"unset", "false"},
          d2 \in {"unset", "true", "false"}, x \in Few(Spoils, 1) }
    \cup { Response(a, "fixed", "false", "false", FALSE, FALSE, x, Good, TRUE) : a \in DOMAIN Actions, x \in Few(Spoils, 2) }
    \cup { Response(a, "fixed", "false", d, g, h, {}, <<r, q>>, b) :
          a \in DOMAIN Actions, d \in {"true", "false"}, g \in BOOLEAN, h \in BOOLEAN,
          r \in {"ok", "refused", "lost"}, q \in {"ok", "refused", "lost"}, b \in BOOLEAN }

-----------------------------------------------------------------------------
(* Script chains.                                                          *)

Mapping(metric, kind, factor, true, map) ==
    [ metric |-> metric, kind |-> kind, factor |-> factor, true |-> true, map |-> map,
      labels |-> [interface |-> "port"], unit |-> {"unit"} ]

MCMappings ==
    [ up |-> Mapping("m1", "bool", 0, {1}, <<>>), load |-> Mapping("m1", "scale", 2, {}, <<>>),
      mode |-> Mapping("m1", "enum", 0, {}, <<"on">>) ]

Obs(metric, val) ==
    [ ident |-> "o1", received |-> "", metric |-> metric, value |-> val, labels |-> {"interface", "speed"},
      metadata |-> {}, future |-> FALSE ]

Does == {"throw", "inactive", "saturated", "null", "garbage", "rename", "misname", "steal", "restamp", "adjust", "annotate"}
Scripts == [does : Does, metrics : {{}, {"m1"}}]
Chains(n) == UNION { [1..k -> Scripts] : k \in 0..n }

MCChains ==
    [raw : { Obs("m1", Num(1)), Obs("up", Num(1)), [Obs("up", Bool(TRUE)) EXCEPT !.received = "then"],
             Obs("load", Num(2)), Obs("load", Str("x")), Obs("mode", Num(2)), Obs("mode", Num(1)),
             [Obs("up", Num(0)) EXCEPT !.metadata = {"a", "b"}], [Obs("m1", Num(1)) EXCEPT !.future = TRUE],
             [Obs("m1", NoValue) EXCEPT !.ident = ""] },
     scripts : Chains(2)]

MCEnrich ==
    [o : {[Obs("m1", Num(1)) EXCEPT !.received = "then"], [Obs("m2", Bool(FALSE)) EXCEPT !.received = "then", !.metadata = {"a"}]},
     dev : [known : BOOLEAN, enabled : BOOLEAN, context : {{"site"}, {"site", "type"}}], scripts : Chains(2)]

-----------------------------------------------------------------------------
(* Integrations: two scripts, up to three deliveries.                      *)

HostApi(fn, what, arg, caught) == [fn |-> fn, what |-> what, arg |-> arg, caught |-> caught]
Emits(x) == HostApi("emit", x, "good", FALSE)
Posts(x) == HostApi("http", x, "good", FALSE)

Sources ==
    { <<>>, <<Emits("a")>>, <<Posts("x"), Emits("a")>>, <<Emits("a"), Posts("x"), Emits("b")>>,
      <<Emits("a"), Emits("a"), Emits("b")>>, <<Emits("a"), HostApi("emit", "c", "refused", FALSE)>>,
      <<Emits("a"), HostApi("emit", "c", "malformed", TRUE), Emits("b")>>, <<Emits("a"), Emits("b"), HostApi("emit", "c", "good", TRUE)>>,
      <<HostApi("http", "x", "good", TRUE), Emits("a")>>, <<HostApi("http", "y", "refused", TRUE), Posts("x"), Emits("a")>>,
      <<HostApi("http", "y", "malformed", TRUE), Posts("x"), Emits("a")>>, <<HostApi("metric", "m", "good", FALSE), Emits("a")>>,
      <<Emits("b"), HostApi("metric", "m", "good", FALSE), HostApi("metric", "m", "good", FALSE)>> }

Integration(key, does, returns) ==
    [key |-> key, does |-> does, returns |-> returns, active |-> TRUE, events |-> {"fault"}, minSeverity |-> "warning"]

Integrating(key) ==
    { Integration(key, d, r) : d \in Sources, r \in {"ok", "garbage"} }
    \cup { Integration(key, <<Emits("a")>>, "not ok"), [Integration(key, <<Emits("a")>>, "ok") EXCEPT !.active = FALSE],
           [Integration(key, <<Emits("a")>>, "ok") EXCEPT !.events = {"other"}],
           [Integration(key, <<Emits("a")>>, "ok") EXCEPT !.events = {}, !.minSeverity = "critical"] }

Attempt(engine, at, after, up, store) == [engine |-> engine, at |-> at, after |-> after, up |-> up, store |-> store]
Undisturbed == Attempt(TRUE, 0, 0, TRUE, 0)
Disturbed ==
    { Attempt(FALSE, 0, 0, TRUE, 0), Attempt(TRUE, 1, 0, TRUE, 0), Attempt(TRUE, 2, 0, TRUE, 0), Attempt(TRUE, 2, 1, TRUE, 0),
      Attempt(TRUE, 0, 0, FALSE, 0), Attempt(TRUE, 0, 0, TRUE, 1), Attempt(TRUE, 0, 0, TRUE, 2), Attempt(TRUE, 0, 0, FALSE, 1) }

Fault(severity) == [id |-> "e1", type |-> "fault", severity |-> severity]
Message(severity, complete, known) == [event |-> Fault(severity), complete |-> complete, deviceKnown |-> known]

MCEvents ==
    { c \in [ msg : {Message("warning", TRUE, TRUE)}, scripts : Integrating("s1") \X Integrating("s2"),
              attempts : { <<d, Undisturbed>> : d \in Disturbed } \cup { <<d, e, Undisturbed>> : d, e \in {Attempt(TRUE, 0, 0, TRUE, 2), Attempt(TRUE, 2, 1, TRUE, 0)} } ] :
          \A a \in ToSet(c.attempts) : a.at # 0 => a.after <= Len(c.scripts[a.at].does) }
    \cup [ msg : { Message(v, x, k) : v \in {"info", "critical"}, x \in BOOLEAN, k \in BOOLEAN },
           scripts : { <<s>> : s \in Integrating("s1") }, attempts : {<<Undisturbed>>, <<Attempt(FALSE, 0, 0, TRUE, 0)>>} ]

MCInvoke ==
    { c \in [script : Integrating("s1"), attempt : {Undisturbed} \cup Disturbed] : c.attempt.at = 1 => c.attempt.after <= Len(c.script.does) }

-----------------------------------------------------------------------------
(* Collection.                                                             *)

Scalar(name, type, oid) == [name |-> name, type |-> type, oid |-> oid, table |-> NoTable]
Column(name, type, oid, labels) ==
    [name |-> name, type |-> type, oid |-> "", table |-> [oid |-> oid, index |-> "index", labels |-> labels]]

Profile(include, metrics, prefix) == [include |-> include, metrics |-> metrics, prefix |-> prefix]

Base   == << Scalar("uptime", "counter", "o1"), Scalar("name", "string", "o2"), Scalar("load", "gauge", "o3") >>
Ports  == << Column("octets", "counter", "c1", [port |-> "c2"]), Scalar("load", "gauge", "o4") >>
Vendor == << Column("status", "integer", "c3", [port |-> "c2"]), Scalar("temp", "gauge", "o5") >>

ProfileSets ==
    { [system |-> Profile(<<>>, Base, <<>>), net |-> Profile(<<"system">>, Ports, <<1>>),
       vendor |-> Profile(inc, Vendor, <<1, 9>>)] :
         inc \in {<<>>, <<"net">>, <<"system", "net">>, <<"net", "system">>, <<"vendor">>, <<"nobody">>} }
    \cup { [system |-> Profile(<<"net">>, Base, <<>>), net |-> Profile(<<"system">>, Ports, <<1>>)],
           [net |-> Profile(<<>>, Ports, <<1>>)] }

Oids    == {"o1", "o2", "o3", "o4", "o5"}
Pdus(S) == [oid \in Oids |-> IF oid \in S THEN Pdu("missing", 0) ELSE IF oid = "o2" THEN Pdu("string", "sw1") ELSE Pdu("number", 7)]

Agent(missing, garbled, rows, unreadable) ==
    [ value |-> [Pdus(missing) EXCEPT !["o3"] = IF garbled THEN Pdu("string", "n/a") ELSE @],
      column |-> [ c1 |-> [r \in rows |-> Pdu("number", r)], c2 |-> [r \in rows \ {2} |-> Pdu(IF garbled /\ r = 3 THEN "missing" ELSE "string", r + 10)],
                   c3 |-> [r \in rows |-> IF garbled /\ r = 1 THEN Pdu("string", "n/a") ELSE Pdu("number", 1)] ],
      unreadable |-> unreadable, down |-> FALSE ]

MCPolls ==
    [profiles : ProfileSets, configured : {"", "auto", "vendor"}, sysObjectID : {<<1>>, <<1, 9, 3>>, <<2>>},
     agent : { Agent(m, g, r, u) : m \in {{}, {"o1"}, {"o3", "o5"}}, g \in BOOLEAN, r \in {{}, {1, 2, 3}},
                                   u \in {{}, {"o4"}, {"c2"}, {SysObjectID}} }
                 \cup { [Agent({}, FALSE, {}, {}) EXCEPT !.down = TRUE] },
     batch : 1..4]

-----------------------------------------------------------------------------
(* Storage.                                                                *)

Row(id, at, val) == [id |-> id, dev |-> "d1", at |-> at, value |-> val]

Ops ==
    { [op |-> "InsertObservation", row |-> Row("o1", 1, 5)], [op |-> "InsertObservation", row |-> Row("o2", 2, Text)],
      [op |-> "TouchDevice", dev |-> "d1", at |-> 1], [op |-> "TouchDevice", dev |-> "d1", at |-> 2],
      [op |-> "PutState", key |-> "k", value |-> "healthy"], [op |-> "PutState", key |-> "k", value |-> "failed"],
      [op |-> "InsertTransition", row |-> [id |-> "t1"]], [op |-> "InsertEvent", row |-> [id |-> "e1"]],
      [op |-> "OpenAlert", event |-> "e1", key |-> "a"], [op |-> "OpenAlert", event |-> "e2", key |-> "a"],
      [op |-> "ResolveAlert", key |-> "a", at |-> 2], [op |-> "Enqueue", msg |-> "m"] }

Registered == [op |-> "UpsertDevices", dev |-> "d1", attrs |-> <<>>]

AutoRequest(created, status) ==
    [status |-> status, created |-> created, notBefore |-> created + 1, by |-> "", claimed |-> Never]

Requests == { [op |-> "InsertAutomationRequest", id |-> 1, request |-> AutoRequest(0, "pending")],
              [op |-> "InsertAutomationRequest", id |-> 2, request |-> AutoRequest(1, "awaiting_approval")] }

Calls ==
    Requests \cup
    { [op |-> "ClaimAutomation", id |-> 1, now |-> 1], [op |-> "ClaimAutomation", id |-> 1, now |-> 3],
      [op |-> "SetAutomationStatus", id |-> 1, from |-> {"executing"}, to |-> "awaiting_approval"],
      [op |-> "ApproveAutomation", id |-> 1, by |-> "ann"], [op |-> "ApproveAutomation", id |-> 2, by |-> "bob"],
      [op |-> "CompleteAutomation", id |-> 1, status |-> "succeeded", now |-> 2],
      [op |-> "CompleteAutomation", id |-> 1, status |-> "failed", now |-> 3],
      [op |-> "UpsertDevices", dev |-> "d1", attrs |-> <<>>],
      [op |-> "UpdateDeviceAttributes", dev |-> "d1", value |-> "v"],
      [op |-> "DrainOutbox", limit |-> 1, fails |-> FALSE], [op |-> "DrainOutbox", limit |-> 2, fails |-> TRUE] }

MCStore == { [calls |-> {Registered}, ops |-> Ops, steps |-> 5],
             [calls |-> Calls, ops |-> { [op |-> "TouchDevice", dev |-> "d1", at |-> 1] }, steps |-> 5] }
MCTimes == 0..3

-----------------------------------------------------------------------------
(* Lists: four rows, two of them at the same time, in any order; one of    *)
(* them comes late and one is resolved after the first page.               *)

Item(id, t) == [id |-> id, t |-> t, device |-> IF id = 2 THEN "d2" ELSE "d1", status |-> "firing", kind |-> "fault",
                severity |-> IF id = 3 THEN "info" ELSE "critical"]

Resolved(table, id) == [i \in DOMAIN table |-> IF table[i].id = id THEN [table[i] EXCEPT !.status = "resolved"] ELSE table[i]]

Tables ==
    { [i \in 1..4 |-> Item(p[i], ts[p[i]])] : p \in { q \in [1..4 -> 1..4] : \A i, j \in 1..4 : q[i] = q[j] => i = j },
                                             ts \in [1..4 -> 1..2] }

Filters ==
    { [device |-> "", status |-> s, kind |-> "", minSeverity |-> m, since |-> NotSet, until |-> u] :
          s \in {"", "firing"}, m \in {"", "warning"}, u \in {NotSet, 2} }

MCPages ==
    [tables : { << IF late THEN Front(t) ELSE t >> \o [k \in 1..4 |-> IF gone THEN Resolved(t, 1) ELSE t] :
                    t \in Tables, late \in BOOLEAN, gone \in BOOLEAN },
     filter : Filters, limit : 0..3]
=============================================================================

--------------------------- MODULE MCConfigurations ---------------------------
(* Instances for TLC of terminals and of what is done with configurations:   *)
(* requests for analyses, queries of them with two askers or with outages;   *)
(* and, in one state each, an input of an analysis (a link of two devices),  *)
(* a connection the SSH policy decides on, a failure a driver translates,    *)
(* and a change of a device of which some lines are sent.                    *)
EXTENDS TerminalSession, AnalysisRuns, AnalysisInput, ChangeCatalogue, FiniteSetsExt

CONSTANT First   \* the terminal that is alone

Names == [stem : {"core", "edge"}, capitals : BOOLEAN, domain : BOOLEAN]
Ports == {[mode |-> "absent", vlan |-> 0], [mode |-> "TRUNK", vlan |-> 0]}
         \cup [mode : {"ACCESS"}, vlan : 0..2]
AnyDevice == [vendor : {"cisco_iosxe", "generic_readonly"}, stored : BOOLEAN, name : Names,
              port : Ports]
Core == [vendor |-> "cisco_iosxe", stored |-> TRUE, port |-> [mode |-> "ACCESS", vlan |-> 1],
         name |-> [stem |-> "core", capitals |-> FALSE, domain |-> FALSE]]

\* A switch, with one thing of it as every change type may find it
Switch ==
  [hostname |-> "sw", lookup |-> TRUE, vlans |-> [id \in {1, 10} |-> IF id = 1 THEN "default" ELSE "users"],
   port |-> [description |-> "", shut |-> FALSE, plugged |-> TRUE, mode |-> "static access",
             access |-> 10, allowed |-> Every, encapsulation |-> "dot1q"],
   routes |-> {}, processes |-> << >>]

AnyPort == [description : {"", "uplink"}, shut : BOOLEAN, plugged : BOOLEAN,
            mode : ModeCommands \cup {"private-vlan host"}, access : {1, 10, 30},
            allowed : {Every, [word |-> "NONE", ids |-> {}], Listed({1, 10})},
            encapsulation : {"dot1q", "negotiate"}]
AnyRoutes == SUBSET [prefix : {"lan", "default"}, hop : 1..2, options : {"", "distance 200"}]
Statements(p) ==
  IF p = "rip" THEN {<<"network", "lan">>, <<"version", "1">>, <<"version", "2">>}
  ELSE IF p = "ospf 1" THEN {<<"network", "lan">>}
  ELSE {<<"neighbor", "peer", "remote-as", 1>>, <<"neighbor", "peer", "remote-as", 2>>,
        <<"neighbor", "peer", "description", 0>>}
\* At most one line of a kind: one version, one AS of a peer
AnyProcesses ==
  {<< >>} \cup
  UNION {{[q \in {p} |-> x] : x \in {y \in SUBSET Statements(p) :
                            \A s, o \in y : s[1] = o[1] /\ (s[1] = "neighbor" => s[3] = o[3]) => s = o}} :
         p \in {"rip", "ospf 1", "bgp 1"}}

Steps(type) ==
  CASE type = "hostname"              -> [target : {""}, value : {"core", "malformed"}]
    [] type = "domain_lookup"         -> [target : {""}, value : {"on", "off", "maybe"}]
    [] type = "vlan_name"             -> [target : {10, 20, 1002, 4095}, value : {"voice"}]
    [] type = "interface_access_vlan" -> [target : {"port"}, value : {1, 10, 20, 0}]
    [] type = "interface_trunk_vlans" ->
         [target : {"port"}, value : {<< <<10, 10>>, <<1, 2>> >>, << <<2, 1>> >>, << <<1, 4095>> >>}]
    [] type = "static_route"          -> [target : {"lan", "default"}, value : 0..3]
    [] type \in {"router_network", "router_network_remove"} ->
         [target : {"rip", "ospf 1", "malformed"}, value : {"lan", "every interface"}]
    [] type = "router_rip_version"    -> [target : {"rip"}, value : {"1", "2", "3"}]
    [] type = "bgp_neighbor"          ->
         [target : {"bgp 1", "bgp 2"}, value : [peer : {"peer", "malformed"}, asn : {1, 2}]]
    [] type = "interface_description" -> [target : {"port"}, value : {"desk", "malformed"}]
    [] type = "interface_admin_state" -> [target : {"port"}, value : {"up", "down", "maybe"}]

Types == OnInterface \cup OnProcess \cup {"hostname", "domain_lookup", "vlan_name", "static_route"}

PortDevices(type) ==
  {[Switch EXCEPT !.port = p] : p \in {q \in AnyPort : q.description = "" \/ type = "interface_description"}}
Router == [Switch EXCEPT !.port.mode = "", !.vlans = << >>]
RouteDevices ==
  {[Switch EXCEPT !.routes = rs] :
     rs \in {x \in AnyRoutes : \A r, o \in x : <<r.prefix, r.hop>> = <<o.prefix, o.hop>> => r = o}}
ProcessDevices == {[Switch EXCEPT !.processes = ps] : ps \in AnyProcesses}
GlobalDevices == {[Switch EXCEPT !.hostname = h, !.lookup = l] : h \in {"sw", ""}, l \in {TRUE, FALSE}}
DevicesFor(type) ==
  IF type \in OnInterface THEN PortDevices(type) \cup {Router}
  ELSE IF type = "static_route" THEN RouteDevices
  ELSE IF type \in OnProcess THEN ProcessDevices
  ELSE IF type = "vlan_name" THEN GlobalDevices \cup {Router}
  ELSE GlobalDevices

\* What may have changed since the preview, of what the change is about or not
Since(d) ==
  {d, [d EXCEPT !.port.mode = "trunk"], [d EXCEPT !.port.shut = ~@],
      [d EXCEPT !.hostname = "renamed"], [d EXCEPT !.vlans = Opened(@, 20, "guests")],
      [d EXCEPT !.routes = @ \cup {[prefix |-> "lan", hop |-> 3, options |-> ""]}],
      [d EXCEPT !.processes = [Opened(d.processes, "ospf 1", {}) EXCEPT
                                !["ospf 1"] = {<<"network", "wan">>}]]}

VARIABLES
  scene,   \* which of the instances
  input    \* the input of the scenes that take one

vars == <<analysisVars, terminalVars, scene, input>>

\* How a device announces itself: in other capitals, or with a domain
Announcements(d) == {n \in Names : n.stem = d.name.stem}

Init ==
  /\ AnalysisInit /\ TerminalInit
  /\ \/ scene \in {"one terminal", "terminals", "analyses", "queries", "outages"} /\ input = << >>
     \/ scene = "policy" /\ \E mode \in Modes, sw \in Switches, ack \in Acks :
                              input = [mode |-> mode, sw |-> sw, ack |-> ack]
     \/ scene = "failure" /\ \E exc \in Caught, phase \in DriverPhases :
                               input = [exc |-> exc, phase |-> phase]
     \/ /\ scene = "change"
        /\ \E type \in Types : \E x \in Steps(type), d \in DevicesFor(type) :
             LET s == [type |-> type, target |-> x.target, value |-> x.value]
             IN  /\ Validated(s, Context(type, d)) /\ Renderable(s, Context(type, d))
                 /\ \E now \in Since(d), k \in 0 .. Len(Render(s, Context(type, d)).lines) :
                      input = [step |-> s, before |-> d, now |-> now, sent |-> k]
     \/ /\ scene = "link"
        /\ \E p \in Ports, d \in AnyDevice, first \in BOOLEAN :
             LET c  == [Core EXCEPT !.port = p]
                 ds == IF first THEN <<c, d>> ELSE <<d, c>>
             IN  \E of \in {1, 2}, short \in SUBSET {"near", "far"} :
                   \E name \in Announcements(ds[3 - of]) :
                     input = [ds |-> ds, of |-> of, name |-> name, short |-> short]

\* Requests for analyses alone, or queries and one thing that goes wrong with
\* them.
Analyses ==
  /\ AnalysisNext
  /\ CASE scene = "analyses" -> query' = query
       [] scene = "queries"  -> stuck' = 0 /\ ~overlapped' /\ reachable'
       [] scene = "outages"  -> stuck' = 0 /\ ~overlapped' /\ ~crossed'

\* Only a terminal that is alone is cancelled more than once.
Terminal ==
  /\ TerminalNext
  /\ CASE scene = "one terminal" -> \A s \in Terminals \ {First} : await'[s] = "closed"
       [] scene = "terminals"    -> MapThenSumSet(LAMBDA s : cancels'[s], Terminals) <= 1

Next ==
  /\ UNCHANGED <<scene, input>>
  /\ \/ /\ scene \in {"analyses", "queries", "outages"}
        /\ Analyses /\ UNCHANGED terminalVars
     \/ /\ scene \in {"one terminal", "terminals"}
        /\ Terminal /\ UNCHANGED analysisVars

Spec == Init /\ [][Next]_vars /\ TerminalFairness

\* What is found of a link is what its ends are, whichever end reported it and
\* however it announced the other, if it names both ports in full.
LinksAreJudged ==
  scene = "link" =>
    JudgedByItsEnds(input.ds, [of |-> input.of, name |-> input.name, short |-> input.short],
                    3 - input.of)

\* The places that decide on a connection agree.
RefusedAlike == scene = "policy" => AgreeOn(input.mode, input.sw, input.ack)

\* Only a login that was refused for its password counts against the
\* credential, and a failure after the login never does.
OnlyRefusedLoginsCount ==
  scene = "failure" =>
    (ReportOf(Translate(input.exc, input.phase)[2]) = "failed"
       <=> RefusedLogin(input.exc) /\ input.phase = "tcp_connection")

\* A change that is applied to a device ends as it was asked for or as it was,
\* wherever its batch is cut short.
ChangesAreAllOrNothing ==
  scene = "change" => AllOrNothing(input.step, input.before, input.now, input.sent)

\* A change that is offered as low risk takes nothing away that carries traffic.
LowRiskInterruptsNothing ==
  scene = "change" => InterruptsNothing(input.step, input.before, input.now, input.sent)
=============================================================================

--------------------------- MODULE ChangeCatalogue ---------------------------
(***************************************************************************)
(* The change types: which of them a device's state admits, the lines each *)
(* is rendered to and the lines that undo it, how its risk is judged, and  *)
(* what the post-check asks for.  Pure operators on a step [type, target,  *)
(* value] and the context read from the device.  Text a pattern refuses is *)
(* "malformed"; a VLAN list is a sequence of ranges <<low, high>>.         *)
(***************************************************************************)
EXTENDS DeviceCommands

\* The administrative modes the driver has a command for
ModeCommands == {"trunk", "static access", "dynamic auto", "dynamic desirable"}

\* The first of the routes of a prefix, in the order the device prints them;
\* as a set, empty if there is none
FirstRoute(ctx, prefix) ==
  {r \in ctx.routes : r.prefix = prefix
                      /\ \A o \in ctx.routes : o.prefix = prefix => r.hop <= o.hop}

Running(ctx, process) == process \in DOMAIN ctx.processes
Holds(ctx, process, statement) == Running(ctx, process) /\ statement \in ctx.processes[process]

\* RIP's version line, and the remote AS of a peer, as sets of statements
VersionOf(ctx) == {s \in ctx.processes["rip"] : s[1] = "version"}
RemoteAS(ctx, process, peer) ==
  {s \in ctx.processes[process] : s[1] = "neighbor" /\ s[2] = peer /\ s[3] = "remote-as"}
PeerStatement(value) == <<"neighbor", value.peer, "remote-as", value.asn>>

-----------------------------------------------------------------------------
\* VLAN lists

Ranges(list) == UNION {list[i][1] .. list[i][2] : i \in DOMAIN list}

\* expand_vlan_list, of what a device says
Expanded(allowed) ==
  CASE allowed.word = "ALL"  -> 1 .. 4094
    [] allowed.word = "NONE" -> {}
    [] OTHER -> allowed.ids

ListAccepted(list) ==
  \A i \in DOMAIN list : list[i][1] <= list[i][2] /\ 1 <= list[i][1] /\ list[i][2] <= 4094

\* 1002 to 1005 are the device's own.
IdAccepted(id) == id \in 1 .. 4094 /\ id \notin 1002 .. 1005

-----------------------------------------------------------------------------
\* validate_change reports no issue
Validated(s, ctx) ==
  CASE s.type \in {"hostname", "interface_description"} -> s.value # "malformed"
    [] s.type = "domain_lookup"         -> s.value \in {"on", "off"}
    [] s.type = "vlan_name"             -> IdAccepted(s.target) /\ s.value # "malformed"
    [] s.type = "interface_access_vlan" ->
         IdAccepted(s.value) /\ (DOMAIN ctx.vlans # {} => s.value \in DOMAIN ctx.vlans)
    [] s.type = "interface_trunk_vlans" ->
         ListAccepted(s.value) /\ ctx.switchport.mode \in ModeCommands
    [] s.type = "interface_admin_state" -> s.value \in {"up", "down"}
    [] s.type = "static_route"          -> s.target # "malformed" /\ s.value # 0
    [] s.type = "router_network"        ->
         s.target # "malformed" /\ s.value # "malformed"
           /\ ~Holds(ctx, s.target, <<"network", s.value>>)
    [] s.type = "router_network_remove" ->
         s.target # "malformed" /\ s.value # "malformed"
           /\ Holds(ctx, s.target, <<"network", s.value>>)
    [] s.type = "router_rip_version"    ->
         /\ s.target = "rip" /\ s.value \in {"1", "2"}
         /\ ~Holds(ctx, "rip", <<"version", s.value>>)
    [] s.type = "bgp_neighbor"          ->
         /\ "malformed" \notin {s.target, s.value.peer}
         /\ \A p \in DOMAIN ctx.processes \cap {"bgp 1", "bgp 2"} : p = s.target
         /\ ~Holds(ctx, s.target, PeerStatement(s.value))

\* Renderers without the present value have no inverse to offer.
Renderable(s, ctx) ==
  /\ s.type = "hostname" => ctx.hostname # ""
  /\ s.type = "interface_trunk_vlans" => ctx.switchport.mode \in ModeCommands

-----------------------------------------------------------------------------
\* render_change, one operator per type: the lines, and the lines that undo them

Rendered(lines, inverse) == [lines |-> lines, inverse |-> inverse]
Port == <<"interface">>

RenderDescription(s, ctx) ==
  Rendered(<<Port, <<"set", "description", s.value>>>>,
           <<Port, <<"set", "description", ctx.interface.description>>>>)

RenderAdminState(s, ctx) ==
  Rendered(<<Port, <<"set", "shut", s.value # "up">>>>,
           <<Port, <<"set", "shut", ~ctx.interface.adminUp>>>>)

RenderHostname(s, ctx) ==
  Rendered(<< <<"hostname", s.value>> >>, << <<"hostname", ctx.hostname>> >>)

RenderLookup(s, ctx) ==
  Rendered(<< <<"lookup", s.value = "on">> >>, << <<"lookup", ctx.lookup>> >>)

\* Naming a VLAN that does not exist creates it; only then does undoing it delete it.
RenderVlanName(s, ctx) ==
  Rendered(<< <<"vlan", s.target>>, <<"name", s.value>> >>,
           IF s.target \in DOMAIN ctx.vlans
           THEN << <<"vlan", s.target>>, <<"name", ctx.vlans[s.target]>> >>
           ELSE << <<"no vlan", s.target>> >>)

\* A port that no VLAN lists goes back to the default VLAN.
RenderAccessVlan(s, ctx) ==
  Rendered(<<Port, <<"set", "mode", "static access">>, <<"set", "access", s.value>>>>,
           <<Port, <<"set", "access", IF ctx.holder = 0 THEN 1 ELSE ctx.holder>>>>)

RenderTrunk(s, ctx) ==
  LET p     == ctx.switchport
      mode  == <<"set", "mode", "trunk">>
      allow == <<"set", "allowed", Listed(Ranges(s.value))>>
      back  == <<"set", "allowed", IF p.allowed.word = "NONE" THEN Every ELSE p.allowed>>
  IN  IF p.mode = "trunk" THEN Rendered(<<Port, allow>>, <<Port, back>>)
      ELSE Rendered(IF p.encapsulation = "negotiate"
                    THEN <<Port, <<"set", "encapsulation", "dot1q">>, mode, allow>>
                    ELSE <<Port, mode, allow>>,
                    <<Port, back, <<"set", "mode", p.mode>>>>)

\* Two routes of one prefix are alternatives: the one there is is withdrawn.
RenderRoute(s, ctx) ==
  LET added == <<"route", [prefix |-> s.target, hop |-> s.value, options |-> ""]>>
      no(line) == <<"no route", line[2]>>
      existing == FirstRoute(ctx, s.target)
      old == <<"route", CHOOSE r \in existing : TRUE>>
  IN  IF existing = {} THEN Rendered(<<added>>, <<no(added)>>)
      ELSE Rendered(<<no(old), added>>, <<no(added), old>>)

\* Mutated form: undoing a network statement never removes the process it started.
RenderNetwork_Keep(s, ctx) ==
  Rendered(<< <<"router", s.target>>, <<"add", <<"network", s.value>>>> >>,
           << <<"router", s.target>>, <<"remove", <<"network", s.value>>>> >>)
RenderNetwork(s, ctx) ==
  Rendered(<< <<"router", s.target>>, <<"add", <<"network", s.value>>>> >>,
           IF Running(ctx, s.target)
           THEN << <<"router", s.target>>, <<"remove", <<"network", s.value>>>> >>
           ELSE << <<"no router", s.target>> >>)

RenderNetworkRemove(s, ctx) ==
  Rendered(<< <<"router", s.target>>, <<"remove", <<"network", s.value>>>> >>,
           << <<"router", s.target>>, <<"add", <<"network", s.value>>>> >>)

RenderRipVersion(s, ctx) ==
  Rendered(<< <<"router", "rip">>, <<"add", <<"version", s.value>>>> >>,
           IF ~Running(ctx, "rip") THEN << <<"no router", "rip">> >>
           ELSE << <<"router", "rip">>,
                   IF VersionOf(ctx) = {} THEN <<"no version">>
                   ELSE <<"add", CHOOSE v \in VersionOf(ctx) : TRUE>> >>)

\* A peer that moves to another AS is withdrawn first, both ways.
RenderNeighbor(s, ctx) ==
  LET into  == <<"router", s.target>>
      leave == <<"no neighbor", s.value.peer>>
      add   == <<"add", PeerStatement(s.value)>>
  IN  IF ~Running(ctx, s.target) THEN Rendered(<<into, add>>, << <<"no router", s.target>> >>)
      ELSE LET old == RemoteAS(ctx, s.target, s.value.peer)
           IN  IF old = {} THEN Rendered(<<into, add>>, <<into, leave>>)
               ELSE Rendered(<<into, leave, add>>,
                             <<into, leave, <<"add", CHOOSE v \in old : TRUE>>>>)

Render(s, ctx) ==
  CASE s.type = "hostname"              -> RenderHostname(s, ctx)
    [] s.type = "domain_lookup"         -> RenderLookup(s, ctx)
    [] s.type = "vlan_name"             -> RenderVlanName(s, ctx)
    [] s.type = "interface_access_vlan" -> RenderAccessVlan(s, ctx)
    [] s.type = "interface_trunk_vlans" -> RenderTrunk(s, ctx)
    [] s.type = "static_route"          -> RenderRoute(s, ctx)
    [] s.type = "router_network"        -> RenderNetwork(s, ctx)
    [] s.type = "router_network_remove" -> RenderNetworkRemove(s, ctx)
    [] s.type = "router_rip_version"    -> RenderRipVersion(s, ctx)
    [] s.type = "bgp_neighbor"          -> RenderNeighbor(s, ctx)
    [] s.type = "interface_description" -> RenderDescription(s, ctx)
    [] s.type = "interface_admin_state" -> RenderAdminState(s, ctx)

-----------------------------------------------------------------------------
\* classify_risk

\* A routing change replaces something when _previous_value finds it there.
Replaces(s, ctx) ==
  CASE s.type = "static_route"   -> FirstRoute(ctx, s.target) # {}
    [] s.type = "router_network" -> Running(ctx, s.target)

\* Mutated form: moving a prefix that is routed already counts as adding a route.
Risk_Prefix(s, ctx) ==
  IF \/ s.type = "interface_admin_state" /\ s.value = "down"
     \/ s.type = "static_route" /\ s.target = "default"
     \/ s.type = "router_network" /\ (s.value = "every interface" \/ ~Replaces(s, ctx))
     \/ s.type \in {"router_network_remove", "router_rip_version", "bgp_neighbor"}
     \/ s.type \in OnInterface /\ ctx.interface.operUp
  THEN "high" ELSE "low"

\* "default" is the default route as it is mostly written; the prefix that
\* spells its mask in dots behind a slash is a prefix like any other here, as it
\* is to classify_risk.
Risk(s, ctx) ==
  IF \/ s.type = "interface_admin_state" /\ s.value = "down"
     \/ s.type = "static_route" /\ (s.target = "default" \/ Replaces(s, ctx))
     \/ s.type = "router_network" /\ (s.value = "every interface" \/ ~Replaces(s, ctx))
     \/ s.type \in {"router_network_remove", "router_rip_version", "bgp_neighbor"}
     \/ s.type \in OnInterface /\ ctx.interface.operUp
  THEN "high" ELSE "low"

-----------------------------------------------------------------------------
\* _post_check_ok
PostCheck(s, ctx) ==
  CASE s.type = "hostname"              -> ctx.hostname = s.value
    [] s.type = "domain_lookup"         -> ctx.lookup = (s.value = "on")
    [] s.type = "vlan_name"             -> s.target \in DOMAIN ctx.vlans
                                             /\ ctx.vlans[s.target] = s.value
    [] s.type = "interface_access_vlan" -> ctx.holder = s.value
    [] s.type = "interface_trunk_vlans" -> ctx.switchport.mode = "trunk"
                                             /\ Expanded(ctx.switchport.allowed) = Ranges(s.value)
    [] s.type = "static_route"          -> {r.hop : r \in FirstRoute(ctx, s.target)} = {s.value}
    [] s.type = "router_network"        -> Holds(ctx, s.target, <<"network", s.value>>)
    [] s.type = "router_network_remove" -> ~Holds(ctx, s.target, <<"network", s.value>>)
    [] s.type = "router_rip_version"    -> Running(ctx, "rip")
                                             /\ VersionOf(ctx) = {<<"version", s.value>>}
    [] s.type = "bgp_neighbor"          -> Holds(ctx, s.target, PeerStatement(s.value))
    [] s.type = "interface_description" -> ctx.interface.description = s.value
    [] s.type = "interface_admin_state" -> ctx.interface.adminUp = (s.value = "up")

\* apply: the device was previewed as it was before; the first k lines reach it
\* as it is now.  A batch cut short, or one the post-check does not find, is
\* undone with the lines kept from the preview.
Applied(s, before, now, k) ==
  LET r     == Render(s, Context(s.type, before))
      after == Sent(now, SubSeq(r.lines, 1, k))
  IN  IF k = Len(r.lines) /\ PostCheck(s, Context(s.type, after)) THEN after
      ELSE Sent(after, r.inverse)

-----------------------------------------------------------------------------
\* What a change promises, and where it does not keep to it

\* The device with what was asked for in the place of what was there, and
\* nothing else different
Asked(s, dev) ==
  LET into(p) == IF p \in DOMAIN dev.processes THEN dev.processes[p] ELSE {}
      put(table, key, value) == [Opened(table, key, value) EXCEPT ![key] = value]
      with(p, statements) == [dev EXCEPT !.processes = put(dev.processes, p, statements)]
  IN
  CASE s.type = "hostname"              -> [dev EXCEPT !.hostname = s.value]
    [] s.type = "domain_lookup"         -> [dev EXCEPT !.lookup = (s.value = "on")]
    [] s.type = "vlan_name"             -> [dev EXCEPT !.vlans = put(dev.vlans, s.target, s.value)]
    [] s.type = "interface_access_vlan" -> [dev EXCEPT !.port.mode = "static access",
                                                       !.port.access = s.value]
    [] s.type = "interface_trunk_vlans" ->
         [dev EXCEPT !.port.mode = "trunk", !.port.allowed = Listed(Ranges(s.value)),
                     !.port.encapsulation = IF @ = "negotiate" /\ dev.port.mode # "trunk"
                                            THEN "dot1q" ELSE @]
    [] s.type = "static_route"          ->
         [dev EXCEPT !.routes = {r \in @ : r.prefix = s.target => r \notin FirstRoute(dev, s.target)
                                                                   /\ r.hop # s.value}
                                \cup {[prefix |-> s.target, hop |-> s.value, options |-> ""]}]
    [] s.type = "router_network"        -> with(s.target, into(s.target) \cup {<<"network", s.value>>})
    [] s.type = "router_network_remove" -> with(s.target, into(s.target) \ {<<"network", s.value>>})
    [] s.type = "router_rip_version"    ->
         with("rip", {x \in into("rip") : x[1] # "version"} \cup {<<"version", s.value>>})
    [] s.type = "bgp_neighbor"          ->
         with(s.target, {x \in into(s.target) : ~(x[1] = "neighbor" /\ x[2] = s.value.peer
                                                    /\ x[3] = "remote-as")}
                        \cup {PeerStatement(s.value)})
    [] s.type = "interface_description" -> [dev EXCEPT !.port.description = s.value]
    [] s.type = "interface_admin_state" -> [dev EXCEPT !.port.shut = (s.value = "down")]

\* A peer is withdrawn with everything that is configured of it.
ForgetsThePeer(s, dev) ==
  /\ s.type = "bgp_neighbor" /\ s.target \in DOMAIN dev.processes
  /\ \E x \in dev.processes[s.target] :
       x[1] = "neighbor" /\ x[2] = s.value.peer /\ x[3] # "remote-as"

\* The post-check does not find what was done: a port without a link reads as
\* shut, of several routes of a prefix only the first is looked at, and a
\* router has refused the lines.
NotFound(s, dev) ==
  \/ s.type \in {"interface_access_vlan", "vlan_name"} /\ DOMAIN dev.vlans = {}
  \/ s.type = "interface_admin_state" /\ s.value = "up" /\ ~dev.port.plugged
  \/ /\ s.type = "static_route"
     /\ \E r \in dev.routes \ FirstRoute(dev, s.target) : r.prefix = s.target /\ r.hop < s.value

\* What the preview read does not say what has to be put back: the mode and
\* the VLAN of a port that is no access port, the encapsulation of a port that
\* negotiates it, an empty VLAN list, a port that has no link but is not shut,
\* and a route that is both asked for and there already beside the first.
NotPutBack(s, dev) ==
  \/ s.type = "interface_access_vlan" /\ (dev.port.mode # "static access"
                                            \/ dev.port.access \notin DOMAIN dev.vlans)
  \/ /\ s.type = "interface_trunk_vlans"
     /\ \/ dev.port.mode # "trunk" /\ dev.port.encapsulation = "negotiate"
        \/ dev.port.allowed.word = "NONE"
  \/ s.type = "interface_admin_state" /\ ~dev.port.shut /\ ~dev.port.plugged
  \/ /\ s.type = "static_route"
     /\ \E r \in dev.routes \ FirstRoute(dev, s.target) : r.prefix = s.target /\ r.hop = s.value

\* A device that reads the same at the apply as at the preview ends as it was
\* asked for, or as it was.
AllOrNothing(s, before, now, k) ==
  LET done == k = Len(Render(s, Context(s.type, before)).lines) /\ ~NotFound(s, now)
  IN  Context(s.type, before) = Context(s.type, now) /\ ~ForgetsThePeer(s, now) =>
        /\ done => Applied(s, before, now, k) = Asked(s, now)
        /\ ~done /\ ~NotPutBack(s, now) => Applied(s, before, now, k) = now

\* What carries traffic: routes, what the routing processes announce, and the
\* VLANs of a port that has a link
PortIdle(dev) == dev.port.shut \/ ~dev.port.plugged
CarriedRoutes(dev) == {<<"route", r.prefix, r.hop>> : r \in dev.routes}
CarriedStatements(dev) ==
  UNION {{<<p, x>> : x \in dev.processes[p]} : p \in DOMAIN dev.processes}
CarriedVlans(dev) ==
  IF PortIdle(dev) THEN {}
  ELSE {<<"vlan", v>> : v \in IF dev.port.mode = "trunk" THEN Expanded(dev.port.allowed)
                               ELSE {dev.port.access}}
Carried(dev) == CarriedRoutes(dev) \cup CarriedStatements(dev) \cup CarriedVlans(dev)

\* Whatever part of a low-risk change's batch is sent takes nothing away that
\* carries traffic.
InterruptsNothing(s, before, now, k) ==
  Context(s.type, before) = Context(s.type, now) /\ Risk(s, Context(s.type, before)) = "low" =>
    Carried(now) \subseteq
      Carried(Sent(now, SubSeq(Render(s, Context(s.type, before)).lines, 1, k)))
=============================================================================

---------------------------- MODULE DeviceCommands ----------------------------
(***************************************************************************)
(* The part of a switch's running configuration that the change types name *)
(* (one port, the VLAN database, the routes, the routing processes, the    *)
(* two global settings), what each command line does to it, and what the   *)
(* Cisco driver reads back of it.                                          *)
(*                                                                         *)
(* A device is a record:                                                   *)
(*   hostname, lookup   the name, "" when unreadable; does it resolve names*)
(*   vlans              a function from VLAN ids to names                  *)
(*   port               [description, shut, plugged, mode, access, allowed,*)
(*                       encapsulation]; allowed is a word, "ALL" or       *)
(*                      "NONE", or the ids of a list                       *)
(*   routes             a set of [prefix, hop, options]                    *)
(*   processes          a function from process names to sets of statements*)
(* A statement is a tuple: <<"network", n>>, <<"version", v>>,             *)
(* <<"neighbor", peer, what, value>>.                                      *)
(***************************************************************************)
EXTENDS Integers, Sequences, Functions

\* The VLANs a trunk allows: a list, or every one
Listed(ids) == [word |-> "", ids |-> ids]
Every == [word |-> "ALL", ids |-> {}]

\* A table with an entry for the key: the one it has, or a fresh one
Opened(table, key, fresh) ==
  [x \in DOMAIN table \cup {key} |-> IF x \in DOMAIN table THEN table[x] ELSE fresh]

\* A device without a VLAN database, a router, refuses the layer-2 lines.
Refused(dev, c) ==
  /\ DOMAIN dev.vlans = {}
  /\ \/ c[1] \in {"vlan", "name", "no vlan"}
     \/ c[1] = "set" /\ c[2] \in {"mode", "access", "allowed", "encapsulation"}

\* What a command line does.  st.at is the block the lines before it opened;
\* nothing follows a line that is refused (stop_on_failed).
Do(st, c) ==
  LET d == st.dev IN
  IF st.refused \/ Refused(d, c) THEN [st EXCEPT !.refused = TRUE] ELSE
  CASE c[1] = "hostname"  -> [st EXCEPT !.dev.hostname = c[2]]
    [] c[1] = "lookup"    -> [st EXCEPT !.dev.lookup = c[2]]
    [] c[1] = "interface" -> st
    [] c[1] = "set"       -> [st EXCEPT !.dev.port[c[2]] = c[3]]
    [] c[1] = "vlan"      -> [st EXCEPT !.dev.vlans = Opened(@, c[2], "default"), !.at = c[2]]
    [] c[1] = "name"      -> [st EXCEPT !.dev.vlans[st.at] = c[2]]
    [] c[1] = "no vlan"   -> [st EXCEPT !.dev.vlans = Restrict(@, DOMAIN @ \ {c[2]})]
    [] c[1] = "route"     -> [st EXCEPT !.dev.routes =
                                {r \in @ : <<r.prefix, r.hop>> # <<c[2].prefix, c[2].hop>>}
                                  \cup {c[2]}]
    [] c[1] = "no route"  -> [st EXCEPT !.dev.routes =
                                {r \in @ : <<r.prefix, r.hop>> # <<c[2].prefix, c[2].hop>>}]
    [] c[1] = "router"    -> [st EXCEPT !.dev.processes = Opened(@, c[2], {}), !.at = c[2]]
    [] c[1] = "no router" -> [st EXCEPT !.dev.processes = Restrict(@, DOMAIN @ \ {c[2]})]
    [] c[1] = "add"       -> [st EXCEPT !.dev.processes[st.at] =
                                {s \in @ : ~(s[1] = "version" /\ c[2][1] = "version")} \cup {c[2]}]
    [] c[1] = "remove"    -> [st EXCEPT !.dev.processes[st.at] = @ \ {c[2]}]
    [] c[1] = "no version"  -> [st EXCEPT !.dev.processes[st.at] = {s \in @ : s[1] # "version"}]
    [] c[1] = "no neighbor" -> [st EXCEPT !.dev.processes[st.at] =
                                  {s \in @ : ~(s[1] = "neighbor" /\ s[2] = c[2])}]

\* What the lines of a batch take a device through
States(dev, lines) ==
  LET after[i \in 0 .. Len(lines)] ==
        IF i = 0 THEN [dev |-> dev, at |-> "", refused |-> FALSE]
        ELSE Do(after[i - 1], lines[i])
  IN  after

\* A batch of configuration lines
Sent(dev, lines) == States(dev, lines)[Len(lines)].dev

\* `show vlan brief` lists a port under its access VLAN unless it is a trunk.
Holder(dev) ==
  IF dev.port.mode # "trunk" /\ dev.port.access \in DOMAIN dev.vlans THEN dev.port.access ELSE 0

\* `show interfaces` says "up" of the port itself only while it has a link: a
\* port that is not shut and not plugged in reads as down, like one that is.
InterfaceFacts(dev) ==
  LET up == ~dev.port.shut /\ dev.port.plugged
  IN  [description |-> dev.port.description, adminUp |-> up, operUp |-> up]

\* `show interfaces switchport`: the administrative mode word for word
SwitchportFacts(dev) ==
  [mode |-> dev.port.mode, allowed |-> dev.port.allowed, encapsulation |-> dev.port.encapsulation]

\* Routes and processes are read from the running configuration, not from the
\* tables in use: one that carries nothing at the moment is still there.
Facts(dev) ==
  [interface  |-> InterfaceFacts(dev),
   vlans      |-> dev.vlans,
   holder     |-> Holder(dev),
   switchport |-> SwitchportFacts(dev),
   routes     |-> dev.routes,
   processes  |-> dev.processes,
   hostname   |-> dev.hostname,
   lookup     |-> dev.lookup]

OnInterface == {"interface_description", "interface_admin_state",
                "interface_access_vlan", "interface_trunk_vlans"}
OnProcess   == {"router_network", "router_network_remove", "router_rip_version", "bgp_neighbor"}

\* What a change of a type reads, at its preview and at its post-check.
Needed(type) ==
  (IF type \in OnInterface THEN {"interface"} ELSE {})
    \cup (IF type \in {"vlan_name", "interface_access_vlan"} THEN {"vlans", "holder"} ELSE {})
    \cup (IF type = "interface_trunk_vlans" THEN {"switchport"} ELSE {})
    \cup (IF type = "static_route" THEN {"routes"} ELSE {})
    \cup (IF type \in OnProcess THEN {"processes"} ELSE {})
    \cup (IF type = "hostname" THEN {"hostname"} ELSE {})
    \cup (IF type = "domain_lookup" THEN {"lookup"} ELSE {})

Context(type, dev) == LET f == Facts(dev) IN [x \in Needed(type) |-> f[x]]
=============================================================================

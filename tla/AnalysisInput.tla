---------------------------- MODULE AnalysisInput ----------------------------
(***************************************************************************)
(* What an analysis hands to Batfish and what it makes of the answer: the  *)
(* devices that are analysed, the links between them, and the links whose  *)
(* ends disagree.  Pure operators on the devices 1..n in the order of      *)
(* their list.                                                             *)
(*                                                                         *)
(* A name is a stem, perhaps in capitals, perhaps with a domain.  A device *)
(* has a vendor, perhaps a stored configuration with its hostname, and the *)
(* port the link ends at, as it is parsed, under its name in full; a       *)
(* neighbour record may name the port of either end in short.              *)
(***************************************************************************)
EXTENDS Naturals, FiniteSets

Supported(d) == d.vendor = "cisco_iosxe"
Included(ds) == {i \in DOMAIN ds : Supported(ds[i]) /\ ds[i].stored}

\* Why a device is left out; every registered device is a member either way.
Exclusion(d) == IF ~Supported(d) THEN "unsupported_vendor" ELSE "no_snapshot"
Members(ds) == [i \in DOMAIN ds |-> IF i \in Included(ds) THEN "analysed" ELSE Exclusion(ds[i])]

\* The error an analysis fails with before Batfish is asked, "ok" for none
Refusal(ds, most) ==
  CASE Cardinality(Included(ds)) > most -> "analysis_too_many_devices"
    [] Included(ds) = {}                -> "analysis_no_configs"
    [] OTHER                            -> "ok"

\* batfish_hostname
Hostname(name) == [name EXCEPT !.capitals = FALSE]

\* Mutated form: a neighbour is looked for under the name it announced.
Announced_Full(name) == Hostname(name)
\* A neighbour may announce itself with its domain.
Announced(name) == [Hostname(name) EXCEPT !.domain = FALSE]

Nodes(ds) == {Hostname(ds[i].name) : i \in Included(ds)}

\* A device's configuration is filed under its hostname: of two with the same
\* one the later is what Batfish is given, and what findings go to.
Owner(ds, node) ==
  CHOOSE i \in Included(ds) :
    /\ Hostname(ds[i].name) = node
    /\ \A j \in Included(ds) : Hostname(ds[j].name) = node => j <= i

\* A neighbour record of a device: the names of the link's ends, if both are
\* nodes.  Records are [of |-> device, name |-> what the other end announced,
\* short |-> the ends whose port it names in short].
Edges(ds, records) ==
  {[near |-> Hostname(ds[r.of].name), far |-> Announced(r.name), short |-> r.short] :
     r \in {x \in records : x.of \in Included(ds) /\ Announced(x.name) \in Nodes(ds)}}

\* The port of a node: "absent", or a mode with the VLAN of an access port (0:
\* unknown).  The parsed ports are looked through for the very name.
Spelled(end, port, short) == IF end \in short THEN [mode |-> "absent", vlan |-> 0] ELSE port

Mode(p) == p.mode
Drift(ds, edge) ==
  LET near == Spelled("near", ds[Owner(ds, edge.near)].port, edge.short)
      far  == Spelled("far", ds[Owner(ds, edge.far)].port, edge.short)
  IN  (IF Mode(near) = "absent" THEN {[at |-> edge.near, what |-> "unknown port"]} ELSE {})
      \cup (IF Mode(far) = "absent" THEN {[at |-> edge.far, what |-> "unknown port"]} ELSE {})
      \cup (IF "absent" \in {Mode(near), Mode(far)} THEN {}
            ELSE IF Mode(near) # Mode(far) THEN {[at |-> edge.near, what |-> "mode"]}
            ELSE IF Mode(near) = "ACCESS" /\ 0 \notin {near.vlan, far.vlan}
                    /\ near.vlan # far.vlan
                 THEN {[at |-> edge.near, what |-> "vlan"]} ELSE {})

\* What the findings of an analysis say, and whom they are laid to
Findings(ds, records) ==
  {[what |-> f.what, device |-> Owner(ds, f.at)] :
     f \in UNION {Drift(ds, e) : e \in Edges(ds, records)}}

-----------------------------------------------------------------------------
\* What the two ends of a link should be told, from their ports alone
Disagree(p, q) ==
  IF "absent" \in {p.mode, q.mode} THEN {"unknown port"}
  ELSE IF p.mode # q.mode THEN {"mode"}
  ELSE IF p.mode = "ACCESS" /\ p.vlan # q.vlan /\ 0 \notin {p.vlan, q.vlan} THEN {"vlan"}
  ELSE {}

\* A link between two analysed devices is judged by what its ends are,
\* whichever end reported it and however it announced the other; the finding is
\* laid to one of the two.  Two devices with one hostname, and hostnames that
\* carry a domain, are not told apart, and a port that is named in short is
\* said not to be there.
JudgedByItsEnds(ds, r, far) ==
  LET found == Findings(ds, {r})
  IN  {r.of, far} \subseteq Included(ds) /\ Hostname(ds[r.of].name) # Hostname(ds[far].name)
        /\ ~ds[far].name.domain
      => /\ {f.what : f \in found} = IF r.short = {} THEN Disagree(ds[r.of].port, ds[far].port)
                                     ELSE {"unknown port"}
         /\ \A f \in found : f.device \in {r.of, far}
=============================================================================

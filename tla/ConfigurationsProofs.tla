------------------------ MODULE ConfigurationsProofs ------------------------
(***************************************************************************)
(* What TLAPS proves of the scenes of MCConfigurations that take one       *)
(* input: how a link is judged, for any number of analysed devices; where  *)
(* a connection is refused; which failures count against a credential; and *)
(* what becomes of a device when a change is applied to it, or a part of   *)
(* the change, for any configuration a device can hold.                    *)
(***************************************************************************)
EXTENDS MCConfigurations, SequenceLemmas

\* What is asked of a scene's input is settled when it begins.
LEMMA InputIsKept ==
  ASSUME [Next]_vars
  PROVE  scene' = scene /\ input' = input
BY DEF Next, vars

-----------------------------------------------------------------------------
(* The SSH policy.                                                         *)

\* The three copies of the decision agree, and a capture acknowledges what the
\* operator did but for the oldest mode.
LEMMA PlacesAgree ==
  ASSUME NEW mode \in Modes, NEW sw \in Switches, NEW ack \in Acks
  PROVE  AgreeOn(mode, sw, ack)
<1>1. CandidateDenial(mode, sw, ack) = ServiceDenial(mode, sw, ack)
  BY DEF Modes, Switches, Acks, CandidateDenial, ServiceDenial, Authorized
<1>2. TerminalDenial(mode, sw, ack) = ServiceDenial(mode, sw, ack)
  BY DEF TerminalDenial, ServiceDenial
<1>3. Authorized(mode, sw, CaptureAck(mode))
        <=> Authorized(mode, sw, SavedAck(mode)) /\ mode # "very_old_ssh"
  BY DEF Modes, Switches, Authorized, CaptureAck, SavedAck
<1> QED  BY <1>1, <1>2, <1>3 DEF AgreeOn

\* What cannot be connected to is refused alike where its key is collected
\* (devices.py), where it is connected to (enforce_compatibility_policy) and in
\* the terminal.
THEOREM RefusedAlikeAlways == Spec => []RefusedAlike
<1>1. Init => RefusedAlike
  <2> SUFFICES ASSUME Init, scene = "policy" PROVE RefusedAlike  BY DEF RefusedAlike
  <2>1. PICK mode \in Modes, sw \in Switches, ack \in Acks :
          input = [mode |-> mode, sw |-> sw, ack |-> ack]
    BY DEF Init
  <2>2. input.mode = mode /\ input.sw = sw /\ input.ack = ack  BY <2>1
  <2> QED  BY <2>2, PlacesAgree DEF RefusedAlike
<1>2. RefusedAlike /\ [Next]_vars => RefusedAlike'  BY InputIsKept DEF RefusedAlike
<1> QED  BY <1>1, <1>2, PTL DEF Spec

-----------------------------------------------------------------------------
(* Failures.                                                               *)

\* What the groups of markers stand for
MarkedCodes ==
  {"legacy_ssh_negotiation_failed", "device_host_key_changed", "device_host_key_unknown",
   "device_host_key_indeterminate", "device_connection_timeout", "configuration_error",
   "device_connection_refused", "device_name_resolution_failed", "device_connection_lost",
   "device_connection_failed"}

\* Whatever is found in a message, if anything is, stands for no refused login.
LEMMA MarkedIsNoLogin ==
  ASSUME NEW found \in SUBSET MarkerGroups
  PROVE  /\ found = {} => FirstMarked(found) = "device_authentication_failed"
         /\ found # {} => FirstMarked(found) \in MarkedCodes
<1> DEFINE hits == {i \in DOMAIN Markers : Markers[i][1] \in found}
<1>1. DOMAIN Markers = 1..10  BY DEF Markers
<1>2. \A i \in 1..10 : Markers[i][2] \in MarkedCodes
  <2> TAKE i \in 1..10
  <2>1. i \in {1, 2, 3, 4, 5, 6, 7, 8, 9, 10}  OBVIOUS
  <2>2. /\ Markers[1][2] \in MarkedCodes /\ Markers[2][2] \in MarkedCodes
        /\ Markers[3][2] \in MarkedCodes /\ Markers[4][2] \in MarkedCodes
        /\ Markers[5][2] \in MarkedCodes /\ Markers[6][2] \in MarkedCodes
        /\ Markers[7][2] \in MarkedCodes /\ Markers[8][2] \in MarkedCodes
        /\ Markers[9][2] \in MarkedCodes /\ Markers[10][2] \in MarkedCodes
    BY DEF Markers, MarkedCodes
  <2> QED  BY <2>1, <2>2
<1>3. CASE found = {}
  <2>1. hits = {}  BY <1>3
  <2> QED  BY <2>1, <1>3 DEF FirstMarked
<1>4. CASE found # {}
  <2>1. hits # {}  BY <1>4 DEF MarkerGroups
  <2>2. hits \subseteq 1..10 /\ hits \subseteq Nat  BY <1>1
  <2> DEFINE first == CHOOSE i \in hits : \A j \in hits : i <= j
  <2>3. \E i \in hits : \A j \in hits : i <= j
    <3> HIDE DEF hits
    <3> QED  BY <2>1, <2>2, LeastNatural
  <2>4. first \in hits
    <3> HIDE DEF hits
    <3> QED  BY <2>3
  <2>5. FirstMarked(found) = Markers[first][2]  BY <2>1 DEF FirstMarked
  <2> HIDE DEF first, hits
  <2> QED  BY <1>2, <1>4, <2>2, <2>4, <2>5
<1> QED  BY <1>3, <1>4

\* The phase translate_ssh_error gives a failure is authentication for a login
\* that was refused, and for nothing else.
LEMMA OnlyALoginCounts ==
  ASSUME NEW exc \in Caught, NEW phase \in DriverPhases
  PROVE  ReportOf(Translate(exc, phase)[2]) = "failed"
           <=> RefusedLogin(exc) /\ phase = "tcp_connection"
<1>1. phase \in {"tcp_connection", "terminal_io"}  BY DEF DriverPhases
<1>2. CASE exc.kind = "app"
  <2>1. exc.code \in AppCodes  BY <1>2 DEF Caught, ScrapliKinds
  <2>2. CASE exc.code = "device_authentication_failed"
    <3>1. RefusedLogin(exc)  BY <1>2, <2>2 DEF RefusedLogin
    <3>2. phase = "terminal_io" => Translate(exc, phase)[2] = "terminal_io"
      BY <2>2 DEF Translate
    <3>3. phase = "tcp_connection" => Translate(exc, phase)[2] = Phased(exc.code, phase)
      BY <1>2 DEF Translate
    <3>4. Phased(exc.code, phase) = "authentication"  BY <2>2 DEF Phased, PhaseOf
    <3> QED  BY <1>1, <3>1, <3>2, <3>3, <3>4 DEF ReportOf
  <2>3. CASE exc.code # "device_authentication_failed"
    <3>1. ~RefusedLogin(exc)  BY <1>2, <2>3 DEF RefusedLogin
    <3>2. \/ Translate(exc, phase)[2] = "terminal_io"
          \/ Translate(exc, phase)[2] = Phased(exc.code, phase)
      BY <1>1, <1>2 DEF Translate
    <3>3. Phased(exc.code, phase) # "authentication"
      BY <1>1, <2>1, <2>3 DEF AppCodes, ConnectionCodes, Phased, PhaseOf
    <3> QED  BY <3>1, <3>2, <3>3 DEF ReportOf
  <2> QED  BY <2>2, <2>3
<1>3. CASE exc.kind = "authentication"
  <2>1. exc.code = "" /\ exc.found \in SUBSET MarkerGroups  BY <1>3 DEF Caught
  <2>2. CASE exc.found = {}
    BY <1>1, <1>3, <2>1, <2>2, MarkedIsNoLogin
       DEF Translate, Phased, PhaseOf, ReportOf, RefusedLogin, ConnectionCodes
  <2>3. CASE exc.found # {}
    <3>1. FirstMarked(exc.found) \in MarkedCodes  BY <2>1, <2>3, MarkedIsNoLogin
    <3> QED
      BY <1>1, <1>3, <2>1, <2>3, <3>1
         DEF Translate, Phased, PhaseOf, ReportOf, RefusedLogin, ConnectionCodes, MarkedCodes
  <2> QED  BY <2>2, <2>3
<1>4. CASE exc.kind \in {"connection", "timeout", "value", "other"}
  <2>1. exc.code = ""  BY <1>4 DEF Caught
  <2> QED
    BY <1>1, <1>4, <2>1
       DEF Translate, Phased, PhaseOf, ReportOf, RefusedLogin, ConnectionCodes, DefaultCode
<1> QED  BY <1>2, <1>3, <1>4 DEF Caught, ScrapliKinds

\* Only a login that was refused for its password counts against the credential
\* (translate_ssh_error and what the gate is told of it).
THEOREM OnlyRefusedLoginsEverCount == Spec => []OnlyRefusedLoginsCount
<1>1. Init => OnlyRefusedLoginsCount
  <2> SUFFICES ASSUME Init, scene = "failure" PROVE OnlyRefusedLoginsCount
    BY DEF OnlyRefusedLoginsCount
  <2>1. PICK exc \in Caught, phase \in DriverPhases : input = [exc |-> exc, phase |-> phase]
    BY DEF Init
  <2>2. input.exc = exc /\ input.phase = phase  BY <2>1
  <2> QED  BY <2>2, OnlyALoginCounts DEF OnlyRefusedLoginsCount
<1>2. OnlyRefusedLoginsCount /\ [Next]_vars => OnlyRefusedLoginsCount'
  BY InputIsKept DEF OnlyRefusedLoginsCount
<1> QED  BY <1>1, <1>2, PTL DEF Spec

-----------------------------------------------------------------------------
(* Links.                                                                  *)

\* Of a device whose hostname no other analysed device has, what is filed under
\* the hostname is its own.
LEMMA OwnerIsTheDevice ==
  ASSUME NEW ds, DOMAIN ds \subseteq Nat, NEW d \in Included(ds),
         \A i \in Included(ds) : Hostname(ds[i].name) = Hostname(ds[d].name) => i = d
  PROVE  Owner(ds, Hostname(ds[d].name)) = d
<1> DEFINE node == Hostname(ds[d].name)
           owns(i) == /\ Hostname(ds[i].name) = node
                      /\ \A j \in Included(ds) : Hostname(ds[j].name) = node => j <= i
<1>1. d \in Nat  BY DEF Included
<1>2. owns(d)  BY <1>1
<1>3. \A i \in Included(ds) : owns(i) => i = d  OBVIOUS
<1>4. Owner(ds, node) = CHOOSE i \in Included(ds) : owns(i)  BY DEF Owner
<1> HIDE DEF owns, node
<1>5. (CHOOSE i \in Included(ds) : owns(i)) = d  BY <1>2, <1>3
<1> QED  BY <1>4, <1>5 DEF node

\* What some findings say that all say the same
LEMMA OneSaying ==
  ASSUME NEW D, NEW w, D # {}, \A f \in D : f.what = w
  PROVE  {f.what : f \in D} = {w}
OBVIOUS

\* In a network of any size, in which no hostname is taken twice: a record of a
\* neighbour, by whatever name that leads to it, is judged by the two ports, or
\* misses one it names in short.
LEMMA LinkIsJudged ==
  ASSUME NEW ds, DOMAIN ds \subseteq Nat,
         \A i, j \in Included(ds) : Hostname(ds[i].name) = Hostname(ds[j].name) => i = j,
         NEW of \in Included(ds), NEW far \in Included(ds), NEW name,
         Announced(name) = Hostname(ds[far].name),
         NEW short \in SUBSET {"near", "far"}
  PROVE  LET found == Findings(ds, {[of |-> of, name |-> name, short |-> short]})
         IN  /\ {f.what : f \in found} = IF short = {} THEN Disagree(ds[of].port, ds[far].port)
                                         ELSE {"unknown port"}
             /\ \A f \in found : f.device \in {of, far}
<1> DEFINE r == [of |-> of, name |-> name, short |-> short]
           e == [near |-> Hostname(ds[of].name), far |-> Announced(name), short |-> short]
           p == Spelled("near", ds[of].port, short)
           q == Spelled("far", ds[far].port, short)
           drift == Drift(ds, e)
           found == Findings(ds, {r})
<1>1. Edges(ds, {r}) = {e}
  <2>1. r.of = of /\ r.name = name /\ r.short = short  OBVIOUS
  <2>2. Announced(name) \in Nodes(ds)  BY DEF Nodes
  <2>3. {x \in {r} : x.of \in Included(ds) /\ Announced(x.name) \in Nodes(ds)} = {r}
    BY <2>1, <2>2
  <2> HIDE DEF r
  <2> QED  BY <2>1, <2>3 DEF Edges
<1>2. Owner(ds, e.near) = of /\ Owner(ds, e.far) = far
  <2>1. e.near = Hostname(ds[of].name) /\ e.far = Hostname(ds[far].name)  OBVIOUS
  <2> HIDE DEF e
  <2> QED  BY <2>1, OwnerIsTheDevice
<1>3. /\ {f.what : f \in drift} = Disagree(p, q)
      /\ \A f \in drift : f.at \in {e.near, e.far}
  <2>4. e.short = short  OBVIOUS
  <2> HIDE DEF e
  <2>5. /\ p = Spelled("near", ds[Owner(ds, e.near)].port, e.short)
        /\ q = Spelled("far", ds[Owner(ds, e.far)].port, e.short)
    BY <1>2, <2>4
  <2> HIDE DEF p, q
  <2>1. drift = (IF p.mode = "absent" THEN {[at |-> e.near, what |-> "unknown port"]} ELSE {})
                \cup (IF q.mode = "absent" THEN {[at |-> e.far, what |-> "unknown port"]} ELSE {})
                \cup (IF "absent" \in {p.mode, q.mode} THEN {}
                      ELSE IF p.mode # q.mode THEN {[at |-> e.near, what |-> "mode"]}
                      ELSE IF p.mode = "ACCESS" /\ 0 \notin {p.vlan, q.vlan} /\ p.vlan # q.vlan
                           THEN {[at |-> e.near, what |-> "vlan"]} ELSE {})
    BY <2>5 DEF Drift, Mode
  <2> HIDE DEF drift
  <2>2. CASE p.mode = "absent" \/ q.mode = "absent"
    <3>1. Disagree(p, q) = {"unknown port"}  BY <2>2 DEF Disagree
    <3>2. /\ drift # {}
          /\ \A f \in drift : f.what = "unknown port" /\ f.at \in {e.near, e.far}
      <4>1. drift = (IF p.mode = "absent"
                     THEN {[at |-> e.near, what |-> "unknown port"]} ELSE {})
                    \cup (IF q.mode = "absent"
                          THEN {[at |-> e.far, what |-> "unknown port"]} ELSE {})
        BY <2>1, <2>2
      <4>2. \A f \in drift : f = [at |-> e.near, what |-> "unknown port"]
                             \/ f = [at |-> e.far, what |-> "unknown port"]
        BY <4>1
      <4>3. drift # {}
        <5>1. CASE p.mode = "absent"  BY <5>1, <4>1
        <5>2. CASE q.mode = "absent"  BY <5>2, <4>1
        <5> QED  BY <2>2, <5>1, <5>2
      <4>4. ASSUME NEW f \in drift PROVE f.what = "unknown port" /\ f.at \in {e.near, e.far}
        <5>1. CASE f = [at |-> e.near, what |-> "unknown port"]  BY <5>1
        <5>2. CASE f = [at |-> e.far, what |-> "unknown port"]  BY <5>2
        <5> QED  BY <4>2, <5>1, <5>2
      <4> QED  BY <4>3, <4>4
    <3> QED  BY <3>1, <3>2, OneSaying
  <2>3. CASE p.mode # "absent" /\ q.mode # "absent"
    <3>1. drift = IF p.mode # q.mode THEN {[at |-> e.near, what |-> "mode"]}
                  ELSE IF p.mode = "ACCESS" /\ 0 \notin {p.vlan, q.vlan} /\ p.vlan # q.vlan
                       THEN {[at |-> e.near, what |-> "vlan"]} ELSE {}
      BY <2>1, <2>3
    <3>2. CASE p.mode # q.mode
      <4>1. drift = {[at |-> e.near, what |-> "mode"]} /\ Disagree(p, q) = {"mode"}
        BY <2>3, <3>1, <3>2 DEF Disagree
      <4>2. drift # {} /\ \A f \in drift : f.what = "mode" /\ f.at = e.near  BY <4>1
      <4> QED  BY <4>1, <4>2, OneSaying
    <3>3. CASE p.mode = q.mode /\ p.mode = "ACCESS" /\ 0 \notin {p.vlan, q.vlan} /\ p.vlan # q.vlan
      <4>1. drift = {[at |-> e.near, what |-> "vlan"]} /\ Disagree(p, q) = {"vlan"}
        BY <2>3, <3>1, <3>3 DEF Disagree
      <4>2. drift # {} /\ \A f \in drift : f.what = "vlan" /\ f.at = e.near  BY <4>1
      <4> QED  BY <4>1, <4>2, OneSaying
    <3>4. CASE p.mode = q.mode
               /\ ~(p.mode = "ACCESS" /\ 0 \notin {p.vlan, q.vlan} /\ p.vlan # q.vlan)
      <4>1. drift = {} /\ Disagree(p, q) = {}  BY <2>3, <3>1, <3>4 DEF Disagree
      <4> QED  BY <4>1
    <3> QED  BY <3>2, <3>3, <3>4
  <2> QED  BY <2>2, <2>3
<1>4. found = {[what |-> f.what, device |-> Owner(ds, f.at)] : f \in drift}
  <2>1. UNION {Drift(ds, x) : x \in {e}} = drift  OBVIOUS
  <2> HIDE DEF drift, r
  <2> QED  BY <1>1, <2>1 DEF Findings
<1> HIDE DEF drift, e, found
<1>5. {f.what : f \in found} = {f.what : f \in drift}
  <2>1. ASSUME NEW f \in drift PROVE \E g \in found : g.what = f.what
    <3>1. [what |-> f.what, device |-> Owner(ds, f.at)] \in found  BY <1>4
    <3> QED  BY <3>1
  <2>2. ASSUME NEW g \in found PROVE \E f \in drift : f.what = g.what  BY <1>4
  <2> QED  BY <2>1, <2>2
<1>6. \A f \in found : f.device \in {of, far}  BY <1>2, <1>3, <1>4
<1>7. Disagree(p, q) = IF short = {} THEN Disagree(ds[of].port, ds[far].port)
                      ELSE {"unknown port"}
  <2>1. CASE short = {}
    <3>1. p = ds[of].port /\ q = ds[far].port  BY <2>1 DEF Spelled
    <3> HIDE DEF p, q
    <3> QED  BY <2>1, <3>1
  <2>2. CASE short # {}
    <3>1. "near" \in short \/ "far" \in short  BY <2>2
    <3>2. p.mode = "absent" \/ q.mode = "absent"  BY <3>1 DEF Spelled
    <3> HIDE DEF p, q
    <3>3. Disagree(p, q) = {"unknown port"}  BY <3>2 DEF Disagree
    <3> QED  BY <2>2, <3>3
  <2> QED  BY <2>1, <2>2
<1> HIDE DEF p, q
<1> QED  BY <1>3, <1>5, <1>6, <1>7 DEF found

\* What is found of a link is what its two ports are, whichever end reported it
\* and however it announced the other, if it names both ports in full
\* (snapshot_builder.py and drift.py of the analysis).
THEOREM LinksAreAlwaysJudged == Spec => []LinksAreJudged
<1>1. Init => LinksAreJudged
  <2> SUFFICES ASSUME Init, scene = "link" PROVE LinksAreJudged  BY DEF LinksAreJudged
  <2>1. PICK p \in Ports, d \in AnyDevice, first \in BOOLEAN, of \in {1, 2} :
          LET c  == [Core EXCEPT !.port = p]
              ds == IF first THEN <<c, d>> ELSE <<d, c>>
          IN  \E short \in SUBSET {"near", "far"} : \E name \in Announcements(ds[3 - of]) :
                input = [ds |-> ds, of |-> of, name |-> name, short |-> short]
    BY DEF Init
  <2> DEFINE c  == [Core EXCEPT !.port = p]
             ds == IF first THEN <<c, d>> ELSE <<d, c>>
             far == 3 - of
  <2>2. PICK short \in SUBSET {"near", "far"}, name \in Announcements(ds[far]) :
          input = [ds |-> ds, of |-> of, name |-> name, short |-> short]
    BY <2>1
  <2>3. input.ds = ds /\ input.of = of /\ input.name = name /\ input.short = short  BY <2>2
  <2>4. /\ DOMAIN ds = {1, 2} /\ {of, far} = {1, 2} /\ far \in {1, 2}
        /\ ds[far].name \in Names
    <3>1. d.name \in Names /\ c.name \in Names  BY DEF AnyDevice, Core, Names
    <3>2. ds = <<c, d>> \/ ds = <<d, c>>  OBVIOUS
    <3>3. far \in {1, 2} /\ {of, far} = {1, 2}  OBVIOUS
    <3> HIDE DEF ds, far, c
    <3>4. DOMAIN ds = {1, 2} /\ ds[1].name \in Names /\ ds[2].name \in Names
      BY <3>1, <3>2
    <3> QED  BY <3>3, <3>4
  <2>5. ASSUME {of, far} \subseteq Included(ds),
               Hostname(ds[of].name) # Hostname(ds[far].name), ~ds[far].name.domain
        PROVE  Announced(name) = Hostname(ds[far].name)
    <3>1. name \in Names /\ name.stem = ds[far].name.stem  BY DEF Announcements
    <3> HIDE DEF ds, far
    <3> QED  BY <2>4, <2>5, <3>1 DEF Names, Announced, Hostname
  <2>6. JudgedByItsEnds(ds, [of |-> of, name |-> name, short |-> short], far)
    <3> HIDE DEF ds, far
    <3> DEFINE r == [of |-> of, name |-> name, short |-> short]
    <3>1. r.of = of /\ r.short = short  OBVIOUS
    <3>2. ASSUME {of, far} \subseteq Included(ds),
                 Hostname(ds[of].name) # Hostname(ds[far].name), ~ds[far].name.domain
          PROVE  /\ {f.what : f \in Findings(ds, {r})} =
                      IF short = {} THEN Disagree(ds[of].port, ds[far].port) ELSE {"unknown port"}
                 /\ \A f \in Findings(ds, {r}) : f.device \in {of, far}
      <4>1. \A i, j \in Included(ds) : Hostname(ds[i].name) = Hostname(ds[j].name) => i = j
        BY <2>4, <3>2 DEF Included
      <4>2. DOMAIN ds \subseteq Nat  BY <2>4
      <4>3. Announced(name) = Hostname(ds[far].name)  BY <2>5, <3>2
      <4> QED  BY <3>2, <4>1, <4>2, <4>3, LinkIsJudged
    <3> HIDE DEF r
    <3> QED  BY <3>1, <3>2 DEF JudgedByItsEnds, r
  <2> QED  BY <2>3, <2>6 DEF LinksAreJudged
<1>2. LinksAreJudged /\ [Next]_vars => LinksAreJudged'  BY InputIsKept DEF LinksAreJudged
<1> QED  BY <1>1, <1>2, PTL DEF Spec

-----------------------------------------------------------------------------
(* Batches of lines                                                        *)

\* No block is open at the beginning of a batch.
NoBlock == ""

\* A device whose lines are read in a block.
StateOf(d, block) == [dev |-> d, at |-> block, refused |-> FALSE]

\* f holds the states after 0..n of the lines.
Trace(dev, lines, n, f) ==
  f = [i \in 0..n |-> IF i = 0 THEN StateOf(dev, NoBlock) ELSE Do(f[i - 1], lines[i])]

\* There is such a function for every batch, by the least length that had none.
LEMMA TraceExists ==
  ASSUME NEW dev, NEW lines, NEW n \in Nat
  PROVE  \E f : Trace(dev, lines, n, f)
<1> DEFINE T == {m \in Nat : ~\E f : Trace(dev, lines, m, f)}
<1> SUFFICES ASSUME T # {} PROVE FALSE  OBVIOUS
<1>1. PICK m \in T : \A y \in T : m <= y
  <2>1. T # {} /\ T \subseteq Nat  OBVIOUS
  <2> HIDE DEF T
  <2> QED  BY <2>1, LeastNatural
<1>2. m \in Nat /\ ~\E f : Trace(dev, lines, m, f)  OBVIOUS
<1>3. m # 0
  <2> SUFFICES ASSUME m = 0 PROVE FALSE  OBVIOUS
  <2> DEFINE f == [i \in 0..0 |-> StateOf(dev, NoBlock)]
  <2>1. \A i \in 0..0 : f[i] = IF i = 0 THEN StateOf(dev, NoBlock) ELSE Do(f[i - 1], lines[i])
    OBVIOUS
  <2>2. Trace(dev, lines, 0, f)  BY <2>1 DEF Trace
  <2> QED  BY <2>2, <1>2
<1>4. m - 1 \in Nat /\ m - 1 < m  BY <1>2, <1>3
<1>5. m - 1 \notin T  BY <1>1, <1>4
<1>6. PICK g : Trace(dev, lines, m - 1, g)  BY <1>4, <1>5
<1> DEFINE h == [i \in 0..m |-> IF i = m THEN Do(g[m - 1], lines[m]) ELSE g[i]]
<1>7. Trace(dev, lines, m, h)
  <2>1. \A i \in 0..m : h[i] = IF i = 0 THEN StateOf(dev, NoBlock) ELSE Do(h[i - 1], lines[i])
    <3> TAKE i \in 0..m
    <3>1. i - 1 \in 0..(m - 1) \/ i = 0  BY <1>2
    <3>2. \A j \in 0..(m - 1) : h[j] = g[j]  BY <1>2
    <3>3. CASE i = m  BY <1>3, <1>2, <3>2, <3>3, <3>1
    <3>4. CASE i # m
      <4>1. i \in 0..(m - 1)  BY <3>4, <1>2
      <4> QED  BY <4>1, <3>1, <3>2, <1>6 DEF Trace
    <3> QED  BY <3>3, <3>4
  <2> QED  BY <2>1 DEF Trace
<1> QED  BY <1>2, <1>7

\* The states of a batch begin with the device and go on line by line.
LEMMA StatesAre ==
  ASSUME NEW dev, NEW lines, Len(lines) \in Nat
  PROVE  /\ States(dev, lines)[0] = StateOf(dev, NoBlock)
         /\ \A i \in 1..Len(lines) :
              States(dev, lines)[i] = Do(States(dev, lines)[i - 1], lines[i])
<1> DEFINE n == Len(lines)
           f == States(dev, lines)
<1>1. f = CHOOSE g : Trace(dev, lines, n, g)  BY DEF States, Trace, StateOf, NoBlock
<1>2. Trace(dev, lines, n, f)  BY <1>1, TraceExists
<1> HIDE DEF f, n
<1>3. n \in Nat  BY DEF n
<1>4. f[0] = StateOf(dev, NoBlock)
  <2>1. 0 \in 0..n  BY <1>3
  <2>2. \A i \in 0..n : f[i] = IF i = 0 THEN StateOf(dev, NoBlock) ELSE Do(f[i - 1], lines[i])
    BY <1>2 DEF Trace
  <2> QED  BY <2>1, <2>2
<1>5. ASSUME NEW i \in 1..n PROVE f[i] = Do(f[i - 1], lines[i])
  <2>1. i \in 0..n /\ i # 0  BY <1>3
  <2> QED  BY <1>2, <2>1 DEF Trace
<1> QED  BY <1>4, <1>5 DEF f, n

\* After the first lines of a batch a device is what it is in the middle of it.
LEMMA SentInPart ==
  ASSUME NEW dev, NEW lines, Len(lines) \in Nat, NEW k \in 0..Len(lines)
  PROVE  Sent(dev, SubSeq(lines, 1, k)) = States(dev, lines)[k].dev
<1> DEFINE part == SubSeq(lines, 1, k)
           f == States(dev, lines)
           g == States(dev, part)
           T == {i \in 0..k : f[i] # g[i]}
<1>1. Len(part) = k /\ \A i \in 1..k : part[i] = lines[i]  BY Len(lines) \in Nat
<1>2. /\ f[0] = StateOf(dev, NoBlock) /\ g[0] = StateOf(dev, NoBlock)
      /\ \A i \in 1..k : f[i] = Do(f[i - 1], lines[i]) /\ g[i] = Do(g[i - 1], lines[i])
  <2> HIDE DEF part
  <2>1. k \in Nat /\ \A i \in 1..k : i \in 1..Len(lines)  OBVIOUS
  <2>2. Len(part) \in Nat  BY <1>1, <2>1
  <2>3. f[0] = StateOf(dev, NoBlock) /\ \A i \in 1..k : f[i] = Do(f[i - 1], lines[i])
    BY <2>1, StatesAre
  <2>4. g[0] = StateOf(dev, NoBlock) /\ \A i \in 1..k : g[i] = Do(g[i - 1], part[i])
    BY <1>1, <2>2, StatesAre
  <2> HIDE DEF f, g
  <2> QED  BY <1>1, <2>3, <2>4
<1>3. T = {}
  <2> SUFFICES ASSUME T # {} PROVE FALSE  OBVIOUS
  <2>1. PICK m \in T : \A y \in T : m <= y
    <3>1. T # {} /\ T \subseteq Nat  OBVIOUS
    <3> HIDE DEF T
    <3> QED  BY <3>1, LeastNatural
  <2>2. m \in 0..k /\ f[m] # g[m]  OBVIOUS
  <2> HIDE DEF f, g
  <2>3. m # 0  BY <1>2, <2>2
  <2>4. m - 1 \in 0..k /\ m \in 1..k /\ m - 1 < m  BY <2>2, <2>3
  <2>5. f[m - 1] = g[m - 1]  BY <2>1, <2>4
  <2> QED  BY <1>2, <2>2, <2>4, <2>5
<1>4. f[k] = g[k]
  <2>1. k \in 0..k  OBVIOUS
  <2> HIDE DEF f, g
  <2> QED  BY <1>3, <2>1
<1> HIDE DEF f, g, part
<1> QED  BY <1>1, <1>4 DEF Sent, f, g, part

\* A whole batch is its longest part.
LEMMA SentWhole ==
  ASSUME NEW dev, NEW lines, Len(lines) \in Nat
  PROVE  Sent(dev, lines) = States(dev, lines)[Len(lines)].dev
BY DEF Sent

-----------------------------------------------------------------------------
(* Configurations of a device                                              *)

\* Any words; those of the instances are named, as the provers know of no literal
\* that it is a STRING.
Words ==
  STRING \cup {"", "sw", "renamed", "default", "users", "guests", "uplink",
               "static access", "trunk", "dynamic auto", "dynamic desirable", "private-vlan host",
               "ALL", "NONE", "dot1q", "negotiate", "lan", "wan", "distance 200",
               "rip", "ospf 1", "bgp 1", "network", "version", "1", "2",
               "neighbor", "peer", "remote-as", "description"}

VlanTables == UNION {[ids -> Words] : ids \in SUBSET (1..4094)}
ProcessTables == UNION {[names -> SUBSET Seq(Words \cup Nat)] : names \in SUBSET Words}
StaticRoutes == [prefix : Words, hop : Nat, options : Words]
SwitchPorts == [description : Words, shut : BOOLEAN, plugged : BOOLEAN, mode : Words,
                access : Nat, allowed : [word : Words, ids : SUBSET Nat], encapsulation : Words]
Configurations == [hostname : Words, lookup : BOOLEAN, vlans : VlanTables, port : SwitchPorts,
            routes : SUBSET StaticRoutes, processes : ProcessTables]

\* A device with one thing of it in another state.
WithHostname(d, v)  == [d EXCEPT !.hostname = v]
WithLookup(d, v)    == [d EXCEPT !.lookup = v]
WithPort(d, f, v)   == [d EXCEPT !.port[f] = v]
WithVlans(d, t)     == [d EXCEPT !.vlans = t]
WithRoutes(d, rs)   == [d EXCEPT !.routes = rs]
WithProcesses(d, t) == [d EXCEPT !.processes = t]

\* The tables and sets that the lines make of those that are there.
Created(t, v)      == Opened(t, v, "default")
Renamed(t, v, n)   == [t EXCEPT ![v] = n]
Dropped(t, v)      == Restrict(t, DOMAIN t \ {v})
Others(rs, r)      == {x \in rs : <<x.prefix, x.hop>> # <<r.prefix, r.hop>>}
Started(t, p)      == Opened(t, p, {})
Put(t, k, v)       == [Opened(t, k, v) EXCEPT ![k] = v]
Holding(t, p, x)   == [t EXCEPT ![p] = {y \in @ : ~(y[1] = "version" /\ x[1] = "version")}
                                         \cup {x}]
Lacking(t, p, x)   == [t EXCEPT ![p] = @ \ {x}]
Unversioned(t, p)  == [t EXCEPT ![p] = {y \in @ : y[1] # "version"}]
Without(t, p, peer) == [t EXCEPT ![p] = {y \in @ : ~(y[1] = "neighbor" /\ y[2] = peer)}]

\* What a line does, unless the device refuses it.
LEMMA PortLines ==
  ASSUME NEW d, NEW block, NEW v, NEW f,
         DOMAIN d.vlans # {} \/ f \in {"description", "shut"}
  PROVE  Do(StateOf(d, block), <<"set", f, v>>) = StateOf(WithPort(d, f, v), block)
BY DEF Do, StateOf, Refused, WithPort

\* What a line does that the device refuses, and one after it.
LEMMA RefusedLine ==
  ASSUME NEW d, NEW block, NEW f, NEW v, Refused(d, <<"set", f, v>>)
  PROVE  Do(StateOf(d, block), <<"set", f, v>>) = [dev |-> d, at |-> block, refused |-> TRUE]
BY DEF Do, StateOf, Refused

\* A line of the port that is not refused
LEMMA SetLine ==
  ASSUME NEW d, NEW block, NEW f, NEW v, ~Refused(d, <<"set", f, v>>)
  PROVE  Do(StateOf(d, block), <<"set", f, v>>) = StateOf(WithPort(d, f, v), block)
BY DEF Do, StateOf, WithPort, Refused

\* Nothing follows a line that is refused (stop_on_failed).
LEMMA AfterRefusal ==
  ASSUME NEW d, NEW block, NEW c
  PROVE  Do([dev |-> d, at |-> block, refused |-> TRUE], c) =
           [dev |-> d, at |-> block, refused |-> TRUE]
BY DEF Do

\* The line that opens the block of the port changes nothing.
LEMMA InterfaceLine ==
  ASSUME NEW d, NEW block
  PROVE  Do(StateOf(d, block), <<"interface">>) = StateOf(d, block)
BY DEF Do, StateOf, Refused

\* The name
LEMMA HostnameLine ==
  ASSUME NEW d, NEW block, NEW v
  PROVE  Do(StateOf(d, block), <<"hostname", v>>) = StateOf(WithHostname(d, v), block)
BY DEF Do, StateOf, Refused, WithHostname

\* Whether names are resolved
LEMMA LookupLine ==
  ASSUME NEW d, NEW block, NEW v
  PROVE  Do(StateOf(d, block), <<"lookup", v>>) = StateOf(WithLookup(d, v), block)
BY DEF Do, StateOf, Refused, WithLookup

\* A device without VLANs refuses what is said of them.
LEMMA NoVlans ==
  ASSUME NEW d, NEW block, NEW v, DOMAIN d.vlans = {}
  PROVE  /\ Do(StateOf(d, block), <<"vlan", v>>) = [dev |-> d, at |-> block, refused |-> TRUE]
         /\ Do(StateOf(d, block), <<"name", v>>) = [dev |-> d, at |-> block, refused |-> TRUE]
         /\ Do(StateOf(d, block), <<"no vlan", v>>) = [dev |-> d, at |-> block, refused |-> TRUE]
BY DEF Do, StateOf, Refused

\* A VLAN is opened.
LEMMA VlanLine ==
  ASSUME NEW d, NEW block, NEW v, DOMAIN d.vlans # {}
  PROVE  Do(StateOf(d, block), <<"vlan", v>>) = StateOf(WithVlans(d, Created(d.vlans, v)), v)
BY DEF Do, StateOf, Refused, WithVlans, Created

\* The name of the VLAN whose block is open
LEMMA NameLine ==
  ASSUME NEW d, NEW block, NEW v, DOMAIN d.vlans # {}
  PROVE  Do(StateOf(d, block), <<"name", v>>) = StateOf(WithVlans(d, Renamed(d.vlans, block, v)), block)
BY DEF Do, StateOf, Refused, WithVlans, Renamed

\* A VLAN is deleted.
LEMMA NoVlanLine ==
  ASSUME NEW d, NEW block, NEW v, DOMAIN d.vlans # {}
  PROVE  Do(StateOf(d, block), <<"no vlan", v>>) = StateOf(WithVlans(d, Dropped(d.vlans, v)), block)
BY DEF Do, StateOf, Refused, WithVlans, Dropped

\* A route is added, in the place of one of the same prefix and hop.
LEMMA RouteLine ==
  ASSUME NEW d, NEW block, NEW r
  PROVE  Do(StateOf(d, block), <<"route", r>>) = StateOf(WithRoutes(d, Others(d.routes, r) \cup {r}), block)
BY DEF Do, StateOf, Refused, WithRoutes, Others

\* A route is withdrawn.
LEMMA NoRouteLine ==
  ASSUME NEW d, NEW block, NEW r
  PROVE  Do(StateOf(d, block), <<"no route", r>>) = StateOf(WithRoutes(d, Others(d.routes, r)), block)
BY DEF Do, StateOf, Refused, WithRoutes, Others

\* A process is opened.
LEMMA RouterLine ==
  ASSUME NEW d, NEW block, NEW p
  PROVE  Do(StateOf(d, block), <<"router", p>>) = StateOf(WithProcesses(d, Started(d.processes, p)), p)
BY DEF Do, StateOf, Refused, WithProcesses, Started

\* A process is taken away with its statements.
LEMMA NoRouterLine ==
  ASSUME NEW d, NEW block, NEW p
  PROVE  Do(StateOf(d, block), <<"no router", p>>) = StateOf(WithProcesses(d, Dropped(d.processes, p)), block)
BY DEF Do, StateOf, Refused, WithProcesses, Dropped

\* RIP has no version line any more.
LEMMA NoVersionLine ==
  ASSUME NEW d, NEW block
  PROVE  Do(StateOf(d, block), <<"no version">>) = StateOf(WithProcesses(d, Unversioned(d.processes, block)), block)
BY DEF Do, StateOf, Refused, WithProcesses, Unversioned

\* A peer is forgotten with all that is configured of it.
LEMMA NoNeighborLine ==
  ASSUME NEW d, NEW block, NEW p
  PROVE  Do(StateOf(d, block), <<"no neighbor", p>>) = StateOf(WithProcesses(d, Without(d.processes, block, p)), block)
BY DEF Do, StateOf, Refused, WithProcesses, Without

\* A statement is added; there is one version line.
LEMMA AddLine ==
  ASSUME NEW d, NEW block, NEW x
  PROVE  Do(StateOf(d, block), <<"add", x>>) = StateOf(WithProcesses(d, Holding(d.processes, block, x)), block)
BY DEF Do, StateOf, Refused, WithProcesses, Holding

\* A statement is removed.
LEMMA RemoveLine ==
  ASSUME NEW d, NEW block, NEW x
  PROVE  Do(StateOf(d, block), <<"remove", x>>) = StateOf(WithProcesses(d, Lacking(d.processes, block, x)), block)
BY DEF Do, StateOf, Refused, WithProcesses, Lacking

\* What is left of the rest of a device, and what is in the changed place.
LEMMA FieldsAre ==
  ASSUME NEW d \in Configurations, NEW v, NEW w
  PROVE  /\ WithHostname(d, v).hostname = v /\ WithHostname(WithHostname(d, v), w) = WithHostname(d, w)
         /\ WithHostname(d, d.hostname) = d
         /\ WithLookup(d, v).lookup = v /\ WithLookup(WithLookup(d, v), w) = WithLookup(d, w)
         /\ WithLookup(d, d.lookup) = d
         /\ WithVlans(d, v).vlans = v /\ WithVlans(WithVlans(d, v), w) = WithVlans(d, w)
         /\ WithVlans(d, d.vlans) = d
         /\ WithRoutes(d, v).routes = v /\ WithRoutes(WithRoutes(d, v), w) = WithRoutes(d, w)
         /\ WithRoutes(d, d.routes) = d
         /\ WithProcesses(d, v).processes = v
         /\ WithProcesses(WithProcesses(d, v), w) = WithProcesses(d, w)
         /\ WithProcesses(d, d.processes) = d
<1>1. /\ WithHostname(d, v).hostname = v /\ WithHostname(WithHostname(d, v), w) = WithHostname(d, w)
      /\ WithHostname(d, d.hostname) = d
  BY DEF WithHostname, Configurations
<1>2. /\ WithLookup(d, v).lookup = v /\ WithLookup(WithLookup(d, v), w) = WithLookup(d, w)
      /\ WithLookup(d, d.lookup) = d
  BY DEF WithLookup, Configurations
<1>3. /\ WithVlans(d, v).vlans = v /\ WithVlans(WithVlans(d, v), w) = WithVlans(d, w)
      /\ WithVlans(d, d.vlans) = d
  BY DEF WithVlans, Configurations
<1>4. /\ WithRoutes(d, v).routes = v /\ WithRoutes(WithRoutes(d, v), w) = WithRoutes(d, w)
      /\ WithRoutes(d, d.routes) = d
  BY DEF WithRoutes, Configurations
<1>5. /\ WithProcesses(d, v).processes = v
      /\ WithProcesses(WithProcesses(d, v), w) = WithProcesses(d, w)
      /\ WithProcesses(d, d.processes) = d
  BY DEF WithProcesses, Configurations
<1> QED  BY <1>1, <1>2, <1>3, <1>4, <1>5

\* What the lines of a batch do one after the other, part by part: up to four
\* lines, as the longest batch of a change has.
LEMMA Batch ==
  ASSUME NEW dev, NEW lines, Len(lines) \in 1..5
  PROVE  LET f == States(dev, lines)
         IN  /\ f[0] = StateOf(dev, NoBlock) /\ f[1] = Do(f[0], lines[1])
             /\ Len(lines) > 1 => f[2] = Do(f[1], lines[2])
             /\ Len(lines) > 2 => f[3] = Do(f[2], lines[3])
             /\ Len(lines) > 3 => f[4] = Do(f[3], lines[4])
             /\ Len(lines) > 4 => f[5] = Do(f[4], lines[5])
             /\ Sent(dev, lines) = f[Len(lines)].dev
             /\ \A k \in 0..Len(lines) : Sent(dev, SubSeq(lines, 1, k)) = f[k].dev
<1> DEFINE f == States(dev, lines)
<1>1. Len(lines) \in Nat  OBVIOUS
<1>2. f[0] = StateOf(dev, NoBlock) /\ \A i \in 1..Len(lines) : f[i] = Do(f[i - 1], lines[i])
  BY <1>1, StatesAre
<1>3. Sent(dev, lines) = f[Len(lines)].dev  BY <1>1, SentWhole
<1>4. \A k \in 0..Len(lines) : Sent(dev, SubSeq(lines, 1, k)) = f[k].dev  BY <1>1, SentInPart
<1> HIDE DEF f
<1> DEFINE n == Len(lines)
<1>5. /\ n \in Nat /\ 1 \in 1..n /\ (n > 1 => 2 \in 1..n) /\ (n > 2 => 3 \in 1..n)
      /\ (n > 3 => 4 \in 1..n) /\ (n > 4 => 5 \in 1..n)
  OBVIOUS
<1> HIDE DEF n
<1>6. \A i \in 1..n : f[i] = Do(f[i - 1], lines[i])  BY <1>2 DEF n
<1>7. /\ f[1] = Do(f[1 - 1], lines[1])
      /\ n > 1 => f[2] = Do(f[2 - 1], lines[2])
      /\ n > 2 => f[3] = Do(f[3 - 1], lines[3])
      /\ n > 3 => f[4] = Do(f[4 - 1], lines[4])
      /\ n > 4 => f[5] = Do(f[5 - 1], lines[5])
  BY <1>5, <1>6
<1>8. /\ f[1] = Do(f[0], lines[1])
      /\ n > 1 => f[2] = Do(f[1], lines[2])
      /\ n > 2 => f[3] = Do(f[2], lines[3])
      /\ n > 3 => f[4] = Do(f[3], lines[4])
      /\ n > 4 => f[5] = Do(f[4], lines[5])
  BY <1>7
<1> QED  BY <1>2, <1>3, <1>4, <1>8 DEF f, n

\* The device of a state.
LEMMA AtIs == ASSUME NEW d, NEW block PROVE StateOf(d, block).dev = d
BY DEF StateOf

\* One line
LEMMA OneLine ==
  ASSUME NEW dev, NEW a
  PROVE  /\ Len(<<a>>) = 1
         /\ Sent(dev, <<a>>) = Do(StateOf(dev, NoBlock), a).dev
         /\ Sent(dev, SubSeq(<<a>>, 1, 0)) = dev
         /\ Sent(dev, SubSeq(<<a>>, 1, 1)) = Do(StateOf(dev, NoBlock), a).dev
<1> DEFINE lines == <<a>>
           f == States(dev, lines)
<1>1. Len(lines) = 1 /\ Len(lines) \in 1..5 /\ lines[1] = a  OBVIOUS
<1> HIDE DEF lines
<1>2. /\ f[0] = StateOf(dev, NoBlock) /\ f[1] = Do(f[0], lines[1]) /\ Sent(dev, lines) = f[Len(lines)].dev
      /\ \A k \in 0..Len(lines) : Sent(dev, SubSeq(lines, 1, k)) = f[k].dev
  BY <1>1, Batch
<1> HIDE DEF f
<1>3. f[0].dev = dev  BY <1>2, AtIs
<1>4. 0 \in 0..Len(lines) /\ 1 \in 0..Len(lines)  BY <1>1
<1> QED  BY <1>1, <1>2, <1>3, <1>4 DEF lines

\* Two lines
LEMMA TwoLines ==
  ASSUME NEW dev, NEW a, NEW b
  PROVE  /\ Len(<<a, b>>) = 2
         /\ Sent(dev, <<a, b>>) = Do(Do(StateOf(dev, NoBlock), a), b).dev
         /\ Sent(dev, SubSeq(<<a, b>>, 1, 0)) = dev
         /\ Sent(dev, SubSeq(<<a, b>>, 1, 1)) = Do(StateOf(dev, NoBlock), a).dev
         /\ Sent(dev, SubSeq(<<a, b>>, 1, 2)) = Do(Do(StateOf(dev, NoBlock), a), b).dev
<1> DEFINE lines == <<a, b>>
           f == States(dev, lines)
<1>1. Len(lines) = 2 /\ Len(lines) \in 1..5 /\ Len(lines) > 1 /\ lines[1] = a /\ lines[2] = b
  OBVIOUS
<1> HIDE DEF lines
<1>2. /\ f[0] = StateOf(dev, NoBlock) /\ f[1] = Do(f[0], lines[1]) /\ f[2] = Do(f[1], lines[2])
      /\ Sent(dev, lines) = f[Len(lines)].dev
      /\ \A k \in 0..Len(lines) : Sent(dev, SubSeq(lines, 1, k)) = f[k].dev
  BY <1>1, Batch, ZenonT(40)
<1> HIDE DEF f
<1>3. f[0].dev = dev  BY <1>2, AtIs
<1>4. 0 \in 0..Len(lines) /\ 1 \in 0..Len(lines) /\ 2 \in 0..Len(lines)  BY <1>1
<1> QED  BY <1>1, <1>2, <1>3, <1>4 DEF lines

\* Three lines
LEMMA ThreeLines ==
  ASSUME NEW dev, NEW a, NEW b, NEW c
  PROVE  /\ Len(<<a, b, c>>) = 3
         /\ Sent(dev, <<a, b, c>>) = Do(Do(Do(StateOf(dev, NoBlock), a), b), c).dev
         /\ Sent(dev, SubSeq(<<a, b, c>>, 1, 0)) = dev
         /\ Sent(dev, SubSeq(<<a, b, c>>, 1, 1)) = Do(StateOf(dev, NoBlock), a).dev
         /\ Sent(dev, SubSeq(<<a, b, c>>, 1, 2)) = Do(Do(StateOf(dev, NoBlock), a), b).dev
         /\ Sent(dev, SubSeq(<<a, b, c>>, 1, 3)) = Do(Do(Do(StateOf(dev, NoBlock), a), b), c).dev
<1> DEFINE lines == <<a, b, c>>
           f == States(dev, lines)
<1>1. /\ Len(lines) = 3 /\ Len(lines) \in 1..5 /\ Len(lines) > 1 /\ Len(lines) > 2
      /\ lines[1] = a /\ lines[2] = b /\ lines[3] = c
  OBVIOUS
<1> HIDE DEF lines
<1>2. /\ f[0] = StateOf(dev, NoBlock) /\ f[1] = Do(f[0], lines[1]) /\ f[2] = Do(f[1], lines[2])
      /\ f[3] = Do(f[2], lines[3])
      /\ Sent(dev, lines) = f[Len(lines)].dev
      /\ \A k \in 0..Len(lines) : Sent(dev, SubSeq(lines, 1, k)) = f[k].dev
  BY <1>1, Batch, ZenonT(40)
<1> HIDE DEF f
<1>3. f[0].dev = dev  BY <1>2, AtIs
<1>4. 0 \in 0..Len(lines) /\ 1 \in 0..Len(lines) /\ 2 \in 0..Len(lines) /\ 3 \in 0..Len(lines)
  BY <1>1
<1> QED  BY <1>1, <1>2, <1>3, <1>4 DEF lines

\* Four lines
LEMMA FourLines ==
  ASSUME NEW dev, NEW a, NEW b, NEW c, NEW e
  PROVE  /\ Len(<<a, b, c, e>>) = 4
         /\ Sent(dev, SubSeq(<<a, b, c, e>>, 1, 4)) = Do(Do(Do(Do(StateOf(dev, NoBlock), a), b), c), e).dev
<1> DEFINE lines == <<a, b, c, e>>
           f == States(dev, lines)
<1>1. /\ Len(lines) = 4 /\ Len(lines) \in 1..5 /\ Len(lines) > 1 /\ Len(lines) > 2
      /\ Len(lines) > 3
      /\ lines[1] = a /\ lines[2] = b /\ lines[3] = c /\ lines[4] = e
  OBVIOUS
<1> HIDE DEF lines
<1>2. /\ f[0] = StateOf(dev, NoBlock) /\ f[1] = Do(f[0], lines[1]) /\ f[2] = Do(f[1], lines[2])
      /\ f[3] = Do(f[2], lines[3]) /\ f[4] = Do(f[3], lines[4])
      /\ \A k \in 0..Len(lines) : Sent(dev, SubSeq(lines, 1, k)) = f[k].dev
  BY <1>1, Batch
<1> HIDE DEF f
<1>4. 4 \in 0..Len(lines)  BY <1>1
<1> QED  BY <1>1, <1>2, <1>4 DEF lines

-----------------------------------------------------------------------------
(* Changes: the global settings and single fields of the port              *)

\* What is left to show of a change once its lines are known.
LEMMA WholeOrNothing ==
  ASSUME NEW s, NEW d, NEW k, NEW lines, NEW inverse,
         Render(s, Context(s.type, d)) = Rendered(lines, inverse),
         NEW after, after = Sent(d, SubSeq(lines, 1, k)),
         k = Len(lines) /\ ~NotFound(s, d) /\ ~ForgetsThePeer(s, d) =>
           after = Asked(s, d) /\ PostCheck(s, Context(s.type, after)),
         ~NotPutBack(s, d) /\ ~ForgetsThePeer(s, d) => Sent(after, inverse) = d,
         k = Len(lines) /\ NotFound(s, d) /\ ~NotPutBack(s, d) /\ ~ForgetsThePeer(s, d)  =>
           ~PostCheck(s, Context(s.type, after)) \/ after = d
  PROVE  AllOrNothing(s, d, d, k)
<1> DEFINE r == Render(s, Context(s.type, d))
<1>1. r.lines = lines /\ r.inverse = inverse  BY DEF Rendered
<1> HIDE DEF r
<1>2. Applied(s, d, d, k) = IF k = Len(lines) /\ PostCheck(s, Context(s.type, after)) THEN after
                            ELSE Sent(after, inverse)
  BY <1>1 DEF Applied, r
<1> QED  BY <1>1, <1>2 DEF AllOrNothing, r

\* A change of the name (render_change of "hostname" and its inverse).
LEMMA HostnameWhole ==
  ASSUME NEW s, s.type = "hostname", NEW d \in Configurations, NEW k \in 0..1
  PROVE  AllOrNothing(s, d, d, k)
<1> DEFINE lines   == << <<"hostname", s.value>> >>
           inverse == << <<"hostname", d.hostname>> >>
           after   == Sent(d, SubSeq(lines, 1, k))
<1>1. \A e : Context("hostname", e).hostname = e.hostname
  BY DEF Context, Needed, Facts, OnInterface, OnProcess
<1>2. Render(s, Context(s.type, d)) = Rendered(lines, inverse)
  BY <1>1 DEF Render, RenderHostname
<1>3. Len(lines) = 1 /\ k \in {0, 1}  OBVIOUS
<1>4. after = IF k = 0 THEN d ELSE WithHostname(d, s.value)
  <2>1. Do(StateOf(d, NoBlock), <<"hostname", s.value>>).dev = WithHostname(d, s.value)
    BY HostnameLine, AtIs
  <2>2. k = 0 => after = d  BY OneLine
  <2>3. k = 1 => after = Do(StateOf(d, NoBlock), <<"hostname", s.value>>).dev  BY OneLine
  <2> QED  BY <1>3, <2>1, <2>2, <2>3
<1>5. \A e : Sent(e, inverse) = WithHostname(e, d.hostname)
  <2> TAKE e
  <2>1. Do(StateOf(e, NoBlock), <<"hostname", d.hostname>>).dev = WithHostname(e, d.hostname)
    BY HostnameLine, AtIs
  <2> QED  BY <2>1, OneLine
<1> HIDE DEF lines, inverse, after
<1>6. Sent(after, inverse) = d  BY <1>4, <1>5, FieldsAre
<1>7. k = 1 => after = Asked(s, d) /\ PostCheck(s, Context(s.type, after))
  <2>1. Asked(s, d) = WithHostname(d, s.value)  BY DEF Asked, WithHostname
  <2>2. k = 1 => after.hostname = s.value  BY <1>4, FieldsAre
  <2> QED  BY <1>1, <1>4, <2>1, <2>2 DEF PostCheck
<1>8. ~NotFound(s, d)  BY DEF NotFound
<1> QED  BY <1>2, <1>3, <1>6, <1>7, <1>8, WholeOrNothing DEF after

\* A change of domain lookup.
LEMMA LookupWhole ==
  ASSUME NEW s, s.type = "domain_lookup", NEW d \in Configurations, NEW k \in 0..1
  PROVE  AllOrNothing(s, d, d, k)
<1> DEFINE on == s.value = "on"
           lines   == << <<"lookup", on>> >>
           inverse == << <<"lookup", d.lookup>> >>
           after   == Sent(d, SubSeq(lines, 1, k))
<1>1. \A e : Context("domain_lookup", e).lookup = e.lookup
  BY DEF Context, Needed, Facts, OnInterface, OnProcess
<1>2. Render(s, Context(s.type, d)) = Rendered(lines, inverse)
  BY <1>1 DEF Render, RenderLookup
<1>a. Asked(s, d) = WithLookup(d, on)  BY DEF Asked, WithLookup
<1> HIDE DEF on
<1>3. Len(lines) = 1 /\ k \in {0, 1}  OBVIOUS
<1>4. after = IF k = 0 THEN d ELSE WithLookup(d, on)
  <2>1. Do(StateOf(d, NoBlock), <<"lookup", on>>).dev = WithLookup(d, on)
    BY LookupLine, AtIs
  <2>2. k = 0 => after = d  BY OneLine
  <2>3. k = 1 => after = Do(StateOf(d, NoBlock), <<"lookup", on>>).dev  BY OneLine
  <2> QED  BY <1>3, <2>1, <2>2, <2>3
<1>5. \A e : Sent(e, inverse) = WithLookup(e, d.lookup)
  <2> TAKE e
  <2>1. Do(StateOf(e, NoBlock), <<"lookup", d.lookup>>).dev = WithLookup(e, d.lookup)
    BY LookupLine, AtIs
  <2> QED  BY <2>1, OneLine
<1> HIDE DEF lines, inverse, after
<1>6. Sent(after, inverse) = d  BY <1>4, <1>5, FieldsAre
<1>7. k = 1 => after = Asked(s, d) /\ PostCheck(s, Context(s.type, after))
  <2>2. k = 1 => after.lookup = on  BY <1>4, FieldsAre
  <2> QED  BY <1>1, <1>4, <1>a, <2>2 DEF PostCheck, on
<1>8. ~NotFound(s, d)  BY DEF NotFound
<1> QED  BY <1>2, <1>3, <1>6, <1>7, <1>8, WholeOrNothing DEF after

\* The lines of a port's field, in the block of the port.
LEMMA OnThePort ==
  ASSUME NEW d, NEW f, NEW v, DOMAIN d.vlans # {} \/ f \in {"description", "shut"}
  PROVE  /\ Len(<<Port, <<"set", f, v>>>>) = 2
         /\ Sent(d, <<Port, <<"set", f, v>>>>) = WithPort(d, f, v)
         /\ Sent(d, SubSeq(<<Port, <<"set", f, v>>>>, 1, 0)) = d
         /\ Sent(d, SubSeq(<<Port, <<"set", f, v>>>>, 1, 1)) = d
         /\ Sent(d, SubSeq(<<Port, <<"set", f, v>>>>, 1, 2)) = WithPort(d, f, v)
<1>1. Do(StateOf(d, NoBlock), Port) = StateOf(d, NoBlock)  BY InterfaceLine DEF Port
<1>2. Do(StateOf(d, NoBlock), <<"set", f, v>>) = StateOf(WithPort(d, f, v), NoBlock)  BY PortLines
<1>3. StateOf(d, NoBlock).dev = d /\ StateOf(WithPort(d, f, v), NoBlock).dev = WithPort(d, f, v)  BY AtIs
<1> DEFINE c == <<"set", f, v>>
<1> HIDE DEF c
<1>4. /\ Len(<<Port, c>>) = 2
      /\ Sent(d, <<Port, c>>) = WithPort(d, f, v)
      /\ Sent(d, SubSeq(<<Port, c>>, 1, 0)) = d
      /\ Sent(d, SubSeq(<<Port, c>>, 1, 1)) = d
      /\ Sent(d, SubSeq(<<Port, c>>, 1, 2)) = WithPort(d, f, v)
  BY <1>1, <1>2, <1>3, TwoLines DEF c
<1> QED  BY <1>4 DEF c

\* A change of the description of a port.
LEMMA DescriptionWhole ==
  ASSUME NEW s, s.type = "interface_description", NEW d \in Configurations, NEW k \in 0..2
  PROVE  AllOrNothing(s, d, d, k)
<1> DEFINE lines   == <<Port, <<"set", "description", s.value>>>>
           inverse == <<Port, <<"set", "description", d.port.description>>>>
           after   == Sent(d, SubSeq(lines, 1, k))
<1>1. \A e : Context("interface_description", e).interface.description = e.port.description
  BY DEF Context, Needed, Facts, OnInterface, OnProcess, InterfaceFacts
<1>2. Render(s, Context(s.type, d)) = Rendered(lines, inverse)
  BY <1>1 DEF Render, RenderDescription
<1>3. Len(lines) = 2 /\ k \in {0, 1, 2}  OBVIOUS
<1>4. after = IF k = 2 THEN WithPort(d, "description", s.value) ELSE d
  BY <1>3, OnThePort
<1>5. \A e : Sent(e, inverse) = WithPort(e, "description", d.port.description)
  BY OnThePort
<1>6. Asked(s, d) = WithPort(d, "description", s.value)  BY DEF Asked, WithPort
<1>7. /\ WithPort(d, "description", s.value).port.description = s.value
      /\ WithPort(WithPort(d, "description", s.value), "description", d.port.description) = d
      /\ WithPort(d, "description", d.port.description) = d
  BY DEF WithPort, Configurations, SwitchPorts
<1> HIDE DEF lines, inverse, after
<1>8. Sent(after, inverse) = d  BY <1>4, <1>5, <1>7
<1>9. k = 2 => after = Asked(s, d) /\ PostCheck(s, Context(s.type, after))
  BY <1>1, <1>4, <1>6, <1>7 DEF PostCheck
<1>10. ~NotFound(s, d)  BY DEF NotFound
<1> QED  BY <1>2, <1>3, <1>8, <1>9, <1>10, WholeOrNothing DEF after

\* A port is shut or opened; undone, it is what it was read to be.
LEMMA AdminStateWhole ==
  ASSUME NEW s, s.type = "interface_admin_state", s.value \in {"up", "down"},
         NEW d \in Configurations, NEW k \in 0..2
  PROVE  AllOrNothing(s, d, d, k)
<1> DEFINE v == s.value # "up"
           w == ~Context(s.type, d).interface.adminUp
           lines   == <<Port, <<"set", "shut", v>>>>
           inverse == <<Port, <<"set", "shut", w>>>>
           after   == Sent(d, SubSeq(lines, 1, k))
<1>1. \A e : Context("interface_admin_state", e).interface.adminUp = (~e.port.shut /\ e.port.plugged)
  BY DEF Context, Needed, Facts, OnInterface, OnProcess, InterfaceFacts
<1>2. Render(s, Context(s.type, d)) = Rendered(lines, inverse)
  BY DEF Render, RenderAdminState
<1>6. Asked(s, d) = WithPort(d, "shut", v)  BY DEF Asked, WithPort
<1>w. ~NotPutBack(s, d) => w = d.port.shut
  BY <1>1 DEF NotPutBack, Configurations, SwitchPorts
<1>v. v \in BOOLEAN /\ w \in BOOLEAN /\ (v <=> s.value = "down")  BY <1>1
<1>p. d.port.plugged \in BOOLEAN /\ d.port.shut \in BOOLEAN  BY DEF Configurations, SwitchPorts
<1> HIDE DEF v, w
<1>3. Len(lines) = 2 /\ k \in {0, 1, 2}  OBVIOUS
<1>4. after = IF k = 2 THEN WithPort(d, "shut", v) ELSE d
  BY <1>3, OnThePort
<1>5. \A e : Sent(e, inverse) = WithPort(e, "shut", w)
  BY OnThePort
<1>7. /\ WithPort(d, "shut", v).port.shut = v
      /\ WithPort(d, "shut", v).port.plugged = d.port.plugged
      /\ WithPort(WithPort(d, "shut", v), "shut", d.port.shut) = d
      /\ WithPort(d, "shut", d.port.shut) = d
  BY DEF WithPort, Configurations, SwitchPorts
<1> HIDE DEF lines, inverse, after
<1>8. ~NotPutBack(s, d) => Sent(after, inverse) = d  BY <1>4, <1>5, <1>7, <1>w
<1>9. k = 2 => /\ after = Asked(s, d)
               /\ ~NotFound(s, d) => PostCheck(s, Context(s.type, after))
               /\ NotFound(s, d) => ~PostCheck(s, Context(s.type, after))
  <2> SUFFICES ASSUME k = 2 PROVE after = Asked(s, d) /\ (PostCheck(s, Context(s.type, after)) <=> ~NotFound(s, d))
    OBVIOUS
  <2>1. Context(s.type, after).interface.adminUp = (~v /\ d.port.plugged)
    BY <1>1, <1>4, <1>7
  <2>2. NotFound(s, d) <=> s.value = "up" /\ ~d.port.plugged  BY DEF NotFound
  <2>3. PostCheck(s, Context(s.type, after)) <=> ((~v /\ d.port.plugged) = (s.value = "up"))
    BY <2>1 DEF PostCheck
  <2> QED  BY <1>4, <1>6, <2>2, <2>3, <1>v, <1>p
<1> QED  BY <1>2, <1>3, <1>8, <1>9, WholeOrNothing DEF after

-----------------------------------------------------------------------------
(* Changes of the VLAN database                                            *)

\* What becomes of a table of VLANs.
LEMMA TablesAre ==
  ASSUME NEW T, T = [x \in DOMAIN T |-> T[x]], NEW t, NEW v, NEW fresh
  PROVE  /\ [Opened(T, t, fresh) EXCEPT ![t] = v] = Put(T, t, v)
         /\ t \in DOMAIN T => /\ Opened(T, t, fresh) = T
                              /\ Put(T, t, T[t]) = T
                              /\ Put(Put(T, t, v), t, T[t]) = T
         /\ t \notin DOMAIN T => /\ Dropped(T, t) = T
                                 /\ Dropped(Opened(T, t, fresh), t) = T
                                 /\ Dropped(Put(T, t, v), t) = T
         /\ t \in DOMAIN Put(T, t, v)
         /\ Put(T, t, v)[t] = v
         /\ Put(T, t, v) = [x \in DOMAIN Put(T, t, v) |-> Put(T, t, v)[x]]
<1> DEFINE U == Opened(T, t, fresh)
           W == Put(T, t, v)
<1>1. U = [x \in DOMAIN T \cup {t} |-> IF x \in DOMAIN T THEN T[x] ELSE fresh]
  BY DEF Opened
<1>2. W = [x \in DOMAIN T \cup {t} |-> IF x = t THEN v ELSE T[x]]
  BY DEF Opened, Put
<1> HIDE DEF U, W
<1>3. [U EXCEPT ![t] = v] = W  BY <1>1, <1>2
<1>4. ASSUME t \in DOMAIN T
      PROVE  U = T /\ Put(T, t, T[t]) = T /\ Put(W, t, T[t]) = T
  <2>1. DOMAIN T \cup {t} = DOMAIN T  BY <1>4
  <2>2. U = T  BY <1>1, <1>4, <2>1
  <2>3. Put(T, t, T[t]) = T  BY <1>4, <2>1 DEF Put, Opened
  <2>4. W = [x \in DOMAIN T |-> IF x = t THEN v ELSE T[x]]  BY <1>2, <2>1
  <2>5. Put(W, t, T[t]) = T  BY <1>4, <2>1, <2>4 DEF Put, Opened
  <2> QED  BY <2>2, <2>3, <2>5
<1>5. ASSUME t \notin DOMAIN T
      PROVE  Dropped(T, t) = T /\ Dropped(U, t) = T /\ Dropped(W, t) = T
  <2>1. Dropped(T, t) = T  BY <1>5 DEF Dropped, Restrict
  <2>3. DOMAIN U \ {t} = DOMAIN T /\ DOMAIN W \ {t} = DOMAIN T  BY <1>1, <1>2, <1>5
  <2>4. \A x \in DOMAIN T : U[x] = T[x] /\ W[x] = T[x]  BY <1>1, <1>2, <1>5
  <2>5. Dropped(U, t) = T /\ Dropped(W, t) = T  BY <2>3, <2>4 DEF Dropped, Restrict
  <2> QED  BY <2>1, <2>5
<1>6. t \in DOMAIN W /\ W[t] = v /\ W = [x \in DOMAIN W |-> W[x]]  BY <1>2
<1> QED  BY <1>3, <1>4, <1>5, <1>6 DEF U, W

\* A table whose entry is opened and filled
LEMMA RenamedIs ==
  ASSUME NEW T, T = [x \in DOMAIN T |-> T[x]], NEW t, NEW v
  PROVE  /\ Renamed(Created(T, t), t, v) = Put(T, t, v)
         /\ t \in DOMAIN T => Created(T, t) = T
         /\ t \notin DOMAIN T => Dropped(Created(T, t), t) = T
<1>1. \A fresh : /\ [Opened(T, t, fresh) EXCEPT ![t] = v] = Put(T, t, v)
                 /\ t \in DOMAIN T => Opened(T, t, fresh) = T
                 /\ t \notin DOMAIN T => Dropped(Opened(T, t, fresh), t) = T
  BY TablesAre
<1> QED  BY <1>1 DEF Created, Renamed

Naming(t, v) == << <<"vlan", t>>, <<"name", v>> >>
Unmaking(t) == << <<"no vlan", t>> >>

\* The lines that name a VLAN, and the one that takes it away.
LEMMA NamingLines ==
  ASSUME NEW d \in Configurations, NEW T, DOMAIN T # {}, NEW t, NEW v
  PROVE  /\ Len(Naming(t, v)) = 2
         /\ Sent(WithVlans(d, T), Naming(t, v)) = WithVlans(d, Renamed(Created(T, t), t, v))
         /\ Sent(WithVlans(d, T), SubSeq(Naming(t, v), 1, 0)) = WithVlans(d, T)
         /\ Sent(WithVlans(d, T), SubSeq(Naming(t, v), 1, 1)) = WithVlans(d, Created(T, t))
         /\ Sent(WithVlans(d, T), SubSeq(Naming(t, v), 1, 2)) =
              WithVlans(d, Renamed(Created(T, t), t, v))
         /\ Sent(WithVlans(d, T), Unmaking(t)) = WithVlans(d, Dropped(T, t))
<1> DEFINE e == WithVlans(d, T)
           C == Created(T, t)
           R == Renamed(C, t, v)
           a == <<"vlan", t>>
           b == <<"name", v>>
           c == <<"no vlan", t>>
<1>1. e.vlans = T /\ WithVlans(d, C).vlans = C  BY FieldsAre
<1>0. DOMAIN C # {}  BY DEF Created, Opened
<1>2. Do(StateOf(e, NoBlock), a) = StateOf(WithVlans(e, C), t)  BY <1>1, VlanLine
<1>3. WithVlans(e, C) = WithVlans(d, C)  BY FieldsAre
<1>4. Do(StateOf(WithVlans(d, C), t), b) = StateOf(WithVlans(WithVlans(d, C), R), t)  BY <1>0, <1>1, NameLine
<1>5. WithVlans(WithVlans(d, C), R) = WithVlans(d, R)  BY FieldsAre
<1>6. Do(StateOf(e, NoBlock), c) = StateOf(WithVlans(e, Dropped(T, t)), NoBlock)  BY <1>1, NoVlanLine
<1>7. WithVlans(e, Dropped(T, t)) = WithVlans(d, Dropped(T, t))  BY FieldsAre
<1> HIDE DEF a, b, c, e, C, R
<1>8. /\ Do(StateOf(e, NoBlock), a) = StateOf(WithVlans(d, C), t)
      /\ Do(Do(StateOf(e, NoBlock), a), b) = StateOf(WithVlans(d, R), t)
      /\ Do(StateOf(e, NoBlock), c) = StateOf(WithVlans(d, Dropped(T, t)), NoBlock)
  BY <1>2, <1>3, <1>4, <1>5, <1>6, <1>7
<1>9. /\ Do(StateOf(e, NoBlock), a).dev = WithVlans(d, C)
      /\ Do(Do(StateOf(e, NoBlock), a), b).dev = WithVlans(d, R)
      /\ Do(StateOf(e, NoBlock), c).dev = WithVlans(d, Dropped(T, t))
  BY <1>8, AtIs
<1>10. /\ Len(<<a, b>>) = 2
       /\ Sent(e, <<a, b>>) = WithVlans(d, R)
       /\ Sent(e, SubSeq(<<a, b>>, 1, 0)) = e
       /\ Sent(e, SubSeq(<<a, b>>, 1, 1)) = WithVlans(d, C)
       /\ Sent(e, SubSeq(<<a, b>>, 1, 2)) = WithVlans(d, R)
  BY <1>9, TwoLines
<1>11. Sent(e, <<c>>) = WithVlans(d, Dropped(T, t))  BY <1>9, OneLine
<1> QED  BY <1>10, <1>11 DEF a, b, c, e, C, R, Naming, Unmaking

\* A VLAN is named, or made; undone, it is named as before, or deleted.
LEMMA VlanNamed ==
  ASSUME NEW s, s.type = "vlan_name", NEW d \in Configurations, DOMAIN d.vlans # {}, NEW k \in 0..2
  PROVE  AllOrNothing(s, d, d, k)
<1> DEFINE t == s.target
           v == s.value
           T == d.vlans
           named == Put(T, t, v)
           lines   == Naming(t, v)
           inverse == IF t \in DOMAIN T THEN Naming(t, T[t]) ELSE Unmaking(t)
           after   == Sent(d, SubSeq(lines, 1, k))
<1>1. \A e : Context("vlan_name", e).vlans = e.vlans
  BY DEF Context, Needed, Facts, OnInterface, OnProcess
<1>2. Render(s, Context(s.type, d)) = Rendered(lines, inverse)
  BY <1>1 DEF Render, RenderVlanName, Naming, Unmaking
<1>3. T = [x \in DOMAIN T |-> T[x]]  BY DEF Configurations, VlanTables
<1>6. Asked(s, d) = WithVlans(d, named)  BY DEF Asked, WithVlans, Put
<1>4. /\ WithVlans(d, T) = d
      /\ WithVlans(d, named).vlans = named
  BY FieldsAre
<1>5. k \in {0, 1, 2}  OBVIOUS
<1>14. DOMAIN T # {}  OBVIOUS
<1> HIDE DEF T, t, v
<1>7. /\ Renamed(Created(T, t), t, v) = named
      /\ t \in DOMAIN T => Created(T, t) = T
      /\ t \notin DOMAIN T => Dropped(Created(T, t), t) = T
  BY <1>3, RenamedIs
<1>t. [Opened(T, t, v) EXCEPT ![t] = v] = Put(T, t, v) =>
        /\ t \in DOMAIN T => Put(T, t, T[t]) = T /\ Put(Put(T, t, v), t, T[t]) = T
        /\ t \notin DOMAIN T => Dropped(T, t) = T /\ Dropped(Put(T, t, v), t) = T
        /\ t \in DOMAIN Put(T, t, v)
        /\ Put(T, t, v)[t] = v
        /\ Put(T, t, v) = [x \in DOMAIN Put(T, t, v) |-> Put(T, t, v)[x]]
  BY <1>3, TablesAre
<1>u. [Opened(T, t, v) EXCEPT ![t] = v] = Put(T, t, v)  BY <1>3, TablesAre
<1>8. /\ t \in DOMAIN T => Put(T, t, T[t]) = T /\ Put(named, t, T[t]) = T
      /\ t \notin DOMAIN T => Dropped(T, t) = T /\ Dropped(named, t) = T
      /\ t \in DOMAIN named /\ named[t] = v
      /\ named = [x \in DOMAIN named |-> named[x]]
  BY <1>t, <1>u
<1> HIDE DEF named
<1>9. Len(lines) = 2 /\ after = IF k = 0 THEN d ELSE IF k = 1 THEN WithVlans(d, Created(T, t))
                                ELSE WithVlans(d, named)
  <2>1. /\ Len(lines) = 2
        /\ Sent(WithVlans(d, T), SubSeq(lines, 1, 0)) = WithVlans(d, T)
        /\ Sent(WithVlans(d, T), SubSeq(lines, 1, 1)) = WithVlans(d, Created(T, t))
        /\ Sent(WithVlans(d, T), SubSeq(lines, 1, 2)) = WithVlans(d, Renamed(Created(T, t), t, v))
    BY <1>14, NamingLines
  <2> QED  BY <2>1, <1>4, <1>5, <1>7
<1>10. \A U : U = [x \in DOMAIN U |-> U[x]] /\ DOMAIN U # {} =>
                Sent(WithVlans(d, U), inverse) =
                  IF t \in DOMAIN T THEN WithVlans(d, Put(U, t, T[t])) ELSE WithVlans(d, Dropped(U, t))
  <2> SUFFICES ASSUME NEW U, U = [x \in DOMAIN U |-> U[x]], DOMAIN U # {}
               PROVE  Sent(WithVlans(d, U), inverse) =
                        IF t \in DOMAIN T THEN WithVlans(d, Put(U, t, T[t]))
                        ELSE WithVlans(d, Dropped(U, t))
    OBVIOUS
  <2> DEFINE old == T[t]
  <2>0. inverse = IF t \in DOMAIN T THEN Naming(t, old) ELSE Unmaking(t)
    OBVIOUS
  <2> HIDE DEF inverse, old
  <2>1. Sent(WithVlans(d, U), Naming(t, old)) = WithVlans(d, Renamed(Created(U, t), t, old))
    BY NamingLines
  <2>2. Sent(WithVlans(d, U), Unmaking(t)) = WithVlans(d, Dropped(U, t))
    BY NamingLines
  <2>3. Renamed(Created(U, t), t, old) = Put(U, t, old)  BY RenamedIs
  <2> QED  BY <2>0, <2>1, <2>2, <2>3 DEF old
<1> HIDE DEF lines, inverse, after
<1>11. Sent(after, inverse) = d
  <2>1. CASE k = 0
    <3>1. Sent(WithVlans(d, T), inverse) = WithVlans(d, T)  BY <1>3, <1>8, <1>10, <1>14
    <3> QED  BY <2>1, <3>1, <1>9, <1>4
  <2>2. CASE k = 1
    <3>0. DOMAIN Created(T, t) # {} /\ Created(T, t) = [x \in DOMAIN Created(T, t) |-> Created(T, t)[x]]
      BY DEF Created, Opened
    <3>1. Sent(WithVlans(d, Created(T, t)), inverse) = WithVlans(d, T)  BY <1>7, <1>8, <1>10, <3>0
    <3> QED  BY <2>2, <3>1, <1>9, <1>4
  <2>3. CASE k = 2
    <3>1. Sent(WithVlans(d, named), inverse) = WithVlans(d, T)  BY <1>8, <1>10
    <3> QED  BY <2>3, <3>1, <1>9, <1>4
  <2> QED  BY <1>5, <2>1, <2>2, <2>3
<1>12. k = 2 => after = Asked(s, d) /\ PostCheck(s, Context(s.type, after))
  <2>1. k = 2 => after.vlans = named  BY <1>9, <1>4
  <2> QED  BY <1>1, <1>6, <1>8, <1>9, <2>1 DEF PostCheck, t, v
<1>13. ~NotFound(s, d)  BY DEF NotFound
<1> QED  BY <1>2, <1>9, <1>11, <1>12, <1>13, WholeOrNothing DEF after

\* A router refuses the lines, and the one that takes the VLAN away again: it
\* stays as it is.
LEMMA VlanRefused ==
  ASSUME NEW s, s.type = "vlan_name", NEW d \in Configurations, DOMAIN d.vlans = {}, NEW k \in 0..2
  PROVE  AllOrNothing(s, d, d, k)
<1> DEFINE t == s.target
           v == s.value
           a == <<"vlan", t>>
           b == <<"name", v>>
           c == <<"no vlan", t>>
           off == [dev |-> d, at |-> NoBlock, refused |-> TRUE]
           lines == Naming(t, v)
           inverse == Unmaking(t)
           after   == Sent(d, SubSeq(lines, 1, k))
<1>1. \A e : Context("vlan_name", e).vlans = e.vlans
  BY DEF Context, Needed, Facts, OnInterface, OnProcess
<1>2. Render(s, Context(s.type, d)) = Rendered(lines, inverse)
  BY <1>1 DEF Render, RenderVlanName, Naming, Unmaking
<1>3. NotFound(s, d)  BY DEF NotFound
<1>5. Do(StateOf(d, NoBlock), a) = off /\ Do(StateOf(d, NoBlock), c) = off  BY NoVlans
<1> HIDE DEF a, b, c
<1>6. Do(off, b) = off  BY AfterRefusal
<1>7. off.dev = d  OBVIOUS
<1> HIDE DEF off
<1>8. /\ Len(<<a, b>>) = 2
      /\ Sent(d, SubSeq(<<a, b>>, 1, 0)) = d
      /\ Sent(d, SubSeq(<<a, b>>, 1, 1)) = d
      /\ Sent(d, SubSeq(<<a, b>>, 1, 2)) = d
  BY <1>5, <1>6, <1>7, TwoLines
<1>9. Sent(d, <<c>>) = d  BY <1>5, <1>7, OneLine
<1>10. lines = <<a, b>> /\ inverse = <<c>>  BY DEF Naming, Unmaking, a, b, c
<1> HIDE DEF lines, inverse
<1>11. k \in {0, 1, 2}  OBVIOUS
<1>12. after = d  BY <1>8, <1>10, <1>11
<1>13. Sent(after, inverse) = d  BY <1>9, <1>10, <1>12
<1> QED  BY <1>2, <1>3, <1>12, <1>13, WholeOrNothing

LEMMA VlanNameWhole ==
  ASSUME NEW s, s.type = "vlan_name", NEW d \in Configurations, NEW k \in 0..2
  PROVE  AllOrNothing(s, d, d, k)
BY VlanNamed, VlanRefused

-----------------------------------------------------------------------------
(* Changes of the routing processes                                        *)

\* The statements of a process, none if it does not run.
In(T, p) == IF p \in DOMAIN T THEN T[p] ELSE {}
IsTable(T) == T = [x \in DOMAIN T |-> T[x]]

\* The lines of a block, and the line that takes a process away.
Block(p, c)     == << <<"router", p>>, c>>
Block2(p, b, c) == << <<"router", p>>, b, c>>
Stopping(p)     == << <<"no router", p>> >>

\* What becomes of a table of processes.
LEMMA BlocksAre ==
  ASSUME NEW T, IsTable(T), NEW p, NEW a, NEW b
  PROVE  /\ Started(T, p) = Put(T, p, In(T, p))
         /\ p \in DOMAIN T => Put(T, p, In(T, p)) = T
         /\ Put(Put(T, p, a), p, b) = Put(T, p, b)
         /\ In(Put(T, p, a), p) = a
         /\ IsTable(Put(T, p, a))
         /\ p \in DOMAIN Put(T, p, a) /\ Put(T, p, a)[p] = a
         /\ p \notin DOMAIN T => Dropped(T, p) = T /\ Dropped(Put(T, p, a), p) = T
<1>1. \A v : Put(T, p, v) = [x \in DOMAIN T \cup {p} |-> IF x = p THEN v ELSE T[x]]
  BY DEF Put, Opened
<1>2. Started(T, p) = Put(T, p, In(T, p))
  BY <1>1 DEF Started, Opened, In
<1>3. p \in DOMAIN T => Put(T, p, In(T, p)) = T
  <2> SUFFICES ASSUME p \in DOMAIN T PROVE Put(T, p, In(T, p)) = T  OBVIOUS
  <2>1. DOMAIN T \cup {p} = DOMAIN T  OBVIOUS
  <2>2. Put(T, p, T[p]) = [x \in DOMAIN T |-> IF x = p THEN T[p] ELSE T[x]]  BY <1>1, <2>1
  <2> QED  BY <2>2 DEF In, IsTable
<1>4. Put(Put(T, p, a), p, b) = Put(T, p, b)
  <2> DEFINE U == Put(T, p, a)
  <2>1. U = [x \in DOMAIN T \cup {p} |-> IF x = p THEN a ELSE T[x]]  BY <1>1
  <2> HIDE DEF U
  <2>2. Put(U, p, b) = [x \in DOMAIN T \cup {p} |-> IF x = p THEN b ELSE T[x]]
    BY <2>1 DEF Put, Opened
  <2> QED  BY <1>1, <2>2 DEF U
<1>5. /\ In(Put(T, p, a), p) = a /\ IsTable(Put(T, p, a))
      /\ p \in DOMAIN Put(T, p, a) /\ Put(T, p, a)[p] = a
  BY <1>1 DEF In, IsTable
<1>6. p \notin DOMAIN T => Dropped(T, p) = T /\ Dropped(Put(T, p, a), p) = T
  <2> SUFFICES ASSUME p \notin DOMAIN T PROVE Dropped(T, p) = T /\ Dropped(Put(T, p, a), p) = T
    OBVIOUS
  <2>1. Dropped(T, p) = T  BY DEF Dropped, Restrict, IsTable
  <2> DEFINE U == Put(T, p, a)
  <2>2. U = [x \in DOMAIN T \cup {p} |-> IF x = p THEN a ELSE T[x]]  BY <1>1
  <2> HIDE DEF U
  <2>3. DOMAIN U \ {p} = DOMAIN T /\ \A x \in DOMAIN T : U[x] = T[x]  BY <2>2
  <2>4. Dropped(U, p) = T  BY <2>3 DEF Dropped, Restrict, IsTable
  <2> QED  BY <2>1, <2>4 DEF U
<1> QED  BY <1>2, <1>3, <1>4, <1>5, <1>6

\* What is put in a table is there.
LEMMA PutHolds ==
  ASSUME NEW T, NEW p, NEW a  PROVE  p \in DOMAIN Put(T, p, a) /\ Put(T, p, a)[p] = a
<1>1. Put(T, p, a) = [x \in DOMAIN T \cup {p} |-> IF x = p THEN a ELSE T[x]]
  BY DEF Put, Opened
<1> QED  BY <1>1

\* What a line makes of the statements of a process.
AddedTo(S, x) == {y \in S : ~(y[1] = "version" /\ x[1] = "version")} \cup {x}
Short(S, x)   == S \ {x}
Plain(S)      == {y \in S : y[1] # "version"}
Left(S, peer) == {y \in S : ~(y[1] = "neighbor" /\ y[2] = peer)}

\* The lines of a block change the statements of its process.
LEMMA InBlocks ==
  ASSUME NEW T, IsTable(T), NEW p, NEW a, NEW x
  PROVE  /\ Holding(Put(T, p, a), p, x) = Put(T, p, AddedTo(a, x))
         /\ Lacking(Put(T, p, a), p, x) = Put(T, p, Short(a, x))
         /\ Unversioned(Put(T, p, a), p) = Put(T, p, Plain(a))
         /\ Without(Put(T, p, a), p, x) = Put(T, p, Left(a, x))
<1> DEFINE U == Put(T, p, a)
<1>1. \A v : Put(T, p, v) = [z \in DOMAIN T \cup {p} |-> IF z = p THEN v ELSE T[z]]
  BY DEF Put, Opened
<1>2. U[p] = a /\ p \in DOMAIN U /\ \A v : [U EXCEPT ![p] = v] = Put(T, p, v)
  BY <1>1
<1> HIDE DEF U
<1>3. Holding(U, p, x) = [U EXCEPT ![p] = AddedTo(a, x)]  BY <1>2 DEF Holding, AddedTo
<1>4. Lacking(U, p, x) = [U EXCEPT ![p] = Short(a, x)]  BY <1>2 DEF Lacking, Short
<1>5. Unversioned(U, p) = [U EXCEPT ![p] = Plain(a)]  BY <1>2 DEF Unversioned, Plain
<1>6. Without(U, p, x) = [U EXCEPT ![p] = Left(a, x)]  BY <1>2 DEF Without, Left
<1> QED  BY <1>2, <1>3, <1>4, <1>5, <1>6 DEF U

\* A block with one line, and with two.
LEMMA OneInBlock ==
  ASSUME NEW d \in Configurations, NEW T, NEW p, NEW c, NEW U,
         \A e : e.processes = Started(T, p) => Do(StateOf(e, p), c) = StateOf(WithProcesses(e, U), p)
  PROVE  /\ Len(Block(p, c)) = 2
         /\ Sent(WithProcesses(d, T), Block(p, c)) = WithProcesses(d, U)
         /\ Sent(WithProcesses(d, T), SubSeq(Block(p, c), 1, 0)) = WithProcesses(d, T)
         /\ Sent(WithProcesses(d, T), SubSeq(Block(p, c), 1, 1)) = WithProcesses(d, Started(T, p))
         /\ Sent(WithProcesses(d, T), SubSeq(Block(p, c), 1, 2)) = WithProcesses(d, U)
<1> DEFINE e == WithProcesses(d, T)
           S == Started(T, p)
           a == <<"router", p>>
<1>1. e.processes = T /\ WithProcesses(d, S).processes = S  BY FieldsAre
<1>2. Do(StateOf(e, NoBlock), a) = StateOf(WithProcesses(e, S), p)  BY <1>1, RouterLine
<1>3. WithProcesses(e, S) = WithProcesses(d, S)  BY FieldsAre
<1>4. WithProcesses(WithProcesses(d, S), U) = WithProcesses(d, U)  BY FieldsAre
<1>5. Do(StateOf(WithProcesses(d, S), p), c) = StateOf(WithProcesses(WithProcesses(d, S), U), p)  BY <1>1
<1> HIDE DEF a, e, S
<1>6. /\ Do(StateOf(e, NoBlock), a) = StateOf(WithProcesses(d, S), p)
      /\ Do(Do(StateOf(e, NoBlock), a), c) = StateOf(WithProcesses(d, U), p)
  BY <1>2, <1>3, <1>4, <1>5
<1>7. /\ Do(StateOf(e, NoBlock), a).dev = WithProcesses(d, S)
      /\ Do(Do(StateOf(e, NoBlock), a), c).dev = WithProcesses(d, U)
  BY <1>6, AtIs
<1>8. /\ Len(<<a, c>>) = 2
      /\ Sent(e, <<a, c>>) = WithProcesses(d, U)
      /\ Sent(e, SubSeq(<<a, c>>, 1, 0)) = e
      /\ Sent(e, SubSeq(<<a, c>>, 1, 1)) = WithProcesses(d, S)
      /\ Sent(e, SubSeq(<<a, c>>, 1, 2)) = WithProcesses(d, U)
  BY <1>7, TwoLines
<1> QED  BY <1>8 DEF a, e, S, Block

\* A block with two lines
LEMMA TwoInBlock ==
  ASSUME NEW d \in Configurations, NEW T, NEW p, NEW b, NEW c, NEW U, NEW V,
         \A e : e.processes = Started(T, p) => Do(StateOf(e, p), b) = StateOf(WithProcesses(e, U), p),
         \A e : e.processes = U => Do(StateOf(e, p), c) = StateOf(WithProcesses(e, V), p)
  PROVE  /\ Len(Block2(p, b, c)) = 3
         /\ Sent(WithProcesses(d, T), Block2(p, b, c)) = WithProcesses(d, V)
         /\ Sent(WithProcesses(d, T), SubSeq(Block2(p, b, c), 1, 0)) = WithProcesses(d, T)
         /\ Sent(WithProcesses(d, T), SubSeq(Block2(p, b, c), 1, 1)) =
              WithProcesses(d, Started(T, p))
         /\ Sent(WithProcesses(d, T), SubSeq(Block2(p, b, c), 1, 2)) = WithProcesses(d, U)
         /\ Sent(WithProcesses(d, T), SubSeq(Block2(p, b, c), 1, 3)) = WithProcesses(d, V)
<1> DEFINE e == WithProcesses(d, T)
           S == Started(T, p)
           a == <<"router", p>>
<1>1. /\ e.processes = T /\ WithProcesses(d, S).processes = S
      /\ WithProcesses(d, U).processes = U
  BY FieldsAre
<1>2. Do(StateOf(e, NoBlock), a) = StateOf(WithProcesses(e, S), p)  BY <1>1, RouterLine
<1>3. WithProcesses(e, S) = WithProcesses(d, S)  BY FieldsAre
<1>4. /\ WithProcesses(WithProcesses(d, S), U) = WithProcesses(d, U)
      /\ WithProcesses(WithProcesses(d, U), V) = WithProcesses(d, V)
  BY FieldsAre
<1>5. /\ Do(StateOf(WithProcesses(d, S), p), b) = StateOf(WithProcesses(WithProcesses(d, S), U), p)
      /\ Do(StateOf(WithProcesses(d, U), p), c) = StateOf(WithProcesses(WithProcesses(d, U), V), p)
  BY <1>1
<1> HIDE DEF a, e, S
<1>6. /\ Do(StateOf(e, NoBlock), a) = StateOf(WithProcesses(d, S), p)
      /\ Do(Do(StateOf(e, NoBlock), a), b) = StateOf(WithProcesses(d, U), p)
      /\ Do(Do(Do(StateOf(e, NoBlock), a), b), c) = StateOf(WithProcesses(d, V), p)
  BY <1>2, <1>3, <1>4, <1>5
<1>7. /\ Do(StateOf(e, NoBlock), a).dev = WithProcesses(d, S)
      /\ Do(Do(StateOf(e, NoBlock), a), b).dev = WithProcesses(d, U)
      /\ Do(Do(Do(StateOf(e, NoBlock), a), b), c).dev = WithProcesses(d, V)
  BY <1>6, AtIs
<1>8. /\ Len(<<a, b, c>>) = 3
      /\ Sent(e, <<a, b, c>>) = WithProcesses(d, V)
      /\ Sent(e, SubSeq(<<a, b, c>>, 1, 0)) = e
      /\ Sent(e, SubSeq(<<a, b, c>>, 1, 1)) = WithProcesses(d, S)
      /\ Sent(e, SubSeq(<<a, b, c>>, 1, 2)) = WithProcesses(d, U)
      /\ Sent(e, SubSeq(<<a, b, c>>, 1, 3)) = WithProcesses(d, V)
  BY <1>7, ThreeLines
<1> QED  BY <1>8 DEF a, e, S, Block2

\* What is left when a process is taken away.
LEMMA Stopped ==
  ASSUME NEW d \in Configurations, NEW T, NEW p
  PROVE  Sent(WithProcesses(d, T), Stopping(p)) = WithProcesses(d, Dropped(T, p))
<1> DEFINE e == WithProcesses(d, T)
           c == <<"no router", p>>
<1>1. e.processes = T  BY FieldsAre
<1>2. Do(StateOf(e, NoBlock), c) = StateOf(WithProcesses(e, Dropped(T, p)), NoBlock)  BY <1>1, NoRouterLine
<1>3. WithProcesses(e, Dropped(T, p)) = WithProcesses(d, Dropped(T, p))  BY FieldsAre
<1> HIDE DEF c, e
<1>4. Do(StateOf(e, NoBlock), c).dev = WithProcesses(d, Dropped(T, p))  BY <1>2, <1>3, AtIs
<1>5. Sent(e, <<c>>) = WithProcesses(d, Dropped(T, p))  BY <1>4, OneLine
<1> QED  BY <1>5 DEF c, e, Stopping

Adding(p, x)         == Block(p, <<"add", x>>)
Removing(p, x)       == Block(p, <<"remove", x>>)
Unversioning(p)      == Block(p, <<"no version">>)
Leaving(p, peer)     == Block(p, <<"no neighbor", peer>>)
Moving(p, peer, x)   == Block2(p, <<"no neighbor", peer>>, <<"add", x>>)

\* Of a process's table: the lines make R of the statements.
Fills(d, T, p, lines, R) ==
  /\ Len(lines) = 2
  /\ Sent(WithProcesses(d, T), lines) = WithProcesses(d, Put(T, p, R))
  /\ Sent(WithProcesses(d, T), SubSeq(lines, 1, 0)) = WithProcesses(d, T)
  /\ Sent(WithProcesses(d, T), SubSeq(lines, 1, 1)) = WithProcesses(d, Put(T, p, In(T, p)))
  /\ Sent(WithProcesses(d, T), SubSeq(lines, 1, 2)) = WithProcesses(d, Put(T, p, R))

\* What the blocks of one line make of the statements of a process.
LEMMA BlocksFill ==
  ASSUME NEW d \in Configurations, NEW T, IsTable(T), NEW p, NEW x
  PROVE  /\ Fills(d, T, p, Adding(p, x), AddedTo(In(T, p), x))
         /\ Fills(d, T, p, Removing(p, x), Short(In(T, p), x))
         /\ Fills(d, T, p, Unversioning(p), Plain(In(T, p)))
         /\ Fills(d, T, p, Leaving(p, x), Left(In(T, p), x))
<1> DEFINE S == In(T, p)
           U == Put(T, p, S)
<1>1. Started(T, p) = U  BY BlocksAre
<1>2. /\ Holding(U, p, x) = Put(T, p, AddedTo(S, x))
      /\ Lacking(U, p, x) = Put(T, p, Short(S, x))
      /\ Unversioned(U, p) = Put(T, p, Plain(S))
      /\ Without(U, p, x) = Put(T, p, Left(S, x))
  BY InBlocks
<1> HIDE DEF U, S
<1>3. Fills(d, T, p, Adding(p, x), AddedTo(S, x))
  <2> DEFINE c == <<"add", x>>
  <2>1. \A e : e.processes = Started(T, p) =>
                 Do(StateOf(e, p), c) = StateOf(WithProcesses(e, Put(T, p, AddedTo(S, x))), p)
    BY <1>1, <1>2, AddLine
  <2> HIDE DEF c
  <2>2. Fills(d, T, p, Block(p, c), AddedTo(S, x))  BY <1>1, <2>1, OneInBlock DEF Fills, U, S
  <2> QED  BY <2>2 DEF Adding, c
<1>4. Fills(d, T, p, Removing(p, x), Short(S, x))
  <2> DEFINE c == <<"remove", x>>
  <2>1. \A e : e.processes = Started(T, p) =>
                 Do(StateOf(e, p), c) = StateOf(WithProcesses(e, Put(T, p, Short(S, x))), p)
    BY <1>1, <1>2, RemoveLine
  <2> HIDE DEF c
  <2>2. Fills(d, T, p, Block(p, c), Short(S, x))  BY <1>1, <2>1, OneInBlock DEF Fills, U, S
  <2> QED  BY <2>2 DEF Removing, c
<1>5. Fills(d, T, p, Unversioning(p), Plain(S))
  <2> DEFINE c == <<"no version">>
  <2>1. \A e : e.processes = Started(T, p) =>
                 Do(StateOf(e, p), c) = StateOf(WithProcesses(e, Put(T, p, Plain(S))), p)
    BY <1>1, <1>2, NoVersionLine
  <2> HIDE DEF c
  <2>2. Fills(d, T, p, Block(p, c), Plain(S))  BY <1>1, <2>1, OneInBlock DEF Fills, U, S
  <2> QED  BY <2>2 DEF Unversioning, c
<1>6. Fills(d, T, p, Leaving(p, x), Left(S, x))
  <2> DEFINE c == <<"no neighbor", x>>
  <2>1. \A e : e.processes = Started(T, p) =>
                 Do(StateOf(e, p), c) = StateOf(WithProcesses(e, Put(T, p, Left(S, x))), p)
    BY <1>1, <1>2, NoNeighborLine
  <2> HIDE DEF c
  <2>2. Fills(d, T, p, Block(p, c), Left(S, x))  BY <1>1, <2>1, OneInBlock DEF Fills, U, S
  <2> QED  BY <2>2 DEF Leaving, c
<1> QED  BY <1>3, <1>4, <1>5, <1>6 DEF S

\* What a peer that moves to another AS goes through.
LEMMA MovingFills ==
  ASSUME NEW d \in Configurations, NEW T, IsTable(T), NEW p, NEW peer, NEW x
  PROVE  LET L == Left(In(T, p), peer)
             lines == Moving(p, peer, x)
         IN  /\ Len(lines) = 3
             /\ Sent(WithProcesses(d, T), lines) = WithProcesses(d, Put(T, p, AddedTo(L, x)))
             /\ Sent(WithProcesses(d, T), SubSeq(lines, 1, 0)) = WithProcesses(d, T)
             /\ Sent(WithProcesses(d, T), SubSeq(lines, 1, 1)) =
                  WithProcesses(d, Put(T, p, In(T, p)))
             /\ Sent(WithProcesses(d, T), SubSeq(lines, 1, 2)) = WithProcesses(d, Put(T, p, L))
             /\ Sent(WithProcesses(d, T), SubSeq(lines, 1, 3)) =
                  WithProcesses(d, Put(T, p, AddedTo(L, x)))
<1> DEFINE S == In(T, p)
           L == Left(S, peer)
           U == Put(T, p, L)
           V == Put(T, p, AddedTo(L, x))
           b == <<"no neighbor", peer>>
           c == <<"add", x>>
<1>1. Started(T, p) = Put(T, p, S)  BY BlocksAre
<1>2. Without(Put(T, p, S), p, peer) = U  BY InBlocks
<1>3. Holding(U, p, x) = V  BY InBlocks
<1> HIDE DEF S, L, U, V
<1>4. \A e : e.processes = Started(T, p) => Do(StateOf(e, p), b) = StateOf(WithProcesses(e, U), p)
  BY <1>1, <1>2, NoNeighborLine
<1>5. \A e : e.processes = U => Do(StateOf(e, p), c) = StateOf(WithProcesses(e, V), p)
  BY <1>3, AddLine
<1> HIDE DEF b, c
<1>6. /\ Len(Block2(p, b, c)) = 3
      /\ Sent(WithProcesses(d, T), Block2(p, b, c)) = WithProcesses(d, V)
      /\ Sent(WithProcesses(d, T), SubSeq(Block2(p, b, c), 1, 0)) = WithProcesses(d, T)
      /\ Sent(WithProcesses(d, T), SubSeq(Block2(p, b, c), 1, 1)) = WithProcesses(d, Started(T, p))
      /\ Sent(WithProcesses(d, T), SubSeq(Block2(p, b, c), 1, 2)) = WithProcesses(d, U)
      /\ Sent(WithProcesses(d, T), SubSeq(Block2(p, b, c), 1, 3)) = WithProcesses(d, V)
  BY <1>4, <1>5, TwoInBlock, SMTT(90)
<1>7. Block2(p, b, c) = Moving(p, peer, x)  BY DEF Moving, b, c
<1> QED  BY <1>1, <1>6, <1>7 DEF S, L, U, V

\* What is left to show of a change of a process.
LEMMA ProcessWhole ==
  ASSUME NEW s, s.type \in OnProcess, NEW d \in Configurations, NEW p, NEW k, NEW R, NEW AA,
         NEW lines, NEW inverse,
         Render(s, Context(s.type, d)) = Rendered(lines, inverse),
         \/ Sent(d, SubSeq(lines, 1, k)) = d
         \/ \E A \in AA : Sent(d, SubSeq(lines, 1, k)) = WithProcesses(d, Put(d.processes, p, A)),
         k = Len(lines) => Sent(d, SubSeq(lines, 1, k)) = WithProcesses(d, Put(d.processes, p, R)),
         p \notin DOMAIN d.processes => inverse = Stopping(p),
         In(d.processes, p) \in AA,
         p \in DOMAIN d.processes =>
           \A A \in AA : Sent(WithProcesses(d, Put(d.processes, p, A)), inverse) =
                           WithProcesses(d, Put(d.processes, p, In(d.processes, p))),
         Asked(s, d) = WithProcesses(d, Put(d.processes, p, R)),
         PostCheck(s, Context(s.type, WithProcesses(d, Put(d.processes, p, R))))
  PROVE  AllOrNothing(s, d, d, k)
<1> DEFINE T == d.processes
           S == In(T, p)
           after == Sent(d, SubSeq(lines, 1, k))
<1>1. IsTable(T)  BY DEF Configurations, ProcessTables, IsTable
<1>2. WithProcesses(d, T) = d  BY FieldsAre
<1>3. p \in DOMAIN T => WithProcesses(d, Put(T, p, S)) = d  BY <1>1, <1>2, BlocksAre
<1>4. p \notin DOMAIN T => Dropped(T, p) = T  BY <1>1, BlocksAre
<1>8. ASSUME p \notin DOMAIN T PROVE \A A : Dropped(Put(T, p, A), p) = T
  <2> SUFFICES ASSUME NEW A PROVE Dropped(Put(T, p, A), p) = T  OBVIOUS
  <2>1. /\ Put(Put(T, p, A), p, A) = Put(T, p, A)
        /\ p \notin DOMAIN T => Dropped(Put(T, p, A), p) = T
    BY <1>1, BlocksAre
  <2> QED  BY <1>8, <2>1
<1>5. Sent(after, inverse) = d
  <2>1. CASE p \in DOMAIN T
    <3>1. \E A \in AA : after = WithProcesses(d, Put(T, p, A))  BY <2>1, <1>3
    <3> QED  BY <2>1, <3>1, <1>3
  <2>2. CASE p \notin DOMAIN T
    <3>1. \A U : Sent(WithProcesses(d, U), inverse) = WithProcesses(d, Dropped(U, p))
      BY <2>2, Stopped
    <3>2. Sent(d, inverse) = d  BY <3>1, <1>2, <1>4, <2>2
    <3>3. \A A : Sent(WithProcesses(d, Put(T, p, A)), inverse) = d  BY <3>1, <1>2, <1>8, <2>2
    <3> QED  BY <3>2, <3>3
  <2> QED  BY <2>1, <2>2
<1>6. ~NotFound(s, d)  BY DEF NotFound, OnProcess
<1> HIDE DEF after
<1>7. k = Len(lines) => after = Asked(s, d) /\ PostCheck(s, Context(s.type, after))
  BY DEF after
<1> QED  BY <1>5, <1>6, <1>7, WholeOrNothing DEF after

\* What a change of a process reads of the device.
LEMMA ProcessesRead ==
  ASSUME NEW type \in OnProcess
  PROVE  \A e : Context(type, e).processes = e.processes
BY DEF Context, Needed, Facts, OnInterface, OnProcess

\* A network is announced; undone, it is withdrawn, or its process is stopped.
LEMMA NetworkWhole ==
  ASSUME NEW s, s.type = "router_network", NEW d \in Configurations, NEW k \in 0..2,
         ~Holds(Context(s.type, d), s.target, <<"network", s.value>>)
  PROVE  AllOrNothing(s, d, d, k)
<1> DEFINE p == s.target
           x == <<"network", s.value>>
           T == d.processes
           S == In(T, p)
           R == S \cup {x}
           lines   == Adding(p, x)
           inverse == IF p \in DOMAIN T THEN Removing(p, x) ELSE Stopping(p)
<1>0. s.type \in OnProcess  BY DEF OnProcess
<1>1. \A e : Context(s.type, e).processes = e.processes  BY <1>0, ProcessesRead
<1>2. Render(s, Context(s.type, d)) = Rendered(lines, inverse)
  BY <1>1 DEF Render, RenderNetwork, Running, Adding, Removing, Stopping, Block
<1>3. x \notin S  BY <1>1 DEF Holds, Running, In
<1>4. Asked(s, d) = WithProcesses(d, Put(T, p, R))
  BY DEF Asked, WithProcesses, Put, In
<1>5. IsTable(T) /\ WithProcesses(d, T) = d
  BY FieldsAre DEF Configurations, ProcessTables, IsTable
<1>6. x[1] = "network"  OBVIOUS
<1>7. \A A : AddedTo(A, x) = A \cup {x}  BY <1>6 DEF AddedTo
<1>8. Short(S, x) = S /\ Short(R, x) = S  BY <1>3 DEF Short
<1>r. x \in R  OBVIOUS
<1> HIDE DEF x, p, T, S, R
<1>9. PostCheck(s, Context(s.type, WithProcesses(d, Put(T, p, R))))
  <2>1. WithProcesses(d, Put(T, p, R)).processes = Put(T, p, R)  BY FieldsAre
  <2>2. p \in DOMAIN Put(T, p, R) /\ Put(T, p, R)[p] = R  BY PutHolds
  <2> QED  BY <1>1, <1>r, <2>1, <2>2 DEF PostCheck, Holds, Running, x, p
<1>10. Fills(d, T, p, lines, R)  BY <1>5, <1>7, BlocksFill DEF S, R
<1>11. k \in {0, 1, 2}  OBVIOUS
<1>12. \A A \in {S, R} : Sent(WithProcesses(d, Put(T, p, A)), Removing(p, x))
                           = WithProcesses(d, Put(T, p, S))
  <2> TAKE A \in {S, R}
  <2>1. IsTable(Put(T, p, A)) /\ In(Put(T, p, A), p) = A /\ \A b : Put(Put(T, p, A), p, b) = Put(T, p, b)
    BY <1>5, BlocksAre
  <2>2. Short(A, x) = S  BY <1>8
  <2>3. Fills(d, Put(T, p, A), p, Removing(p, x), Short(A, x))  BY <2>1, BlocksFill
  <2> QED  BY <2>1, <2>2, <2>3 DEF Fills
<1> HIDE DEF lines
<1>13. /\ \/ Sent(d, SubSeq(lines, 1, k)) = d
          \/ \E A \in {S, R} : Sent(d, SubSeq(lines, 1, k)) = WithProcesses(d, Put(T, p, A))
       /\ k = Len(lines) => Sent(d, SubSeq(lines, 1, k)) = WithProcesses(d, Put(T, p, R))
  BY <1>5, <1>10, <1>11 DEF Fills, S
<1> QED
  BY <1>0, <1>2, <1>4, <1>9, <1>12, <1>13, ProcessWhole DEF T, S

\* A network is withdrawn; undone, it is announced again.
LEMMA NetworkRemoveWhole ==
  ASSUME NEW s, s.type = "router_network_remove", NEW d \in Configurations, NEW k \in 0..2,
         Holds(Context(s.type, d), s.target, <<"network", s.value>>)
  PROVE  AllOrNothing(s, d, d, k)
<1> DEFINE p == s.target
           x == <<"network", s.value>>
           T == d.processes
           S == In(T, p)
           R == S \ {x}
           lines   == Removing(p, x)
           inverse == Adding(p, x)
<1>0. s.type \in OnProcess  BY DEF OnProcess
<1>1. \A e : Context(s.type, e).processes = e.processes  BY <1>0, ProcessesRead
<1>2. Render(s, Context(s.type, d)) = Rendered(lines, inverse)
  BY DEF Render, RenderNetworkRemove, Adding, Removing, Block
<1>3. p \in DOMAIN T /\ x \in S  BY <1>1 DEF Holds, Running, In
<1>4. Asked(s, d) = WithProcesses(d, Put(T, p, R))
  BY DEF Asked, WithProcesses, Put, In
<1>5. IsTable(T) /\ WithProcesses(d, T) = d
  BY FieldsAre DEF Configurations, ProcessTables, IsTable
<1>6. x[1] = "network"  OBVIOUS
<1>7. \A A : AddedTo(A, x) = A \cup {x}  BY <1>6 DEF AddedTo
<1>8. S \cup {x} = S /\ R \cup {x} = S /\ Short(S, x) = R  BY <1>3 DEF Short
<1>r. x \notin R  OBVIOUS
<1> HIDE DEF x, p, T, S, R
<1>9. PostCheck(s, Context(s.type, WithProcesses(d, Put(T, p, R))))
  <2>1. WithProcesses(d, Put(T, p, R)).processes = Put(T, p, R)  BY FieldsAre
  <2>2. p \in DOMAIN Put(T, p, R) /\ Put(T, p, R)[p] = R  BY PutHolds
  <2> QED  BY <1>1, <1>r, <2>1, <2>2 DEF PostCheck, Holds, Running, x, p
<1>10. Fills(d, T, p, lines, R)
  <2>1. Fills(d, T, p, lines, Short(S, x))  BY <1>5, BlocksFill DEF S
  <2> QED  BY <1>8, <2>1
<1>11. k \in {0, 1, 2}  OBVIOUS
<1>12. \A A \in {S, R} : Sent(WithProcesses(d, Put(T, p, A)), inverse)
                           = WithProcesses(d, Put(T, p, S))
  <2> TAKE A \in {S, R}
  <2>1. IsTable(Put(T, p, A)) /\ In(Put(T, p, A), p) = A /\ \A b : Put(Put(T, p, A), p, b) = Put(T, p, b)
    BY <1>5, BlocksAre
  <2>2. AddedTo(A, x) = S  BY <1>7, <1>8
  <2>3. Fills(d, Put(T, p, A), p, Adding(p, x), AddedTo(A, x))  BY <2>1, BlocksFill
  <2> QED  BY <2>1, <2>2, <2>3 DEF Fills
<1> HIDE DEF lines, inverse
<1>13. /\ \/ Sent(d, SubSeq(lines, 1, k)) = d
          \/ \E A \in {S, R} : Sent(d, SubSeq(lines, 1, k)) = WithProcesses(d, Put(T, p, A))
       /\ k = Len(lines) => Sent(d, SubSeq(lines, 1, k)) = WithProcesses(d, Put(T, p, R))
  BY <1>5, <1>10, <1>11 DEF Fills, S
<1> QED
  BY <1>0, <1>2, <1>3, <1>4, <1>9, <1>12, <1>13, ProcessWhole DEF T, S

\* The version of RIP is set; undone, it is the one it was, or none.
LEMMA RipVersionWhole ==
  ASSUME NEW s, s.type = "router_rip_version", s.target = "rip", NEW d \in Configurations, NEW k \in 0..2,
         \A y, z \in In(d.processes, s.target) : y[1] = "version" /\ z[1] = "version" => y = z
  PROVE  AllOrNothing(s, d, d, k)
<1> DEFINE p == s.target
           x == <<"version", s.value>>
           T == d.processes
           S == In(T, p)
           old == VersionOf(Context(s.type, d))
           was == CHOOSE v \in old : TRUE
           R == AddedTo(S, x)
           lines   == Adding(p, x)
           inverse == IF p \notin DOMAIN T THEN Stopping(p)
                      ELSE IF old = {} THEN Unversioning(p) ELSE Adding(p, was)
<1>0. s.type \in OnProcess  BY DEF OnProcess
<1>1. \A e : Context(s.type, e).processes = e.processes  BY <1>0, ProcessesRead
<1>2. Render(s, Context(s.type, d)) = Rendered(lines, inverse)
  <2>1. Render(s, Context(s.type, d)) = RenderRipVersion(s, Context(s.type, d))  BY DEF Render
  <2>2. CASE p \notin DOMAIN T
    BY <1>1, <2>1, <2>2 DEF RenderRipVersion, Running, Adding, Stopping, Block
  <2>3. CASE p \in DOMAIN T /\ old = {}
    BY <1>1, <2>1, <2>3 DEF RenderRipVersion, Running, Adding, Unversioning, Block
  <2>4. CASE p \in DOMAIN T /\ old # {}
    BY <1>1, <2>1, <2>4 DEF RenderRipVersion, Running, Adding, Block
  <2> QED  BY <2>2, <2>3, <2>4
<1>3. p \in DOMAIN T => old = {y \in S : y[1] = "version"}  BY <1>1 DEF VersionOf, In
<1>5. IsTable(T) /\ WithProcesses(d, T) = d
  BY FieldsAre DEF Configurations, ProcessTables, IsTable
<1>6. x[1] = "version"  OBVIOUS
<1>7. R = Plain(S) \cup {x}  BY <1>6 DEF AddedTo, Plain
<1>4. Asked(s, d) = WithProcesses(d, Put(T, p, R))
  <2>1. Asked(s, d) = WithProcesses(d, Put(T, p, {y \in S : y[1] # "version"} \cup {x}))
    BY DEF Asked, WithProcesses, Put, In
  <2> QED  BY <2>1, <1>7 DEF Plain
<1>w. old # {} => was \in old  OBVIOUS
<1>u. \A y, z \in S : y[1] = "version" /\ z[1] = "version" => y = z  OBVIOUS
<1> HIDE DEF x, p, T, S, R, was, old
<1>8. p \in DOMAIN T /\ old = {} => \A A \in {S, R} : Plain(A) = S
  BY <1>3, <1>6, <1>7 DEF Plain
<1>a. p \in DOMAIN T /\ old # {} => \A A \in {S, R} : AddedTo(A, was) = S
  <2> SUFFICES ASSUME p \in DOMAIN T, old # {}, NEW A \in {S, R} PROVE AddedTo(A, was) = S
    OBVIOUS
  <2>1. was \in S /\ was[1] = "version" /\ \A y \in S : y[1] = "version" => y = was
    BY <1>3, <1>w, <1>u
  <2>2. AddedTo(A, was) = Plain(A) \cup {was}  BY <2>1 DEF AddedTo, Plain
  <2>3. Plain(A) = Plain(S)  BY <1>6, <1>7 DEF Plain
  <2> QED  BY <2>1, <2>2, <2>3 DEF Plain
<1>9. PostCheck(s, Context(s.type, WithProcesses(d, Put(T, p, R))))
  <2>1. WithProcesses(d, Put(T, p, R)).processes = Put(T, p, R)  BY FieldsAre
  <2>2. p \in DOMAIN Put(T, p, R) /\ Put(T, p, R)[p] = R  BY PutHolds
  <2>3. {y \in R : y[1] = "version"} = {x}  BY <1>6, <1>7 DEF Plain
  <2> QED  BY <1>1, <2>1, <2>2, <2>3 DEF PostCheck, VersionOf, Running, x, p
<1>10. Fills(d, T, p, lines, R)  BY <1>5, BlocksFill DEF S, R
<1>11. k \in {0, 1, 2}  OBVIOUS
<1>12. p \in DOMAIN T => \A A \in {S, R} : Sent(WithProcesses(d, Put(T, p, A)), inverse)
                                             = WithProcesses(d, Put(T, p, S))
  <2> SUFFICES ASSUME p \in DOMAIN T, NEW A \in {S, R}
               PROVE  Sent(WithProcesses(d, Put(T, p, A)), inverse) = WithProcesses(d, Put(T, p, S))
    OBVIOUS
  <2>1. IsTable(Put(T, p, A)) /\ In(Put(T, p, A), p) = A /\ \A b : Put(Put(T, p, A), p, b) = Put(T, p, b)
    BY <1>5, BlocksAre
  <2>2. CASE old = {}
    <3>1. Fills(d, Put(T, p, A), p, Unversioning(p), Plain(A))  BY <2>1, BlocksFill
    <3>2. Plain(A) = S  BY <1>8, <2>2
    <3> QED  BY <2>1, <2>2, <3>1, <3>2 DEF Fills
  <2>3. CASE old # {}
    <3>1. Fills(d, Put(T, p, A), p, Adding(p, was), AddedTo(A, was))  BY <2>1, BlocksFill
    <3>2. AddedTo(A, was) = S  BY <1>a, <2>3
    <3> QED  BY <2>1, <2>3, <3>1, <3>2 DEF Fills
  <2> QED  BY <2>2, <2>3
<1>s. p \notin DOMAIN T => inverse = Stopping(p)  OBVIOUS
<1> HIDE DEF lines, inverse
<1>13. /\ \/ Sent(d, SubSeq(lines, 1, k)) = d
          \/ \E A \in {S, R} : Sent(d, SubSeq(lines, 1, k)) = WithProcesses(d, Put(T, p, A))
       /\ k = Len(lines) => Sent(d, SubSeq(lines, 1, k)) = WithProcesses(d, Put(T, p, R))
  BY <1>5, <1>10, <1>11 DEF Fills, S
<1> QED
  BY <1>0, <1>2, <1>s, <1>4, <1>9, <1>12, <1>13, ProcessWhole DEF T, S

\* A peer gets an AS, or another; undone, it has the one it had, or is forgotten.
LEMMA NeighborWhole ==
  ASSUME NEW s, s.type = "bgp_neighbor", NEW d \in Configurations,
         NEW k \in 0..Len(Render(s, Context(s.type, d)).lines),
         \A y, z \in In(d.processes, s.target) :
           y[1] = "neighbor" /\ z[1] = "neighbor" /\ y[2] = z[2]
             /\ y[3] = "remote-as" /\ z[3] = "remote-as" => y = z
  PROVE  AllOrNothing(s, d, d, k)
<1> DEFINE p == s.target
           x == PeerStatement(s.value)
           peer == s.value.peer
           T == d.processes
           S == In(T, p)
           old == RemoteAS(Context(s.type, d), p, peer)
           was == CHOOSE v \in old : TRUE
           L == Left(S, peer)
           R == L \cup {x}
           moved == p \in DOMAIN T /\ old # {}
           lines   == IF moved THEN Moving(p, peer, x) ELSE Adding(p, x)
           inverse == IF p \notin DOMAIN T THEN Stopping(p)
                      ELSE IF old = {} THEN Leaving(p, peer) ELSE Moving(p, peer, was)
<1> SUFFICES ASSUME ~ForgetsThePeer(s, d) PROVE AllOrNothing(s, d, d, k)  BY DEF AllOrNothing
<1>0. s.type \in OnProcess  BY DEF OnProcess
<1>1. \A e : Context(s.type, e).processes = e.processes  BY <1>0, ProcessesRead
<1>2. Render(s, Context(s.type, d)) = Rendered(lines, inverse)
  <2>1. Render(s, Context(s.type, d)) = RenderNeighbor(s, Context(s.type, d))  BY DEF Render
  <2>2. CASE p \notin DOMAIN T
    BY <1>1, <2>1, <2>2 DEF RenderNeighbor, Running, Adding, Stopping, Block
  <2>3. CASE p \in DOMAIN T /\ old = {}
    BY <1>1, <2>1, <2>3 DEF RenderNeighbor, Running, Adding, Leaving, Block
  <2>4. CASE p \in DOMAIN T /\ old # {}
    BY <1>1, <2>1, <2>4 DEF RenderNeighbor, Running, Moving, Block2
  <2> QED  BY <2>2, <2>3, <2>4
<1>3. p \in DOMAIN T => old = {y \in S : y[1] = "neighbor" /\ y[2] = peer /\ y[3] = "remote-as"}
  BY <1>1 DEF RemoteAS, In
<1>5. IsTable(T) /\ WithProcesses(d, T) = d
  BY FieldsAre DEF Configurations, ProcessTables, IsTable
<1>6. x[1] = "neighbor" /\ x[2] = peer /\ x[3] = "remote-as"  BY DEF PeerStatement
<1>f. \A y \in S : y[1] = "neighbor" /\ y[2] = peer => y[3] = "remote-as"
  <2>1. CASE p \in DOMAIN T  BY <2>1 DEF ForgetsThePeer, In
  <2>2. CASE p \notin DOMAIN T  BY <2>2 DEF In
  <2> QED  BY <2>1, <2>2
<1>4. Asked(s, d) = WithProcesses(d, Put(T, p, R))
  <2>1. Asked(s, d) =
          WithProcesses(d, Put(T, p, {y \in S : ~(y[1] = "neighbor" /\ y[2] = peer
                                                    /\ y[3] = "remote-as")} \cup {x}))
    BY DEF Asked, WithProcesses, Put, In
  <2>2. {y \in S : ~(y[1] = "neighbor" /\ y[2] = peer /\ y[3] = "remote-as")} = L
    <3> HIDE DEF S
    <3> QED  BY <1>f DEF Left
  <2> QED  BY <2>1, <2>2
<1>w. old # {} => was \in old  OBVIOUS
<1>u. \A y, z \in S : y[1] = "neighbor" /\ z[1] = "neighbor" /\ y[2] = z[2]
                        /\ y[3] = "remote-as" /\ z[3] = "remote-as" => y = z
  OBVIOUS
<1>k. k \in 0..Len(lines)  BY <1>2 DEF Rendered
<1>r. x \in R  OBVIOUS
<1>m. moved <=> p \in DOMAIN T /\ old # {}  OBVIOUS
<1> HIDE DEF x, p, T, S, was, old, peer, moved
<1>7. \A A : AddedTo(A, x) = A \cup {x}  BY <1>6 DEF AddedTo
<1>8. ~moved => L = S
  <2> SUFFICES ASSUME ~moved PROVE L = S  OBVIOUS
  <2>1. CASE p \in DOMAIN T  BY <1>3, <1>f, <1>m, <2>1 DEF Left
  <2>2. CASE p \notin DOMAIN T
    <3>1. S = {}  BY <2>2 DEF S, In
    <3> QED  BY <3>1 DEF Left
  <2> QED  BY <2>1, <2>2
<1>9. Left(S, peer) = L /\ Left(L, peer) = L /\ Left(R, peer) = L  BY <1>6 DEF Left
<1>a. moved => AddedTo(L, was) = S
  <2> SUFFICES ASSUME moved PROVE AddedTo(L, was) = S  OBVIOUS
  <2>1. /\ was \in S /\ was[1] = "neighbor" /\ was[2] = peer
        /\ \A y \in S : y[1] = "neighbor" /\ y[2] = peer => y = was
    BY <1>3, <1>w, <1>u, <1>f, <1>m
  <2>2. AddedTo(L, was) = L \cup {was}  BY <2>1 DEF AddedTo
  <2> QED  BY <2>1, <2>2 DEF Left
<1> HIDE DEF L, R
<1>10. PostCheck(s, Context(s.type, WithProcesses(d, Put(T, p, R))))
  <2>1. WithProcesses(d, Put(T, p, R)).processes = Put(T, p, R)  BY FieldsAre
  <2>2. p \in DOMAIN Put(T, p, R) /\ Put(T, p, R)[p] = R  BY PutHolds
  <2> QED  BY <1>1, <1>r, <2>1, <2>2 DEF PostCheck, Holds, Running, x, p
<1>12. p \in DOMAIN T => \A A \in {S, L, R} : Sent(WithProcesses(d, Put(T, p, A)), inverse)
                                                = WithProcesses(d, Put(T, p, S))
  <2> SUFFICES ASSUME p \in DOMAIN T, NEW A \in {S, L, R}
               PROVE  Sent(WithProcesses(d, Put(T, p, A)), inverse) = WithProcesses(d, Put(T, p, S))
    OBVIOUS
  <2>1. IsTable(Put(T, p, A)) /\ In(Put(T, p, A), p) = A /\ \A b : Put(Put(T, p, A), p, b) = Put(T, p, b)
    BY <1>5, BlocksAre
  <2>2. Left(A, peer) = L  BY <1>9
  <2>3. CASE old = {}
    <3>1. Fills(d, Put(T, p, A), p, Leaving(p, peer), Left(A, peer))  BY <2>1, BlocksFill
    <3>2. L = S  BY <1>8, <1>m, <2>3
    <3> QED  BY <2>1, <2>2, <2>3, <3>1, <3>2 DEF Fills
  <2>4. CASE old # {}
    <3>1. Sent(WithProcesses(d, Put(T, p, A)), Moving(p, peer, was))
            = WithProcesses(d, Put(Put(T, p, A), p, AddedTo(Left(A, peer), was)))
      BY <2>1, MovingFills
    <3>2. AddedTo(L, was) = S  BY <1>a, <1>m, <2>4
    <3> QED  BY <2>1, <2>2, <2>4, <3>1, <3>2
  <2> QED  BY <2>3, <2>4
<1>s. p \notin DOMAIN T => inverse = Stopping(p)  OBVIOUS
<1>13. /\ \/ Sent(d, SubSeq(lines, 1, k)) = d
          \/ \E A \in {S, L, R} : Sent(d, SubSeq(lines, 1, k)) = WithProcesses(d, Put(T, p, A))
       /\ k = Len(lines) => Sent(d, SubSeq(lines, 1, k)) = WithProcesses(d, Put(T, p, R))
  <2>1. CASE moved
    <3>1. lines = Moving(p, peer, x)  BY <2>1
    <3> HIDE DEF lines
    <3>2. /\ Len(Moving(p, peer, x)) = 3
          /\ Sent(WithProcesses(d, T), SubSeq(Moving(p, peer, x), 1, 0)) = WithProcesses(d, T)
          /\ Sent(WithProcesses(d, T), SubSeq(Moving(p, peer, x), 1, 1)) = WithProcesses(d, Put(T, p, S))
          /\ Sent(WithProcesses(d, T), SubSeq(Moving(p, peer, x), 1, 2)) = WithProcesses(d, Put(T, p, L))
          /\ Sent(WithProcesses(d, T), SubSeq(Moving(p, peer, x), 1, 3)) =
               WithProcesses(d, Put(T, p, AddedTo(L, x)))
      BY <1>5, MovingFills DEF S, L
    <3>3. AddedTo(L, x) = R  BY <1>7 DEF R
    <3>4. Len(lines) = 3  BY <3>1, <3>2
    <3>5. k \in {0, 1, 2, 3}  BY <1>k, <3>4
    <3> QED  BY <1>5, <3>1, <3>2, <3>3, <3>4, <3>5
  <2>2. CASE ~moved
    <3>1. lines = Adding(p, x)  BY <2>2
    <3> HIDE DEF lines
    <3>2. Fills(d, T, p, Adding(p, x), AddedTo(S, x))  BY <1>5, BlocksFill DEF S
    <3>3. AddedTo(S, x) = R  BY <1>7, <1>8, <2>2 DEF R
    <3>4. Len(lines) = 2  BY <3>1, <3>2 DEF Fills
    <3>5. k \in {0, 1, 2}  BY <1>k, <3>4
    <3> QED  BY <1>5, <3>1, <3>2, <3>3, <3>4, <3>5 DEF Fills, S
  <2> QED  BY <2>1, <2>2
<1> HIDE DEF lines, inverse
<1> QED
  BY <1>0, <1>2, <1>s, <1>4, <1>10, <1>12, <1>13, ProcessWhole DEF T, S

-----------------------------------------------------------------------------
(* Changes of the VLANs of a port                                          *)

\* A device that has a VLAN database.
Switching(d) == DOMAIN d.vlans # {}

\* Two or three fields of a port, in its block.
OnPort2(f, v, g, w)       == <<Port, <<"set", f, v>>, <<"set", g, w>>>>
OnPort3(f, v, g, w, h, u) == <<Port, <<"set", f, v>>, <<"set", g, w>>, <<"set", h, u>>>>

\* What those lines do on a device that refuses none of them.
LEMMA TwoOnThePort ==
  ASSUME NEW d, NEW f, NEW v, NEW g, NEW w,
         Switching(d), Switching(WithPort(d, f, v))
  PROVE  /\ Len(OnPort2(f, v, g, w)) = 3
         /\ Sent(d, OnPort2(f, v, g, w)) = WithPort(WithPort(d, f, v), g, w)
         /\ Sent(d, SubSeq(OnPort2(f, v, g, w), 1, 0)) = d
         /\ Sent(d, SubSeq(OnPort2(f, v, g, w), 1, 1)) = d
         /\ Sent(d, SubSeq(OnPort2(f, v, g, w), 1, 2)) = WithPort(d, f, v)
         /\ Sent(d, SubSeq(OnPort2(f, v, g, w), 1, 3)) = WithPort(WithPort(d, f, v), g, w)
<1> DEFINE b == <<"set", f, v>>
           c == <<"set", g, w>>
           e == WithPort(d, f, v)
           both == WithPort(e, g, w)
<1>1. Do(StateOf(d, NoBlock), Port) = StateOf(d, NoBlock)  BY InterfaceLine DEF Port
<1>2. Do(StateOf(d, NoBlock), b) = StateOf(e, NoBlock)  BY PortLines DEF Switching
<1> HIDE DEF e
<1>3. Do(StateOf(e, NoBlock), c) = StateOf(both, NoBlock)  BY PortLines DEF e, Switching
<1> HIDE DEF b, c, both
<1>4. /\ Do(StateOf(d, NoBlock), Port) = StateOf(d, NoBlock)
      /\ Do(Do(StateOf(d, NoBlock), Port), b) = StateOf(e, NoBlock)
      /\ Do(Do(Do(StateOf(d, NoBlock), Port), b), c) = StateOf(both, NoBlock)
  BY <1>1, <1>2, <1>3
<1>5. /\ Do(StateOf(d, NoBlock), Port).dev = d
      /\ Do(Do(StateOf(d, NoBlock), Port), b).dev = e
      /\ Do(Do(Do(StateOf(d, NoBlock), Port), b), c).dev = both
  BY <1>4, AtIs
<1>6. /\ Len(<<Port, b, c>>) = 3
      /\ Sent(d, <<Port, b, c>>) = both
      /\ Sent(d, SubSeq(<<Port, b, c>>, 1, 0)) = d
      /\ Sent(d, SubSeq(<<Port, b, c>>, 1, 1)) = d
      /\ Sent(d, SubSeq(<<Port, b, c>>, 1, 2)) = e
      /\ Sent(d, SubSeq(<<Port, b, c>>, 1, 3)) = both
  BY <1>5, ThreeLines
<1> QED  BY <1>6 DEF b, c, e, both, OnPort2

\* The same of three fields
LEMMA ThreeOnThePort ==
  ASSUME NEW d, NEW f, NEW v, NEW g, NEW w, NEW h, NEW u,
         Switching(d), Switching(WithPort(d, f, v)),
         Switching(WithPort(WithPort(d, f, v), g, w))
  PROVE  /\ Len(OnPort3(f, v, g, w, h, u)) = 4
         /\ Sent(d, SubSeq(OnPort3(f, v, g, w, h, u), 1, 4)) =
              WithPort(WithPort(WithPort(d, f, v), g, w), h, u)
<1> DEFINE a == <<"set", f, v>>
           b == <<"set", g, w>>
           c == <<"set", h, u>>
           x == WithPort(d, f, v)
           y == WithPort(x, g, w)
           z == WithPort(y, h, u)
<1>1. Do(StateOf(d, NoBlock), Port) = StateOf(d, NoBlock)  BY InterfaceLine DEF Port
<1>2. Do(StateOf(d, NoBlock), a) = StateOf(x, NoBlock)  BY PortLines DEF Switching
<1> HIDE DEF x
<1>3. Do(StateOf(x, NoBlock), b) = StateOf(y, NoBlock)  BY PortLines DEF x, Switching
<1>y. DOMAIN y.vlans # {}  BY DEF x, Switching
<1> HIDE DEF y
<1>4. Do(StateOf(y, NoBlock), c) = StateOf(z, NoBlock)  BY <1>y, PortLines
<1> HIDE DEF a, b, c, z
<1>5. Do(Do(Do(Do(StateOf(d, NoBlock), Port), a), b), c) = StateOf(z, NoBlock)
  BY <1>1, <1>2, <1>3, <1>4
<1>6. Do(Do(Do(Do(StateOf(d, NoBlock), Port), a), b), c).dev = z  BY <1>5, AtIs
<1>7. /\ Len(<<Port, a, b, c>>) = 4
      /\ Sent(d, SubSeq(<<Port, a, b, c>>, 1, 4)) = z
  BY <1>6, FourLines
<1> QED  BY <1>7 DEF a, b, c, x, y, z, OnPort3

\* A port becomes an access port; a device without VLANs refuses it in the
\* middle of the batch.
LEMMA AccessWhole ==
  ASSUME NEW s, s.type = "interface_access_vlan", NEW d \in Configurations, NEW k \in 0..3,
         DOMAIN d.vlans # {} => s.value \in DOMAIN d.vlans
  PROVE  AllOrNothing(s, d, d, k)
<1> DEFINE v == s.value
           h == IF Holder(d) = 0 THEN 1 ELSE Holder(d)
           lines   == OnPort2("mode", "static access", "access", v)
           inverse == <<Port, <<"set", "access", h>>>>
           after   == Sent(d, SubSeq(lines, 1, k))
           both    == WithPort(WithPort(d, "mode", "static access"), "access", v)
<1>1. \A e : Context("interface_access_vlan", e).holder = Holder(e)
  BY DEF Context, Needed, Facts, OnInterface, OnProcess
<1>2. Render(s, Context(s.type, d)) = Rendered(lines, inverse)
  BY <1>1 DEF Render, RenderAccessVlan, OnPort2
<1>3. CASE DOMAIN d.vlans = {}
  <2>1. NotFound(s, d) /\ NotPutBack(s, d)  BY <1>3 DEF NotFound, NotPutBack
  <2> HIDE DEF lines, inverse
  <2> QED  BY <1>2, <2>1, WholeOrNothing
<1>4. CASE DOMAIN d.vlans # {}
  <2>1. v \in DOMAIN d.vlans  BY <1>4
  <2>2. Asked(s, d) = both  BY DEF Asked, WithPort, Configurations, SwitchPorts
  <2>3. 0 \notin DOMAIN d.vlans  BY DEF Configurations, VlanTables
  <2>4. ~NotPutBack(s, d) => /\ d.port.mode = "static access"
                             /\ h = d.port.access
    BY <2>3 DEF NotPutBack, Holder
  <2>5. /\ WithPort(d, "mode", "static access").vlans = d.vlans
        /\ both.vlans = d.vlans
        /\ both.port.mode = "static access" /\ both.port.access = v
    BY DEF WithPort, Configurations, SwitchPorts
  <2>6. Holder(both) = v  BY <2>1, <2>5 DEF Holder
  <2>7. ~NotPutBack(s, d) => /\ WithPort(d, "access", h) = d
                             /\ WithPort(WithPort(d, "mode", "static access"), "access", h) = d
                             /\ WithPort(both, "access", h) = d
    <3> SUFFICES ASSUME ~NotPutBack(s, d)
                 PROVE  /\ WithPort(d, "access", h) = d
                        /\ WithPort(WithPort(d, "mode", "static access"), "access", h) = d
                        /\ WithPort(both, "access", h) = d
      OBVIOUS
    <3>1. d.port.mode = "static access" /\ h = d.port.access  BY <2>4
    <3> HIDE DEF h
    <3> QED  BY <3>1, ZenonT(40) DEF WithPort, Configurations, SwitchPorts
  <2>8. k \in {0, 1, 2, 3}  OBVIOUS
  <2> HIDE DEF v, h, both
  <2>9. /\ Len(lines) = 3
        /\ after = IF k = 3 THEN both
                   ELSE IF k = 2 THEN WithPort(d, "mode", "static access") ELSE d
    <3> DEFINE w == "static access"
    <3>1. Switching(d) /\ Switching(WithPort(d, "mode", w))
      BY <1>4, <2>5 DEF Switching
    <3>2. lines = OnPort2("mode", w, "access", v) /\ both = WithPort(WithPort(d, "mode", w), "access", v)
      BY DEF both
    <3> HIDE DEF lines, w
    <3>3. /\ Len(lines) = 3
          /\ Sent(d, SubSeq(lines, 1, 0)) = d
          /\ Sent(d, SubSeq(lines, 1, 1)) = d
          /\ Sent(d, SubSeq(lines, 1, 2)) = WithPort(d, "mode", w)
          /\ Sent(d, SubSeq(lines, 1, 3)) = both
      BY <3>1, <3>2, TwoOnThePort
    <3> QED  BY <2>8, <3>3 DEF w
  <2>10. \A e : DOMAIN e.vlans # {} => Sent(e, inverse) = WithPort(e, "access", h)
    BY OnThePort
  <2> HIDE DEF lines, inverse, after
  <2>11. ~NotPutBack(s, d) => Sent(after, inverse) = d
    BY <1>4, <2>5, <2>7, <2>8, <2>9, <2>10
  <2>12. ~NotFound(s, d)  BY <1>4 DEF NotFound
  <2>13. k = Len(lines) => after = Asked(s, d) /\ PostCheck(s, Context(s.type, after))
    BY <1>1, <2>2, <2>6, <2>9 DEF PostCheck, v
  <2> QED  BY <1>2, <2>11, <2>12, <2>13, WholeOrNothing DEF after
<1> QED  BY <1>3, <1>4

\* A port becomes a trunk, or its list of VLANs is another.
LEMMA TrunkWhole ==
  ASSUME NEW s, s.type = "interface_trunk_vlans", NEW d \in Configurations,
         NEW k \in 0..Len(Render(s, Context(s.type, d)).lines), DOMAIN d.vlans # {}
  PROVE  AllOrNothing(s, d, d, k)
<1> DEFINE p == d.port
           v == Listed(Ranges(s.value))
           b == IF p.allowed.word = "NONE" THEN Every ELSE p.allowed
           m == p.mode
           x == WithPort(d, "mode", "trunk")
           y == WithPort(WithPort(d, "encapsulation", "dot1q"), "mode", "trunk")
           one   == <<Port, <<"set", "allowed", v>>>>
           two   == OnPort2("mode", "trunk", "allowed", v)
           three == OnPort3("encapsulation", "dot1q", "mode", "trunk", "allowed", v)
           lines == IF m = "trunk" THEN one ELSE IF p.encapsulation = "negotiate" THEN three ELSE two
           inverse == IF m = "trunk" THEN <<Port, <<"set", "allowed", b>>>>
                      ELSE OnPort2("allowed", b, "mode", m)
           after == Sent(d, SubSeq(lines, 1, k))
<1>1. \A e : LET c == Context("interface_trunk_vlans", e).switchport
             IN  c.mode = e.port.mode /\ c.allowed = e.port.allowed
                   /\ c.encapsulation = e.port.encapsulation
  BY DEF Context, Needed, Facts, OnInterface, OnProcess, SwitchportFacts
<1>2. Render(s, Context(s.type, d)) = Rendered(lines, inverse)
  <2>1. Render(s, Context(s.type, d)) = RenderTrunk(s, Context(s.type, d))  BY DEF Render
  <2>2. CASE m = "trunk"  BY <1>1, <2>1, <2>2 DEF RenderTrunk
  <2>3. CASE m # "trunk" /\ p.encapsulation = "negotiate"
    BY <1>1, <2>1, <2>3 DEF RenderTrunk, OnPort2, OnPort3
  <2>4. CASE m # "trunk" /\ p.encapsulation # "negotiate"
    BY <1>1, <2>1, <2>4 DEF RenderTrunk, OnPort2
  <2> QED  BY <2>2, <2>3, <2>4
<1>k. k \in 0..Len(lines)
  <2> HIDE DEF lines, inverse
  <2> QED  BY <1>2 DEF Rendered
<1>3. Asked(s, d) = IF m = "trunk" THEN WithPort(d, "allowed", v)
                    ELSE IF p.encapsulation = "negotiate" THEN WithPort(y, "allowed", v)
                    ELSE WithPort(x, "allowed", v)
  <2> DEFINE enc == IF p.encapsulation = "negotiate" /\ m # "trunk" THEN "dot1q" ELSE p.encapsulation
             all == WithPort(WithPort(WithPort(d, "mode", "trunk"), "allowed", v), "encapsulation", enc)
  <2>0. d.port.encapsulation = p.encapsulation /\ d.port.mode = m  OBVIOUS
  <2> HIDE DEF v
  <2>1. Asked(s, d) = all
    BY DEF Asked, v, WithPort, Configurations, SwitchPorts
  <2>2. CASE m = "trunk"
    <3>1. enc = p.encapsulation  BY <2>2
    <3> HIDE DEF enc
    <3>2. all = WithPort(d, "allowed", v)  BY <2>2, <3>1, ZenonT(40) DEF WithPort, Configurations, SwitchPorts
    <3> QED  BY <2>1, <2>2, <3>2
  <2>3. CASE m # "trunk" /\ p.encapsulation = "negotiate"
    <3>1. enc = "dot1q"  BY <2>3
    <3> HIDE DEF enc
    <3>2. all = WithPort(y, "allowed", v)  BY <3>1 DEF WithPort, Configurations, SwitchPorts
    <3> QED  BY <2>1, <2>3, <3>2
  <2>4. CASE m # "trunk" /\ p.encapsulation # "negotiate"
    <3>1. enc = p.encapsulation  BY <2>4
    <3> HIDE DEF enc
    <3>2. all = WithPort(x, "allowed", v)  BY <3>1 DEF WithPort, Configurations, SwitchPorts
    <3> QED  BY <2>1, <2>4, <3>2
  <2> QED  BY <2>2, <2>3, <2>4
<1>4. ~NotPutBack(s, d) => b = p.allowed /\ ~(m # "trunk" /\ p.encapsulation = "negotiate")
  BY DEF NotPutBack
<1>5. /\ x.vlans = d.vlans /\ y.vlans = d.vlans /\ WithPort(d, "encapsulation", "dot1q").vlans = d.vlans
      /\ WithPort(d, "allowed", v).vlans = d.vlans /\ WithPort(x, "allowed", v).vlans = d.vlans
      /\ WithPort(d, "allowed", b).vlans = d.vlans /\ WithPort(x, "allowed", b).vlans = d.vlans
      /\ WithPort(WithPort(d, "allowed", v), "allowed", b).vlans = d.vlans
      /\ WithPort(WithPort(x, "allowed", v), "allowed", b).vlans = d.vlans
  <2> HIDE DEF v, b
  <2> QED  BY DEF WithPort, Configurations, SwitchPorts
<1>6. /\ WithPort(d, "allowed", v).port.allowed = v /\ WithPort(d, "allowed", v).port.mode = m
      /\ WithPort(x, "allowed", v).port.allowed = v /\ WithPort(x, "allowed", v).port.mode = "trunk"
      /\ WithPort(y, "allowed", v).port.allowed = v /\ WithPort(y, "allowed", v).port.mode = "trunk"
  <2> HIDE DEF v
  <2> QED  BY DEF WithPort, Configurations, SwitchPorts
<1>7. /\ WithPort(d, "allowed", p.allowed) = d
      /\ WithPort(WithPort(d, "allowed", v), "allowed", p.allowed) = d
      /\ WithPort(d, "mode", m) = d
      /\ WithPort(x, "mode", m) = d
      /\ WithPort(WithPort(x, "allowed", p.allowed), "mode", m) = d
      /\ WithPort(WithPort(WithPort(x, "allowed", v), "allowed", p.allowed), "mode", m) = d
  <2> HIDE DEF v
  <2> QED  BY ZenonT(40) DEF WithPort, Configurations, SwitchPorts
<1>8. Expanded(v) = Ranges(s.value)  BY DEF Expanded, Listed
<1>9. \A e : e.port.allowed = v /\ e.port.mode = "trunk" => PostCheck(s, Context(s.type, e))
  BY <1>1, <1>8 DEF PostCheck
<1>10. ~NotFound(s, d)  BY DEF NotFound
<1> HIDE DEF v, b, m, x, y
<1>11. CASE m = "trunk"
  <2>1. lines = one /\ inverse = <<Port, <<"set", "allowed", b>>>>  BY <1>11
  <2>2. Len(one) = 2  OBVIOUS
  <2>3. k \in {0, 1, 2}
    <3> HIDE DEF lines, one
    <3> QED  BY <1>k, <2>1, <2>2
  <2>4. after = IF k = 2 THEN WithPort(d, "allowed", v) ELSE d  BY <2>1, <2>3, OnThePort
  <2>5. \A e : DOMAIN e.vlans # {} => Sent(e, inverse) = WithPort(e, "allowed", b)
    BY <2>1, OnThePort
  <2> HIDE DEF lines, inverse, one, two, three, after
  <2>6. ~NotPutBack(s, d) => Sent(after, inverse) = d  BY <1>4, <1>5, <1>7, <2>4, <2>5
  <2>7. k = Len(lines) => after = Asked(s, d) /\ PostCheck(s, Context(s.type, after))
    BY <1>3, <1>6, <1>9, <1>11, <2>1, <2>2, <2>4
  <2> QED  BY <1>2, <1>10, <2>6, <2>7, WholeOrNothing DEF after
<1>12. CASE m # "trunk" /\ p.encapsulation # "negotiate"
  <2>1. lines = two /\ inverse = OnPort2("allowed", b, "mode", m)  BY <1>12
  <2> HIDE DEF lines, inverse
  <2>2. Switching(d) /\ Switching(x)  BY <1>5 DEF Switching
  <2>3. /\ Len(two) = 3
        /\ Sent(d, SubSeq(two, 1, 0)) = d
        /\ Sent(d, SubSeq(two, 1, 1)) = d
        /\ Sent(d, SubSeq(two, 1, 2)) = x
        /\ Sent(d, SubSeq(two, 1, 3)) = WithPort(x, "allowed", v)
    BY <2>2, TwoOnThePort DEF x
  <2>4. k \in {0, 1, 2, 3}
    <3> HIDE DEF two
    <3> QED  BY <1>k, <2>1, <2>3
  <2> HIDE DEF two
  <2>5. after = IF k = 3 THEN WithPort(x, "allowed", v) ELSE IF k = 2 THEN x ELSE d
    BY <2>1, <2>3, <2>4
  <2>6. \A e : Switching(e) /\ Switching(WithPort(e, "allowed", b)) =>
                 Sent(e, inverse) = WithPort(WithPort(e, "allowed", b), "mode", m)
    BY <2>1, TwoOnThePort
  <2> HIDE DEF after
  <2>7. Switching(after) /\ Switching(WithPort(after, "allowed", b))
    BY <2>5, <1>5 DEF Switching
  <2>8. Sent(after, inverse) = WithPort(WithPort(after, "allowed", b), "mode", m)  BY <2>6, <2>7
  <2>9. ~NotPutBack(s, d) => Sent(after, inverse) = d
    BY <1>4, <1>7, <2>5, <2>8
  <2>10. k = Len(lines) => after = Asked(s, d) /\ PostCheck(s, Context(s.type, after))
    BY <1>3, <1>6, <1>9, <1>12, <2>1, <2>3, <2>5
  <2> QED  BY <1>2, <1>10, <2>9, <2>10, WholeOrNothing DEF after
<1>13. CASE m # "trunk" /\ p.encapsulation = "negotiate"
  <2>1. lines = three /\ NotPutBack(s, d)
    BY <1>4, <1>13
  <2> HIDE DEF lines, inverse
  <2>2. Switching(d) /\ Switching(WithPort(d, "encapsulation", "dot1q")) /\ Switching(y)
    BY <1>5 DEF Switching
  <2>3. Len(three) = 4 /\ Sent(d, SubSeq(three, 1, 4)) = WithPort(y, "allowed", v)
    BY <2>2, ThreeOnThePort DEF y
  <2>4. k = Len(lines) => after = WithPort(y, "allowed", v)  BY <2>1, <2>3
  <2> HIDE DEF after, three
  <2>5. k = Len(lines) => after = Asked(s, d) /\ PostCheck(s, Context(s.type, after))
    BY <1>3, <1>6, <1>9, <1>13, <2>4
  <2> QED  BY <1>2, <1>10, <2>1, <2>5, WholeOrNothing DEF after
<1> QED  BY <1>11, <1>12, <1>13

-----------------------------------------------------------------------------
(* Changes of the routes                                                   *)

\* No two routes of a device are of one prefix and hop.
RoutesApart(rs) == \A r, o \in rs : r.prefix = o.prefix /\ r.hop = o.hop => r = o

\* The routes of a prefix, and the lines that add or withdraw one.
OfPrefix(rs, n) == {r \in rs : r.prefix = n}
Routing(r)      == << <<"route", r>> >>
Unrouting(r)    == << <<"no route", r>> >>
Rerouting(o, r) == << <<"no route", o>>, <<"route", r>> >>
Joined(rs, r)   == Others(rs, r) \cup {r}

\* The first route of a prefix is one, where there is one.
LEMMA FirstIsOne ==
  ASSUME NEW d, d.routes \in SUBSET StaticRoutes, RoutesApart(d.routes), NEW n
  PROVE  /\ FirstRoute(d, n) = {} => OfPrefix(d.routes, n) = {}
         /\ \A o \in FirstRoute(d, n) : FirstRoute(d, n) = {o}
<1> DEFINE rs == d.routes
<1>1. FirstRoute(d, n) = {r \in rs : r.prefix = n /\ \A o \in rs : o.prefix = n => r.hop <= o.hop}
  BY DEF FirstRoute
<1>2. \A r \in rs : r.hop \in Nat  BY DEF StaticRoutes
<1>3. RoutesApart(rs)  OBVIOUS
<1> HIDE DEF rs
<1>4. ASSUME OfPrefix(rs, n) # {} PROVE FirstRoute(d, n) # {}
  <2> DEFINE hops == {r.hop : r \in OfPrefix(rs, n)}
  <2>1. hops \subseteq Nat /\ hops # {}  BY <1>2, <1>4 DEF OfPrefix
  <2>2. PICK h \in hops : \A g \in hops : h <= g
    <3> HIDE DEF hops
    <3> QED  BY <2>1, LeastNatural
  <2>3. PICK r \in OfPrefix(rs, n) : r.hop = h  OBVIOUS
  <2>4. \A o \in rs : o.prefix = n => o.hop \in hops  BY DEF OfPrefix
  <2> HIDE DEF hops
  <2>5. r \in FirstRoute(d, n)  BY <1>1, <2>2, <2>3, <2>4 DEF OfPrefix
  <2> QED  BY <2>5
<1>5. ASSUME NEW o \in FirstRoute(d, n), NEW r \in FirstRoute(d, n) PROVE r = o
  <2>1. /\ o \in rs /\ o.prefix = n /\ r \in rs /\ r.prefix = n
        /\ r.hop <= o.hop /\ o.hop <= r.hop
    BY <1>1
  <2>2. r.hop \in Nat /\ o.hop \in Nat  BY <1>2, <2>1
  <2>3. r.hop = o.hop  BY <2>1, <2>2
  <2> QED  BY <1>3, <2>1, <2>3 DEF RoutesApart
<1> QED  BY <1>4, <1>5 DEF rs

\* What the lines of a route do to the routes of a device.
LEMMA RoutingLines ==
  ASSUME NEW d \in Configurations, NEW Q, NEW o, NEW r
  PROVE  /\ Len(Routing(r)) = 1
         /\ Sent(WithRoutes(d, Q), Routing(r)) = WithRoutes(d, Joined(Q, r))
         /\ Sent(WithRoutes(d, Q), SubSeq(Routing(r), 1, 0)) = WithRoutes(d, Q)
         /\ Sent(WithRoutes(d, Q), SubSeq(Routing(r), 1, 1)) = WithRoutes(d, Joined(Q, r))
         /\ Sent(WithRoutes(d, Q), Unrouting(r)) = WithRoutes(d, Others(Q, r))
         /\ Len(Rerouting(o, r)) = 2
         /\ Sent(WithRoutes(d, Q), Rerouting(o, r)) = WithRoutes(d, Joined(Others(Q, o), r))
         /\ Sent(WithRoutes(d, Q), SubSeq(Rerouting(o, r), 1, 0)) = WithRoutes(d, Q)
         /\ Sent(WithRoutes(d, Q), SubSeq(Rerouting(o, r), 1, 1)) = WithRoutes(d, Others(Q, o))
         /\ Sent(WithRoutes(d, Q), SubSeq(Rerouting(o, r), 1, 2)) =
              WithRoutes(d, Joined(Others(Q, o), r))
<1> DEFINE e == WithRoutes(d, Q)
           add == <<"route", r>>
           no  == <<"no route", r>>
           out == <<"no route", o>>
           P   == Others(Q, o)
           J   == Joined(Q, r)
           K   == Joined(P, r)
           N   == Others(Q, r)
<1>1. e.routes = Q /\ WithRoutes(d, P).routes = P  BY FieldsAre
<1>2. Do(StateOf(e, NoBlock), add) = StateOf(WithRoutes(e, J), NoBlock)  BY <1>1, RouteLine DEF Joined
<1>3. Do(StateOf(e, NoBlock), no) = StateOf(WithRoutes(e, N), NoBlock)  BY <1>1, NoRouteLine
<1>4. Do(StateOf(e, NoBlock), out) = StateOf(WithRoutes(e, P), NoBlock)  BY <1>1, NoRouteLine
<1>5. Do(StateOf(WithRoutes(d, P), NoBlock), add) = StateOf(WithRoutes(WithRoutes(d, P), K), NoBlock)
  BY <1>1, RouteLine DEF Joined
<1>6. /\ WithRoutes(e, J) = WithRoutes(d, J) /\ WithRoutes(e, N) = WithRoutes(d, N)
      /\ WithRoutes(e, P) = WithRoutes(d, P)
      /\ WithRoutes(WithRoutes(d, P), K) = WithRoutes(d, K)
  BY FieldsAre
<1> HIDE DEF add, no, out, e, P, J, K, N
<1>7. /\ Do(StateOf(e, NoBlock), add) = StateOf(WithRoutes(d, J), NoBlock)
      /\ Do(StateOf(e, NoBlock), no) = StateOf(WithRoutes(d, N), NoBlock)
      /\ Do(StateOf(e, NoBlock), out) = StateOf(WithRoutes(d, P), NoBlock)
      /\ Do(Do(StateOf(e, NoBlock), out), add) = StateOf(WithRoutes(d, K), NoBlock)
  BY <1>2, <1>3, <1>4, <1>5, <1>6
<1>8. /\ Do(StateOf(e, NoBlock), add).dev = WithRoutes(d, J)
      /\ Do(StateOf(e, NoBlock), no).dev = WithRoutes(d, N)
      /\ Do(StateOf(e, NoBlock), out).dev = WithRoutes(d, P)
      /\ Do(Do(StateOf(e, NoBlock), out), add).dev = WithRoutes(d, K)
  BY <1>7, AtIs
<1>9. /\ Len(<<add>>) = 1
      /\ Sent(e, <<add>>) = WithRoutes(d, J)
      /\ Sent(e, SubSeq(<<add>>, 1, 0)) = e
      /\ Sent(e, SubSeq(<<add>>, 1, 1)) = WithRoutes(d, J)
      /\ Sent(e, <<no>>) = WithRoutes(d, N)
  BY <1>8, OneLine
<1>10. /\ Len(<<out, add>>) = 2
       /\ Sent(e, <<out, add>>) = WithRoutes(d, K)
       /\ Sent(e, SubSeq(<<out, add>>, 1, 0)) = e
       /\ Sent(e, SubSeq(<<out, add>>, 1, 1)) = WithRoutes(d, P)
       /\ Sent(e, SubSeq(<<out, add>>, 1, 2)) = WithRoutes(d, K)
  BY <1>8, TwoLines
<1> QED
  BY <1>9, <1>10 DEF add, no, out, e, P, J, K, N, Routing, Unrouting, Rerouting

\* What becomes of the routes of a device.
LEMMA OthersAre ==
  ASSUME NEW rs, RoutesApart(rs), NEW o \in rs, NEW r, r.prefix = o.prefix
  PROVE  /\ Others(rs, o) = rs \ {o}
         /\ Others(Joined(Others(rs, o), r), r) = Others(Others(rs, o), r)
         /\ r.hop # o.hop /\ (\A x \in rs \ {o} : x.prefix = r.prefix => x.hop # r.hop) =>
              Others(rs, r) = rs
         /\ r.hop = o.hop => Others(rs, r) = rs \ {o}
         /\ (\A x \in rs \ {o} : x.prefix = r.prefix => x.hop # r.hop) =>
              Others(Others(rs, o), r) = rs \ {o}
         /\ Joined(rs, o) = rs
         /\ Joined(rs \ {o}, o) = rs
<1>1. \A q, y : Others(q, y) = {x \in q : x.prefix # y.prefix \/ x.hop # y.hop}
  BY DEF Others
<1>2. Others(rs, o) = rs \ {o}  BY <1>1 DEF RoutesApart
<1>3. \A q, y : Others(q \cup {y}, y) = Others(q, y)  BY <1>1
<1>4. Others(Joined(Others(rs, o), r), r) = Others(Others(rs, o), r)
  <2>1. \A q : Others(Others(q, r), r) = Others(q, r)  BY <1>1
  <2> QED  BY <2>1, <1>3 DEF Joined
<1>5. r.hop # o.hop /\ (\A x \in rs \ {o} : x.prefix = r.prefix => x.hop # r.hop) =>
        Others(rs, r) = rs
  BY <1>1
<1>6. r.hop = o.hop => Others(rs, r) = rs \ {o}
  <2>1. r.hop = o.hop => Others(rs, r) = Others(rs, o)  BY <1>1
  <2> QED  BY <1>2, <2>1
<1>7. (\A x \in rs \ {o} : x.prefix = r.prefix => x.hop # r.hop) =>
        Others(Others(rs, o), r) = rs \ {o}
  BY <1>1, <1>2
<1>8. Joined(rs, o) = rs  BY <1>2 DEF Joined
<1>9. Joined(rs \ {o}, o) = rs
  <2>1. Others(rs \ {o}, o) = rs \ {o}  BY <1>1, <1>2
  <2> QED  BY <2>1 DEF Joined
<1> QED  BY <1>2, <1>4, <1>5, <1>6, <1>7, <1>8, <1>9

FirstOf(rs, n) == {x \in rs : x.prefix = n /\ \A y \in rs : y.prefix = n => x.hop <= y.hop}
\* A route is added, or put in the place of the first one of its prefix.
LEMMA StaticRouteWhole ==
  ASSUME NEW s, s.type = "static_route", NEW d \in Configurations, RoutesApart(d.routes),
         s.value \in Nat, NEW k \in 0..Len(Render(s, Context(s.type, d)).lines)
  PROVE  AllOrNothing(s, d, d, k)
<1> DEFINE n == s.target
           h == s.value
           r == [prefix |-> n, hop |-> h, options |-> ""]
           rs == d.routes
           F == FirstRoute(d, n)
           o == CHOOSE x \in F : TRUE
           lines   == IF F = {} THEN Routing(r) ELSE Rerouting(o, r)
           inverse == IF F = {} THEN Unrouting(r) ELSE Rerouting(r, o)
           after   == Sent(d, SubSeq(lines, 1, k))
           asked   == {x \in rs : x.prefix = n => x \notin F /\ x.hop # h} \cup {r}
<1>0. \A e : FirstRoute(e, n) = FirstOf(e.routes, n)
  BY DEF FirstRoute, FirstOf
<1>1. \A e : Context("static_route", e).routes = e.routes
  BY DEF Context, Needed, Facts, OnInterface, OnProcess
<1>2. \A e : FirstRoute(Context(s.type, e), n) = FirstRoute(e, n)  BY <1>1 DEF FirstRoute
<1>3. Render(s, Context(s.type, d)) = Rendered(lines, inverse)
  <2>1. Render(s, Context(s.type, d)) = RenderRoute(s, Context(s.type, d))  BY DEF Render
  <2>2. CASE F = {}  BY <1>2, <2>1, <2>2 DEF RenderRoute, Routing, Unrouting
  <2>3. CASE F # {}  BY <1>2, <2>1, <2>3 DEF RenderRoute, Rerouting
  <2> QED  BY <2>2, <2>3
<1>4. Asked(s, d) = WithRoutes(d, asked)  BY DEF Asked, WithRoutes
<1>k. k \in 0..Len(lines)
  <2> HIDE DEF lines, inverse
  <2> QED  BY <1>3 DEF Rendered
<1>5. r.prefix = n /\ r.hop = h /\ h \in Nat  OBVIOUS
<1>6. WithRoutes(d, rs) = d /\ \A Q : WithRoutes(d, Q).routes = Q  BY FieldsAre
<1>7. \A x \in rs : x.hop \in Nat  BY DEF Configurations, StaticRoutes
<1>8. d.routes \in SUBSET StaticRoutes  BY DEF Configurations
<1>9. /\ F = {} => OfPrefix(rs, n) = {}
      /\ F # {} => F = {o} /\ o \in rs /\ o.prefix = n
                    /\ \A x \in rs : x.prefix = n => o.hop <= x.hop
  <2>1. F = {} => OfPrefix(rs, n) = {}  BY <1>8, FirstIsOne
  <2>2. F # {} => o \in F /\ F = {o}  BY <1>8, FirstIsOne
  <2>3. F # {} => o \in rs /\ o.prefix = n /\ \A x \in rs : x.prefix = n => o.hop <= x.hop
    <3>1. F # {} => o \in F  BY <2>2
    <3> HIDE DEF o
    <3> QED  BY <3>1, <1>0 DEF FirstOf
  <2> QED  BY <2>1, <2>2, <2>3
<1>10. \A Q, y : Others(Q, y) = {x \in Q : x.prefix # y.prefix \/ x.hop # y.hop}
  BY DEF Others
<1>11. RoutesApart(rs)  OBVIOUS
<1>12. PostCheck(s, Context(s.type, WithRoutes(d, asked))) <=>
         {x.hop : x \in FirstRoute(WithRoutes(d, asked), n)} = {h}
  <2> DEFINE e == WithRoutes(d, asked)
  <2>1. FirstRoute(Context(s.type, e), n) = FirstRoute(e, n)  BY <1>2
  <2>2. PostCheck(s, Context(s.type, e)) <=> {x.hop : x \in FirstRoute(Context(s.type, e), n)} = {h}
    BY DEF PostCheck
  <2> DEFINE A == FirstRoute(Context(s.type, e), n)
             B == FirstRoute(e, n)
  <2>3. A = B /\ (PostCheck(s, Context(s.type, e)) <=> {x.hop : x \in A} = {h})  BY <2>1, <2>2
  <2> HIDE DEF A, B
  <2>4. {x.hop : x \in A} = {x.hop : x \in B}  BY <2>3
  <2> QED  BY <2>3, <2>4 DEF B
<1>13. FirstRoute(WithRoutes(d, asked), n) =
         {x \in asked : x.prefix = n /\ \A y \in asked : y.prefix = n => x.hop <= y.hop}
  <2> DEFINE e == WithRoutes(d, asked)
  <2>1. e.routes = asked  BY <1>6
  <2> HIDE DEF e, asked
  <2>2. FirstRoute(e, n) = FirstOf(asked, n)  BY <1>0, <2>1
  <2>3. FirstOf(asked, n) = {x \in asked : x.prefix = n /\ \A y \in asked : y.prefix = n => x.hop <= y.hop}
    BY DEF FirstOf
  <2> QED  BY <2>2, <2>3 DEF e
<1>14. NotFound(s, d) <=> \E x \in rs \ F : x.prefix = n /\ x.hop < h  BY DEF NotFound
<1>15. NotPutBack(s, d) <=> \E x \in rs \ F : x.prefix = n /\ x.hop = h  BY DEF NotPutBack
<1> HIDE DEF r, n, h, rs, F, o
<1>16. \A x \in asked : x = r \/ (x \in rs /\ (x.prefix = n => x \notin F /\ x.hop # h))
  OBVIOUS
<1>17. r \in asked  OBVIOUS
<1>18. ~NotFound(s, d) => PostCheck(s, Context(s.type, WithRoutes(d, asked)))
  <2> SUFFICES ASSUME ~NotFound(s, d)
               PROVE  {x.hop : x \in FirstRoute(WithRoutes(d, asked), n)} = {h}
    BY <1>12
  <2>1. \A x \in rs : x.prefix = n /\ x \notin F /\ x.hop # h => h < x.hop
    BY <1>5, <1>7, <1>14
  <2>2. \A x \in asked : x.prefix = n => x = r \/ h < x.hop  BY <1>16, <2>1
  <2> HIDE DEF asked
  <2>3. \A x \in asked : x.prefix = n => h <= x.hop
    <3> SUFFICES ASSUME NEW x \in asked, x.prefix = n PROVE h <= x.hop  OBVIOUS
    <3>1. CASE x = r  BY <3>1, <1>5
    <3>2. CASE x # r
      <4>1. h < x.hop /\ x.hop \in Nat  BY <1>7, <1>16, <2>2, <3>2
      <4> QED  BY <4>1, <1>5
    <3> QED  BY <3>1, <3>2
  <2>4. \A x \in asked : x.prefix = n /\ x # r => ~(x.hop <= h)
    <3> SUFFICES ASSUME NEW x \in asked, x.prefix = n, x # r PROVE ~(x.hop <= h)  OBVIOUS
    <3>1. h < x.hop  BY <2>2
    <3>2. x.hop \in Nat  BY <1>7, <1>16
    <3> QED  BY <3>1, <3>2, <1>5
  <2>5. FirstRoute(WithRoutes(d, asked), n) = {r}
    <3>1. r \in FirstRoute(WithRoutes(d, asked), n)  BY <1>5, <1>13, <1>17, <2>3
    <3>2. \A x \in FirstRoute(WithRoutes(d, asked), n) : x = r
      BY <1>5, <1>13, <1>17, <2>4
    <3> QED  BY <3>1, <3>2
  <2>6. r.hop = h  BY <1>5
  <2> QED  BY <2>5, <2>6
<1>19. NotFound(s, d) => ~PostCheck(s, Context(s.type, WithRoutes(d, asked)))
  <2> SUFFICES ASSUME NotFound(s, d),
                      {x.hop : x \in FirstRoute(WithRoutes(d, asked), n)} = {h}
               PROVE  FALSE
    BY <1>12
  <2>1. PICK x \in rs \ F : x.prefix = n /\ x.hop < h  BY <1>14
  <2>2. x \in asked  BY <2>1, <1>5, <1>7
  <2>3. PICK y \in FirstRoute(WithRoutes(d, asked), n) : y.hop = h  OBVIOUS
  <2>4. y.hop <= x.hop  BY <1>13, <2>1, <2>2
  <2>5. x.hop \in Nat  BY <1>7
  <2> QED  BY <1>5, <2>1, <2>3, <2>4, <2>5
<1>20. CASE F = {}
  <2>1. lines = Routing(r) /\ inverse = Unrouting(r)  BY <1>20
  <2>2. \A x \in rs : x.prefix # n  BY <1>9, <1>20 DEF OfPrefix
  <2>3. asked = rs \cup {r}  BY <2>2
  <2>4. Others(rs, r) = rs  BY <1>5, <1>10, <2>2
  <2>5. Joined(rs, r) = asked /\ Others(asked, r) = rs
    <3>1. Others(rs \cup {r}, r) = Others(rs, r)  BY <1>10
    <3> QED  BY <2>3, <2>4, <3>1 DEF Joined
  <2> HIDE DEF lines, inverse, asked
  <2>6. Len(Routing(r)) = 1  BY RoutingLines
  <2>7. k \in {0, 1} /\ Len(lines) = 1  BY <1>k, <2>1, <2>6
  <2>8. /\ Sent(WithRoutes(d, rs), SubSeq(Routing(r), 1, 0)) = WithRoutes(d, rs)
        /\ Sent(WithRoutes(d, rs), SubSeq(Routing(r), 1, 1)) = WithRoutes(d, Joined(rs, r))
        /\ Sent(WithRoutes(d, rs), Unrouting(r)) = WithRoutes(d, Others(rs, r))
        /\ Sent(WithRoutes(d, asked), Unrouting(r)) = WithRoutes(d, Others(asked, r))
    BY RoutingLines, SMTT(30)
  <2>9. after = IF k = 0 THEN d ELSE WithRoutes(d, asked)  BY <1>6, <2>1, <2>5, <2>7, <2>8
  <2> HIDE DEF after
  <2>10. Sent(after, inverse) = d  BY <1>6, <2>1, <2>4, <2>5, <2>7, <2>8, <2>9
  <2>11. ~NotFound(s, d)  BY <1>14, <2>2
  <2>12. k = Len(lines) => after = Asked(s, d) /\ PostCheck(s, Context(s.type, after))
    BY <1>4, <1>18, <2>7, <2>9, <2>11
  <2> QED  BY <1>3, <2>10, <2>11, <2>12, WholeOrNothing DEF after
<1>21. CASE F # {}
  <2>1. lines = Rerouting(o, r) /\ inverse = Rerouting(r, o)  BY <1>21
  <2>2. F = {o} /\ o \in rs /\ o.prefix = n  BY <1>9, <1>21
  <2>3. r.prefix = o.prefix  BY <1>5, <2>2
  <2> DEFINE P == Others(rs, o)
             K == Joined(P, r)
  <2>4. P = rs \ {o}  BY <1>11, <2>2, <2>3, OthersAre
  <2>5. K = asked
    <3>1. Others(P, r) = {x \in rs \ {o} : x.prefix # n \/ x.hop # h}  BY <1>5, <1>10, <2>4
    <3>2. {x \in rs \ {o} : x.prefix # n \/ x.hop # h}
            = {x \in rs : x.prefix = n => x \notin F /\ x.hop # h}
      BY <2>2
    <3> QED  BY <3>1, <3>2 DEF Joined
  <2>6. ~NotPutBack(s, d) => /\ Joined(Others(rs, r), o) = rs
                             /\ Joined(Others(P, r), o) = rs
                             /\ Joined(Others(K, r), o) = rs
    <3> SUFFICES ASSUME ~NotPutBack(s, d)
                 PROVE  /\ Joined(Others(rs, r), o) = rs
                        /\ Joined(Others(P, r), o) = rs
                        /\ Joined(Others(K, r), o) = rs
      OBVIOUS
    <3>1. \A x \in rs \ {o} : x.prefix = r.prefix => x.hop # r.hop  BY <1>5, <1>15, <2>2
    <3> HIDE DEF P, K
    <3>2. Others(P, r) = rs \ {o}  BY <1>10, <2>4, <3>1
    <3>3. Others(K, r) = rs \ {o}
      <4>1. K = Others(P, r) \cup {r}  BY DEF K, Joined
      <4>2. Others(Others(P, r) \cup {r}, r) = Others(P, r)
        <5> DEFINE Q == Others(P, r)
        <5>1. \A x \in Q : x.prefix # r.prefix \/ x.hop # r.hop  BY <1>10
        <5> HIDE DEF Q
        <5>2. Others(Q \cup {r}, r) = Q  BY <1>10, <5>1
        <5> QED  BY <5>2 DEF Q
      <4> QED  BY <3>2, <4>1, <4>2
    <3>4. Others(rs, r) = rs \/ Others(rs, r) = rs \ {o}
      <4>1. CASE r.hop = o.hop
        <5>1. Others(rs, r) = Others(rs, o)  BY <1>10, <2>3, <4>1
        <5> QED  BY <5>1, <2>4 DEF P
      <4>2. CASE r.hop # o.hop  BY <1>10, <2>2, <3>1, <4>2
      <4> QED  BY <4>1, <4>2
    <3>5. Joined(rs, o) = rs /\ Joined(rs \ {o}, o) = rs  BY <1>11, <2>2, <2>3, OthersAre
    <3> HIDE DEF P, K
    <3> QED  BY <3>2, <3>3, <3>4, <3>5
  <2> HIDE DEF lines, inverse, asked, P, K
  <2>7. Len(Rerouting(o, r)) = 2  BY RoutingLines
  <2>8. k \in {0, 1, 2} /\ Len(lines) = 2  BY <1>k, <2>1, <2>7
  <2>9. /\ Sent(WithRoutes(d, rs), SubSeq(Rerouting(o, r), 1, 0)) = WithRoutes(d, rs)
        /\ Sent(WithRoutes(d, rs), SubSeq(Rerouting(o, r), 1, 1)) = WithRoutes(d, P)
        /\ Sent(WithRoutes(d, rs), SubSeq(Rerouting(o, r), 1, 2)) = WithRoutes(d, K)
    BY RoutingLines DEF P, K
  <2>10. \A Q : Sent(WithRoutes(d, Q), Rerouting(r, o)) = WithRoutes(d, Joined(Others(Q, r), o))
    BY RoutingLines
  <2>11. after = IF k = 0 THEN d ELSE IF k = 1 THEN WithRoutes(d, P) ELSE WithRoutes(d, K)
    BY <1>6, <2>1, <2>8, <2>9
  <2> HIDE DEF after
  <2>12. ~NotPutBack(s, d) => Sent(after, inverse) = d
    <3> SUFFICES ASSUME ~NotPutBack(s, d) PROVE Sent(after, inverse) = d  OBVIOUS
    <3>1. Sent(WithRoutes(d, rs), inverse) = WithRoutes(d, rs)  BY <2>1, <2>6, <2>10
    <3>2. Sent(WithRoutes(d, P), inverse) = WithRoutes(d, rs)  BY <2>1, <2>6, <2>10
    <3>3. Sent(WithRoutes(d, K), inverse) = WithRoutes(d, rs)  BY <2>1, <2>6, <2>10
    <3> QED  BY <1>6, <2>11, <3>1, <3>2, <3>3
  <2>13. k = Len(lines) => after = Asked(s, d)  BY <1>4, <2>5, <2>8, <2>11
  <2>14. k = Len(lines) /\ ~NotFound(s, d) => PostCheck(s, Context(s.type, after))
    BY <1>18, <2>5, <2>8, <2>11
  <2>15. k = Len(lines) /\ NotFound(s, d) => ~PostCheck(s, Context(s.type, after))
    BY <1>19, <2>5, <2>8, <2>11
  <2> QED  BY <1>3, <2>12, <2>13, <2>14, <2>15, WholeOrNothing DEF after
<1> QED  BY <1>20, <1>21

-----------------------------------------------------------------------------
(* Changes of any type                                                     *)

\* At most one version line among statements, and one AS of a peer.
Singular(S) ==
  \A y, z \in S :
    /\ y[1] = "version" /\ z[1] = "version" => y = z
    /\ (y[1] = "neighbor" /\ z[1] = "neighbor" /\ y[2] = z[2]
          /\ y[3] = "remote-as" /\ z[3] = "remote-as") => y = z

\* A configuration a device can hold: routes told apart by prefix and hop, one
\* version line of a process, and one AS of a peer.
WellFormed(d) ==
  /\ d \in Configurations
  /\ RoutesApart(d.routes)
  /\ \A p \in DOMAIN d.processes : Singular(d.processes[p])

\* How many lines a change has.
LEMMA LinesAreFew ==
  ASSUME NEW s, NEW c
  PROVE  /\ s.type \in {"hostname", "domain_lookup"} => Len(Render(s, c).lines) = 1
         /\ s.type \in {"vlan_name", "router_network", "router_network_remove",
                        "router_rip_version", "interface_description",
                        "interface_admin_state"} => Len(Render(s, c).lines) = 2
         /\ s.type = "interface_access_vlan" => Len(Render(s, c).lines) = 3
<1>1. s.type = "hostname" => Len(Render(s, c).lines) = 1
  BY DEF Render, RenderHostname, Rendered
<1>2. s.type = "domain_lookup" => Len(Render(s, c).lines) = 1
  BY DEF Render, RenderLookup, Rendered
<1>3. s.type = "vlan_name" => Len(Render(s, c).lines) = 2
  BY DEF Render, RenderVlanName, Rendered
<1>4. s.type = "router_network" => Len(Render(s, c).lines) = 2
  BY DEF Render, RenderNetwork, Rendered
<1>5. s.type = "router_network_remove" => Len(Render(s, c).lines) = 2
  BY DEF Render, RenderNetworkRemove, Rendered
<1>6. s.type = "router_rip_version" => Len(Render(s, c).lines) = 2
  BY DEF Render, RenderRipVersion, Rendered
<1>7. s.type = "interface_description" => Len(Render(s, c).lines) = 2
  BY DEF Render, RenderDescription, Rendered
<1>8. s.type = "interface_admin_state" => Len(Render(s, c).lines) = 2
  BY DEF Render, RenderAdminState, Rendered
<1>9. s.type = "interface_access_vlan" => Len(Render(s, c).lines) = 3
  BY DEF Render, RenderAccessVlan, Rendered
<1> QED  BY <1>1, <1>2, <1>3, <1>4, <1>5, <1>6, <1>7, <1>8, <1>9

\* A change of any type, on any configuration a device can hold, cut short
\* anywhere: it ends as it was asked for or as it was.
LEMMA ChangeIsWhole ==
  ASSUME NEW s, s.type \in Types, NEW d, WellFormed(d), Validated(s, Context(s.type, d)),
         s.type = "static_route" => s.value \in Nat,
         s.type = "interface_trunk_vlans" => Switching(d),
         NEW k \in 0..Len(Render(s, Context(s.type, d)).lines)
  PROVE  AllOrNothing(s, d, d, k)
<1> DEFINE c == Context(s.type, d)
           n == Len(Render(s, c).lines)
<1>1. d \in Configurations /\ RoutesApart(d.routes)  BY DEF WellFormed
<1>2. k \in 0..n /\ Validated(s, c)  OBVIOUS
<1>3. CASE s.type = "hostname"
  <2>1. n = 1  BY <1>3, LinesAreFew
  <2> HIDE DEF n
  <2>2. k \in 0..1  BY <1>2, <2>1
  <2> QED  BY <1>1, <1>3, <2>2, HostnameWhole
<1>4. CASE s.type = "domain_lookup"
  <2>1. n = 1  BY <1>4, LinesAreFew
  <2> HIDE DEF n
  <2>2. k \in 0..1  BY <1>2, <2>1
  <2> QED  BY <1>1, <1>4, <2>2, LookupWhole
<1>5. CASE s.type = "vlan_name"
  <2>1. n = 2  BY <1>5, LinesAreFew
  <2> HIDE DEF n
  <2>2. k \in 0..2  BY <1>2, <2>1
  <2> QED  BY <1>1, <1>5, <2>2, VlanNameWhole
<1>6. CASE s.type = "interface_description"
  <2>1. n = 2  BY <1>6, LinesAreFew
  <2> HIDE DEF n
  <2>2. k \in 0..2  BY <1>2, <2>1
  <2> QED  BY <1>1, <1>6, <2>2, DescriptionWhole
<1>7. CASE s.type = "interface_admin_state"
  <2>1. n = 2  BY <1>7, LinesAreFew
  <2>0. s.value \in {"up", "down"}  BY <1>2, <1>7 DEF Validated
  <2> HIDE DEF n
  <2>2. k \in 0..2  BY <1>2, <2>1
  <2> QED  BY <1>1, <1>7, <2>0, <2>2, AdminStateWhole
<1>8. CASE s.type = "interface_access_vlan"
  <2>1. n = 3  BY <1>8, LinesAreFew
  <2>0. c.vlans = d.vlans
    BY <1>8 DEF Context, Needed, Facts, OnInterface, OnProcess
  <2>3. DOMAIN c.vlans # {} => s.value \in DOMAIN c.vlans  BY <1>2, <1>8 DEF Validated
  <2>4. DOMAIN d.vlans # {} => s.value \in DOMAIN d.vlans  BY <2>0, <2>3
  <2> HIDE DEF n
  <2>2. k \in 0..3  BY <1>2, <2>1
  <2> QED  BY <1>1, <1>8, <2>2, <2>4, AccessWhole
<1>9. CASE s.type = "interface_trunk_vlans"
  BY <1>1, <1>9, TrunkWhole DEF Switching
<1>10. CASE s.type = "static_route"
  BY <1>1, <1>10, StaticRouteWhole
<1>11. CASE s.type = "router_network"
  <2>1. n = 2  BY <1>11, LinesAreFew
  <2>0. ~Holds(c, s.target, <<"network", s.value>>)  BY <1>2, <1>11 DEF Validated
  <2> HIDE DEF n
  <2>2. k \in 0..2  BY <1>2, <2>1
  <2> QED  BY <1>1, <1>11, <2>0, <2>2, NetworkWhole
<1>12. CASE s.type = "router_network_remove"
  <2>1. n = 2  BY <1>12, LinesAreFew
  <2>0. Holds(c, s.target, <<"network", s.value>>)  BY <1>2, <1>12 DEF Validated
  <2> HIDE DEF n
  <2>2. k \in 0..2  BY <1>2, <2>1
  <2> QED  BY <1>1, <1>12, <2>0, <2>2, NetworkRemoveWhole
<1>13. CASE s.type = "router_rip_version"
  <2>1. n = 2  BY <1>13, LinesAreFew
  <2>0. s.target = "rip"  BY <1>2, <1>13 DEF Validated
  <2> HIDE DEF n
  <2>2. k \in 0..2  BY <1>2, <2>1
  <2>3. \A y, z \in In(d.processes, s.target) : y[1] = "version" /\ z[1] = "version" => y = z
    BY DEF WellFormed, Singular, In
  <2> QED  BY <1>1, <1>13, <2>0, <2>2, <2>3, RipVersionWhole
<1>14. CASE s.type = "bgp_neighbor"
  <2>1. \A y, z \in In(d.processes, s.target) :
          y[1] = "neighbor" /\ z[1] = "neighbor" /\ y[2] = z[2]
            /\ y[3] = "remote-as" /\ z[3] = "remote-as" => y = z
    BY DEF WellFormed, Singular, In
  <2> QED  BY <1>1, <1>14, <2>1, NeighborWhole
<1> QED
  BY <1>3, <1>4, <1>5, <1>6, <1>7, <1>8, <1>9, <1>10, <1>11, <1>12, <1>13, <1>14
     DEF Types, OnInterface, OnProcess

\* What was read at the preview is all that is kept of the device of then.
LEMMA PreviewReads ==
  ASSUME NEW s, NEW before, NEW now, NEW k, Context(s.type, before) = Context(s.type, now)
  PROVE  /\ AllOrNothing(s, before, now, k) <=> AllOrNothing(s, now, now, k)
         /\ InterruptsNothing(s, before, now, k) <=> InterruptsNothing(s, now, now, k)
<1> DEFINE c == Context(s.type, before)
           e == Context(s.type, now)
<1>1. c = e  OBVIOUS
<1> HIDE DEF c, e
<1>2. Applied(s, before, now, k) = Applied(s, now, now, k)  BY <1>1 DEF Applied, c, e
<1>3. AllOrNothing(s, before, now, k) <=> AllOrNothing(s, now, now, k)
  BY <1>1, <1>2 DEF AllOrNothing, c, e
<1>4. InterruptsNothing(s, before, now, k) <=> InterruptsNothing(s, now, now, k)
  BY <1>1 DEF InterruptsNothing, c, e
<1> QED  BY <1>3, <1>4

-----------------------------------------------------------------------------
(* The instances                                                           *)

\* A table without an entry
LEMMA EmptyTables ==
  /\ << >> \in VlanTables /\ << >> \in ProcessTables /\ DOMAIN << >> = {}
<1>1. << >> \in [{} -> Words] /\ << >> \in [{} -> SUBSET Seq(Words \cup Nat)] /\ DOMAIN << >> = {}
  OBVIOUS
<1>2. {} \in SUBSET (1..4094) /\ {} \in SUBSET Words  OBVIOUS
<1>3. << >> \in VlanTables  BY <1>1, <1>2 DEF VlanTables
<1>4. << >> \in ProcessTables  BY <1>1, <1>2 DEF ProcessTables
<1> QED  BY <1>1, <1>3, <1>4

\* A statement of two words, or numbers,
LEMMA PairsAre ==
  ASSUME NEW W, NEW u \in W, NEW v \in W
  PROVE  <<u, v>> \in Seq(W)
OBVIOUS

\* ... of four
LEMMA FoursAre ==
  ASSUME NEW W, NEW u \in W, NEW v \in W, NEW x \in W, NEW y \in W
  PROVE  <<u, v, x, y>> \in Seq(W)
OBVIOUS

\* The processes of the instances
LEMMA StatementsAre ==
  ASSUME NEW p \in {"rip", "ospf 1", "bgp 1"}
  PROVE  Statements(p) \in SUBSET Seq(Words \cup Nat)
<1> DEFINE W == Words \cup Nat
<1>1. /\ "network" \in W /\ "lan" \in W /\ "version" \in W /\ "1" \in W /\ "2" \in W
      /\ "neighbor" \in W /\ "peer" \in W /\ "remote-as" \in W /\ "description" \in W
      /\ 0 \in W /\ 1 \in W /\ 2 \in W
  BY DEF Words
<1> HIDE DEF W
<1>3. /\ <<"network", "lan">> \in Seq(W)
      /\ <<"version", "1">> \in Seq(W)
      /\ <<"version", "2">> \in Seq(W)
      /\ <<"neighbor", "peer", "remote-as", 1>> \in Seq(W)
      /\ <<"neighbor", "peer", "remote-as", 2>> \in Seq(W)
      /\ <<"neighbor", "peer", "description", 0>> \in Seq(W)
  BY <1>1, PairsAre, FoursAre
<1> QED  BY <1>3 DEF Statements, W

\* The tables of the instances that hold one process
ProcessesOf(p) ==
  {[q \in {p} |-> x] : x \in {y \in SUBSET Statements(p) :
                            \A s, o \in y : s[1] = o[1] /\ (s[1] = "neighbor" => s[3] = o[3]) => s = o}}

\* ... hold at most one version line, and one AS of a peer.
LEMMA AnyProcessesAre ==
  ASSUME NEW T \in AnyProcesses
  PROVE  T \in ProcessTables /\ \A p \in DOMAIN T : Singular(T[p])
<1>1. CASE T = << >>  BY <1>1, EmptyTables
<1>2. CASE T # << >>
  <2>0. PICK p \in {"rip", "ospf 1", "bgp 1"} : T \in ProcessesOf(p)
    <3> DEFINE U == UNION {ProcessesOf(p) : p \in {"rip", "ospf 1", "bgp 1"}}
    <3>1. AnyProcesses = {<< >>} \cup U  BY DEF AnyProcesses, ProcessesOf
    <3>2. T \in U  BY <1>2, <3>1
    <3> HIDE DEF ProcessesOf
    <3> QED  BY <3>2
  <2>1. PICK x \in {y \in SUBSET Statements(p) :
                      \A s, o \in y : s[1] = o[1] /\ (s[1] = "neighbor" => s[3] = o[3]) => s = o} :
          T = [q \in {p} |-> x]
    BY <2>0 DEF ProcessesOf
  <2>2. x \in SUBSET Seq(Words \cup Nat)  BY StatementsAre
  <2>3. T \in [{p} -> SUBSET Seq(Words \cup Nat)] /\ {p} \in SUBSET Words  BY <2>1, <2>2 DEF Words
  <2>4. T \in ProcessTables  BY <2>3 DEF ProcessTables
  <2>5. \A y, z \in x : y[1] = z[1] /\ (y[1] = "neighbor" => y[3] = z[3]) => y = z  OBVIOUS
  <2>6. Singular(x)  BY <2>5 DEF Singular
  <2>7. DOMAIN T = {p} /\ T[p] = x  BY <2>1
  <2> QED  BY <2>4, <2>6, <2>7
<1> QED  BY <1>1, <1>2

\* The switch the instances begin with
LEMMA SwitchIs ==
  /\ Switch \in Configurations /\ Switching(Switch) /\ Switch.routes = {} /\ DOMAIN Switch.processes = {}
  /\ Switch.vlans \in VlanTables /\ 20 \notin DOMAIN Switch.vlans
<1>1. Switch.vlans \in [{1, 10} -> Words] /\ DOMAIN Switch.vlans = {1, 10}  BY DEF Switch, Words
<1>2. Switch.vlans \in VlanTables
  <2>1. {1, 10} \in SUBSET (1..4094)  OBVIOUS
  <2> QED  BY <1>1, <2>1 DEF VlanTables
<1>3. Switch.processes \in ProcessTables /\ DOMAIN Switch.processes = {}
  BY EmptyTables DEF Switch
<1>4. Switch.port \in SwitchPorts  BY DEF Switch, SwitchPorts, Every, Words
<1>5. Switch.routes = {} /\ Switch.hostname \in Words /\ Switch.lookup \in BOOLEAN  BY DEF Switch, Words
<1>6. Switch = [hostname |-> Switch.hostname, lookup |-> Switch.lookup, vlans |-> Switch.vlans,
                port |-> Switch.port, routes |-> Switch.routes, processes |-> Switch.processes]
  BY DEF Switch
<1> HIDE DEF Switch
<1>7. Switch \in Configurations  BY <1>2, <1>3, <1>4, <1>5, <1>6 DEF Configurations
<1> QED  BY <1>1, <1>2, <1>3, <1>5, <1>7 DEF Switching

\* The ports of the instances
LEMMA AnyPortIs == AnyPort \subseteq SwitchPorts
<1>1. {"", "uplink"} \subseteq Words /\ {"dot1q", "negotiate"} \subseteq Words
  BY DEF Words
<1>2. ModeCommands \cup {"private-vlan host"} \subseteq Words  BY DEF Words, ModeCommands
<1>3. {Every, [word |-> "NONE", ids |-> {}], Listed({1, 10})} \subseteq [word : Words, ids : SUBSET Nat]
  BY DEF Words, Every, Listed
<1>4. {1, 10, 30} \subseteq Nat  OBVIOUS
<1> QED  BY <1>1, <1>2, <1>3, <1>4 DEF AnyPort, SwitchPorts

\* A route of the instances, or one that is added to them
LEMMA AnyRoutesAre ==
  ASSUME NEW rs \in AnyRoutes
  PROVE  rs \in SUBSET StaticRoutes /\ \A r \in rs : r.hop # 3
<1> DEFINE A == {"lan", "default"}
           B == 1..2
           C == {"", "distance 200"}
           R == [prefix : A, hop : B, options : C]
<1>1. A \subseteq Words /\ C \subseteq Words /\ B \subseteq Nat /\ 3 \notin B
  BY DEF Words
<1>3. rs \in SUBSET R  BY DEF AnyRoutes
<1> HIDE DEF A, B, C
<1>2. \A r \in R : r \in StaticRoutes /\ r.hop # 3  BY <1>1 DEF StaticRoutes
<1> HIDE DEF R
<1> QED  BY <1>2, <1>3

\* What the instances begin with are configurations a device can hold; only a
\* device that is no switch has no VLAN database.
LEMMA DevicesAreWellFormed ==
  ASSUME NEW type \in Types, NEW d \in DevicesFor(type)
  PROVE  /\ WellFormed(d)
         /\ \A r \in d.routes : r.hop # 3
         /\ Switching(d) \/ d.port.mode = ""
<1>s. /\ Switch \in Configurations /\ Switching(Switch) /\ Switch.routes = {}
      /\ DOMAIN Switch.processes = {}
  BY SwitchIs
<1> HIDE DEF Switch
<1>r. CASE d = Router
  <2>1. << >> \in VlanTables /\ "" \in Words  BY EmptyTables DEF Words
  <2>2. d \in Configurations /\ d.routes = {} /\ d.processes = Switch.processes /\ d.port.mode = ""
    BY <1>r, <2>1, <1>s DEF Router, Configurations, SwitchPorts
  <2> QED  BY <2>2, <1>s DEF WellFormed, RoutesApart
<1>1. CASE type \in OnInterface /\ d # Router
  <2>0. /\ d.routes = {} /\ DOMAIN d.processes = {} /\ d \in Configurations
        /\ Switching(d) \/ d.port.mode = ""
    <3>2. CASE \E p \in AnyPort : d = [Switch EXCEPT !.port = p]
      <4>1. PICK p \in SwitchPorts : d = [Switch EXCEPT !.port = p]  BY <3>2, AnyPortIs
      <4>2. d \in Configurations /\ d.routes = {} /\ d.processes = Switch.processes /\ d.vlans = Switch.vlans
        BY <4>1, <1>s DEF Configurations
      <4> QED  BY <4>2, <1>s DEF Switching
    <3>3. DevicesFor(type) = PortDevices(type) \cup {Router}  BY <1>1 DEF DevicesFor
    <3>5. d \in PortDevices(type) => \E p \in AnyPort : d = [Switch EXCEPT !.port = p]
      BY DEF PortDevices
    <3> QED  BY <1>1, <3>2, <3>3, <3>5
  <2> QED  BY <2>0 DEF WellFormed, RoutesApart
<1>2. CASE type = "static_route"
  <2>1. PICK rs \in {x \in AnyRoutes : \A r, o \in x : <<r.prefix, r.hop>> = <<o.prefix, o.hop>> => r = o} :
          d = [Switch EXCEPT !.routes = rs]
    <3>1. type \notin OnInterface  BY <1>2 DEF OnInterface
    <3>2. d \in RouteDevices  BY <1>2, <3>1 DEF DevicesFor
    <3> QED  BY <3>2 DEF RouteDevices
  <2>2. /\ rs \in SUBSET StaticRoutes /\ \A r \in rs : r.hop # 3
    BY AnyRoutesAre
  <2>3. RoutesApart(rs)  BY DEF RoutesApart
  <2>4. d \in Configurations /\ d.routes = rs /\ d.processes = Switch.processes /\ d.vlans = Switch.vlans
    BY <2>1, <2>2, <1>s DEF Configurations
  <2> QED  BY <2>2, <2>3, <2>4, <1>s DEF WellFormed, Switching
<1>3. CASE type \in OnProcess
  <2>1. PICK ps \in AnyProcesses : d = [Switch EXCEPT !.processes = ps]
    <3>1. type \notin OnInterface /\ type # "static_route"  BY <1>3 DEF OnInterface, OnProcess
    <3>2. d \in ProcessDevices  BY <1>3, <3>1 DEF DevicesFor
    <3> QED  BY <3>2 DEF ProcessDevices
  <2>2. ps \in ProcessTables /\ \A p \in DOMAIN ps : Singular(ps[p])  BY AnyProcessesAre
  <2>3. d \in Configurations /\ d.routes = {} /\ d.processes = ps /\ d.vlans = Switch.vlans
    BY <2>1, <2>2, <1>s DEF Configurations
  <2>4. RoutesApart(d.routes)  BY <2>3 DEF RoutesApart
  <2> QED  BY <2>2, <2>3, <2>4, <1>s DEF WellFormed, Switching
<1>4. CASE type \notin OnInterface /\ type # "static_route" /\ type \notin OnProcess /\ d # Router
  <2>1. PICK h \in {"sw", ""}, l \in {TRUE, FALSE} : d = [Switch EXCEPT !.hostname = h, !.lookup = l]
    <3>1. d \in GlobalDevices  BY <1>4 DEF DevicesFor
    <3> QED  BY <3>1 DEF GlobalDevices
  <2>2. h \in Words  BY DEF Words
  <2>3. d \in Configurations /\ d.routes = {} /\ d.processes = Switch.processes /\ d.vlans = Switch.vlans
    BY <2>1, <2>2, <1>s DEF Configurations
  <2> QED  BY <2>3, <1>s DEF WellFormed, Switching, RoutesApart
<1> QED  BY <1>r, <1>1, <1>2, <1>3, <1>4

\* A table of VLANs with an entry for one of them
LEMMA OpenedIsTable ==
  ASSUME NEW T \in VlanTables, NEW v \in 1..4094, NEW w \in Words
  PROVE  Opened(T, v, w) \in VlanTables /\ v \in DOMAIN Opened(T, v, w)
<1>1. PICK ids \in SUBSET (1..4094) : T \in [ids -> Words]  BY DEF VlanTables
<1>2. DOMAIN T = ids /\ \A x \in ids : T[x] \in Words  BY <1>1
<1>3. Opened(T, v, w) = [x \in ids \cup {v} |-> IF x \in ids THEN T[x] ELSE w]
  BY <1>2 DEF Opened
<1>4. \A x \in ids \cup {v} : (IF x \in ids THEN T[x] ELSE w) \in Words  BY <1>2
<1>5. Opened(T, v, w) \in [ids \cup {v} -> Words] /\ v \in DOMAIN Opened(T, v, w)  BY <1>3, <1>4
<1>6. ids \cup {v} \in SUBSET (1..4094)  OBVIOUS
<1> QED  BY <1>5, <1>6 DEF VlanTables

\* The sets of statements, and a table of processes with one of them filled
StatementSets == SUBSET Seq(Words \cup Nat)
\* It is a table of processes, with those statements in the place of the old.
LEMMA PutIsTable ==
  ASSUME NEW T \in ProcessTables, NEW p \in Words, NEW S \in StatementSets
  PROVE  /\ Put(T, p, S) \in ProcessTables
         /\ DOMAIN Put(T, p, S) = DOMAIN T \cup {p}
         /\ \A q \in DOMAIN T \cup {p} : Put(T, p, S)[q] = IF q = p THEN S ELSE T[q]
<1> DEFINE W == StatementSets
<1>1. PICK names \in SUBSET Words : T \in [names -> W]  BY DEF ProcessTables, StatementSets
<1>2. S \in W /\ DOMAIN T = names /\ \A q \in names : T[q] \in W  BY <1>1
<1> HIDE DEF W
<1>3. Put(T, p, S) = [q \in names \cup {p} |-> IF q = p THEN S ELSE T[q]]
  BY <1>2 DEF Put, Opened
<1>4. Put(T, p, S) \in [names \cup {p} -> W]  BY <1>2, <1>3
<1>5. names \cup {p} \in SUBSET Words  OBVIOUS
<1>6. Put(T, p, S) \in ProcessTables  BY <1>4, <1>5 DEF ProcessTables, W, StatementSets
<1> QED  BY <1>2, <1>3, <1>6

\* What may have changed of a device since leaves it one a device can hold.
LEMMA SinceIsWellFormed ==
  ASSUME NEW d, WellFormed(d), \A r \in d.routes : r.hop # 3, NEW e \in Since(d)
  PROVE  WellFormed(e) /\ (Switching(d) => Switching(e))
<1>d. /\ d \in Configurations /\ RoutesApart(d.routes)
      /\ \A p \in DOMAIN d.processes : Singular(d.processes[p])
  BY DEF WellFormed
<1>w. /\ "trunk" \in Words /\ "renamed" \in Words /\ "guests" \in Words /\ "lan" \in Words
      /\ "" \in Words /\ "ospf 1" \in Words /\ "network" \in Words /\ "wan" \in Words
  BY DEF Words
<1>1. CASE e = d  BY <1>1
<1>2. CASE e = [d EXCEPT !.port.mode = "trunk"]
  <2>1. e \in Configurations /\ e.vlans = d.vlans /\ e.routes = d.routes /\ e.processes = d.processes
    BY <1>2, <1>d, <1>w DEF Configurations, SwitchPorts
  <2> QED  BY <2>1, <1>d DEF WellFormed, Switching
<1>3. CASE e = [d EXCEPT !.port.shut = ~@]
  <2>1. e \in Configurations /\ e.vlans = d.vlans /\ e.routes = d.routes /\ e.processes = d.processes
    BY <1>3, <1>d DEF Configurations, SwitchPorts
  <2> QED  BY <2>1, <1>d DEF WellFormed, Switching
<1>4. CASE e = [d EXCEPT !.hostname = "renamed"]
  <2>1. e \in Configurations /\ e.vlans = d.vlans /\ e.routes = d.routes /\ e.processes = d.processes
    BY <1>4, <1>d, <1>w DEF Configurations
  <2> QED  BY <2>1, <1>d DEF WellFormed, Switching
<1>5. CASE e = [d EXCEPT !.vlans = Opened(@, 20, "guests")]
  <2> DEFINE T == d.vlans
             w == "guests"
             U == Opened(T, 20, w)
  <2>1. T \in VlanTables /\ 20 \in 1..4094  BY <1>d DEF Configurations
  <2>2. w \in Words  BY DEF Words
  <2> HIDE DEF T, w
  <2>5. U \in VlanTables /\ 20 \in DOMAIN U  BY <2>1, <2>2, OpenedIsTable, SMTT(30)
  <2> HIDE DEF U
  <2>6. e = [d EXCEPT !.vlans = U]  BY <1>5 DEF U, T, w
  <2>7. e \in Configurations /\ e.vlans = U /\ e.routes = d.routes /\ e.processes = d.processes
    BY <2>5, <2>6, <1>d DEF Configurations
  <2> QED  BY <2>5, <2>7, <1>d DEF WellFormed, Switching
<1>6. CASE e = [d EXCEPT !.routes = @ \cup {[prefix |-> "lan", hop |-> 3, options |-> ""]}]
  <2> DEFINE r == [prefix |-> "lan", hop |-> 3, options |-> ""]
  <2>1. r \in StaticRoutes /\ r.hop = 3  BY <1>w DEF StaticRoutes
  <2> HIDE DEF r
  <2>2. e = [d EXCEPT !.routes = @ \cup {r}]  BY <1>6 DEF r
  <2>3. e \in Configurations /\ e.vlans = d.vlans /\ e.routes = d.routes \cup {r} /\ e.processes = d.processes
    BY <2>1, <2>2, <1>d DEF Configurations
  <2>4. RoutesApart(d.routes \cup {r})  BY <2>1, <1>d DEF RoutesApart
  <2> QED  BY <2>3, <2>4, <1>d DEF WellFormed, Switching
<1>7. CASE e = [d EXCEPT !.processes = [Opened(d.processes, "ospf 1", {}) EXCEPT
                                         !["ospf 1"] = {<<"network", "wan">>}]]
  <2> DEFINE S == {<<"network", "wan">>}
             p == "ospf 1"
             T == d.processes
             U == Put(T, p, S)
  <2>1. Singular(S)  BY DEF Singular
  <2>2. <<"network", "wan">> \in Seq(Words \cup Nat)
    <3> DEFINE W == Words \cup Nat
    <3>1. "network" \in W /\ "wan" \in W  BY <1>w
    <3> HIDE DEF W
    <3>2. <<"network", "wan">> \in Seq(W)  BY <3>1, PairsAre
    <3> QED  BY <3>2 DEF W
  <2>3. S \in StatementSets /\ p \in Words  BY <2>2, <1>w DEF StatementSets
  <2>9. e = [d EXCEPT !.processes = [Opened(T, p, {}) EXCEPT ![p] = S]]  BY <1>7
  <2>5. T \in ProcessTables /\ T = [x \in DOMAIN T |-> T[x]]
    BY <1>d DEF Configurations, ProcessTables
  <2>10. \A q \in DOMAIN T : Singular(T[q])  BY <1>d
  <2> HIDE DEF S, p, T
  <2>11. [Opened(T, p, {}) EXCEPT ![p] = S] = U  BY <2>5, TablesAre
  <2> HIDE DEF U
  <2>4. e = [d EXCEPT !.processes = U]  BY <2>9, <2>11
  <2>6. /\ U \in ProcessTables /\ DOMAIN U = DOMAIN T \cup {p}
        /\ \A q \in DOMAIN T \cup {p} : U[q] = IF q = p THEN S ELSE T[q]
    BY <2>3, <2>5, PutIsTable DEF U
  <2>7. \A q \in DOMAIN U : Singular(U[q])  BY <2>1, <2>6, <2>10
  <2>8. e \in Configurations /\ e.vlans = d.vlans /\ e.routes = d.routes /\ e.processes = U
    BY <2>4, <2>6, <1>d DEF Configurations
  <2> QED  BY <2>7, <2>8, <1>d DEF WellFormed, Switching
<1> QED  BY <1>1, <1>2, <1>3, <1>4, <1>5, <1>6, <1>7 DEF Since

\* What a change of the instances is: one that passed the validation at its
\* preview, of a device that has since become one a device can be.
LEMMA ChangesBegin ==
  ASSUME Init, scene = "change"
  PROVE  LET s == input.step
             c == Context(s.type, input.before)
         IN  /\ s.type \in Types /\ Validated(s, c)
             /\ s.type = "static_route" => s.value \in Nat
             /\ WellFormed(input.now)
             /\ c = Context(s.type, input.now) /\ s.type = "interface_trunk_vlans" =>
                  Switching(input.now)
             /\ input.sent \in 0..Len(Render(s, c).lines)
<1>1. PICK type \in Types : \E x \in Steps(type), d \in DevicesFor(type) :
             LET s == [type |-> type, target |-> x.target, value |-> x.value]
             IN  /\ Validated(s, Context(type, d)) /\ Renderable(s, Context(type, d))
                 /\ \E now \in Since(d), k \in 0 .. Len(Render(s, Context(type, d)).lines) :
                      input = [step |-> s, before |-> d, now |-> now, sent |-> k]
  BY DEF Init
<1>2. PICK x \in Steps(type), d \in DevicesFor(type) :
             LET s == [type |-> type, target |-> x.target, value |-> x.value]
             IN  /\ Validated(s, Context(type, d)) /\ Renderable(s, Context(type, d))
                 /\ \E now \in Since(d), k \in 0 .. Len(Render(s, Context(type, d)).lines) :
                      input = [step |-> s, before |-> d, now |-> now, sent |-> k]
  BY <1>1
<1> DEFINE s == [type |-> type, target |-> x.target, value |-> x.value]
           c == Context(type, d)
<1>3. s.type = type /\ s.value = x.value  OBVIOUS
<1> HIDE DEF s
<1>4. Validated(s, c) /\ \E now \in Since(d), k \in 0 .. Len(Render(s, c).lines) :
                             input = [step |-> s, before |-> d, now |-> now, sent |-> k]
  BY <1>2 DEF s
<1>5. PICK now \in Since(d), k \in 0 .. Len(Render(s, c).lines) :
        input = [step |-> s, before |-> d, now |-> now, sent |-> k]
  BY <1>4
<1>6. input.step = s /\ input.before = d /\ input.now = now /\ input.sent = k  BY <1>5
<1>7. /\ WellFormed(d) /\ \A r \in d.routes : r.hop # 3
      /\ Switching(d) \/ d.port.mode = ""
  BY DevicesAreWellFormed
<1>8. WellFormed(now) /\ (Switching(d) => Switching(now))  BY <1>7, SinceIsWellFormed
<1>9. type = "static_route" => x.value \in Nat  BY DEF Steps
<1>10. type = "interface_trunk_vlans" => Switching(d)
  <2> SUFFICES ASSUME type = "interface_trunk_vlans" PROVE Switching(d)  OBVIOUS
  <2>1. c.switchport.mode \in ModeCommands  BY <1>3, <1>4 DEF Validated
  <2>2. c.switchport.mode = d.port.mode
    BY DEF Context, Needed, Facts, SwitchportFacts, OnInterface, OnProcess
  <2>3. d.port.mode # ""  BY <2>1, <2>2 DEF ModeCommands
  <2> QED  BY <2>3, <1>7
<1> QED  BY <1>3, <1>4, <1>6, <1>8, <1>9, <1>10

\* A change that is applied (service.py) leaves the device as it was asked for or
\* as it was, whichever of its lines reached it, on a device that reads as it
\* did at the preview, but for what NotFound, NotPutBack and ForgetsThePeer name.
THEOREM ChangesAlwaysAllOrNothing == Spec => []ChangesAreAllOrNothing
<1>1. Init => ChangesAreAllOrNothing
  <2> SUFFICES ASSUME Init, scene = "change"
               PROVE  AllOrNothing(input.step, input.before, input.now, input.sent)
    BY DEF ChangesAreAllOrNothing
  <2> DEFINE s == input.step
             b == input.before
             d == input.now
             k == input.sent
  <2>1. /\ s.type \in Types /\ Validated(s, Context(s.type, b))
        /\ s.type = "static_route" => s.value \in Nat
        /\ WellFormed(d)
        /\ Context(s.type, b) = Context(s.type, d) /\ s.type = "interface_trunk_vlans" =>
             Switching(d)
        /\ k \in 0..Len(Render(s, Context(s.type, b)).lines)
    BY ChangesBegin
  <2> HIDE DEF s, b, d, k
  <2>2. CASE Context(s.type, b) = Context(s.type, d)
    <3>1. AllOrNothing(s, d, d, k)  BY <2>1, <2>2, ChangeIsWhole
    <3> QED  BY <2>2, <3>1, PreviewReads DEF s, b, d, k
  <2>3. CASE Context(s.type, b) # Context(s.type, d)
    BY <2>3 DEF AllOrNothing, s, b, d, k
  <2> QED  BY <2>2, <2>3
<1>2. ChangesAreAllOrNothing /\ [Next]_vars => ChangesAreAllOrNothing'
  BY InputIsKept DEF ChangesAreAllOrNothing
<1> QED  BY <1>1, <1>2, PTL DEF Spec

-----------------------------------------------------------------------------
(* What a change takes away                                                *)

\* The lines that touch no route and no routing process, of which some set
\* something of the port
Setting(c) == \E f, v : c = <<"set", f, v>>
Harmless(c) ==
  \/ c = <<"interface">> \/ Setting(c)
  \/ \E v : c = <<"hostname", v>> \/ c = <<"lookup", v>> \/ c = <<"vlan", v>> \/ c = <<"name", v>>

\* What such a line keeps of a device
Same(e, d) ==
  /\ DOMAIN e = {"hostname", "lookup", "vlans", "port", "routes", "processes"}
  /\ e.routes = d.routes /\ e.processes = d.processes

\* A state of a batch with a device e, which has refused a line or not
Arrived(e, st) == \E block : st = StateOf(e, block) \/ st = [dev |-> e, at |-> block, refused |-> TRUE]

\* Such a line, refused or not, keeps the routes and the processes of a device,
\* and its port unless it sets something of it.
LEMMA LineKeeps ==
  ASSUME NEW d, NEW e, NEW st, Arrived(e, st), Same(e, d), NEW c, Harmless(c)
  PROVE  \E g : Arrived(g, Do(st, c)) /\ Same(g, d) /\ (Setting(c) \/ g.port = e.port)
<1>1. PICK block : st = StateOf(e, block) \/ st = [dev |-> e, at |-> block, refused |-> TRUE]
  BY DEF Arrived
<1>2. CASE st = [dev |-> e, at |-> block, refused |-> TRUE]
  <2>1. Arrived(e, Do(st, c))  BY <1>2, AfterRefusal DEF Arrived
  <2> QED  BY <2>1
<1>3. CASE st = StateOf(e, block)
  <2> SUFFICES \E g, at : Do(st, c) \in {StateOf(g, at), [dev |-> g, at |-> at, refused |-> TRUE]}
                            /\ Same(g, d) /\ (Setting(c) \/ g.port = e.port)
    BY DEF Arrived
  <2>1. CASE c = <<"interface">>
    <3>1. Do(st, c) = StateOf(e, block)  BY <1>3, <2>1, InterfaceLine
    <3> QED  BY <3>1
  <2>2. ASSUME NEW v, c = <<"hostname", v>> PROVE \E g, at : Do(st, c) = StateOf(g, at) /\ Same(g, d) /\ g.port = e.port
    <3>1. Do(st, c) = StateOf(WithHostname(e, v), block)  BY <1>3, <2>2, HostnameLine
    <3> QED  BY <3>1 DEF WithHostname, Same
  <2>3. ASSUME NEW v, c = <<"lookup", v>> PROVE \E g, at : Do(st, c) = StateOf(g, at) /\ Same(g, d) /\ g.port = e.port
    <3>1. Do(st, c) = StateOf(WithLookup(e, v), block)  BY <1>3, <2>3, LookupLine
    <3> QED  BY <3>1 DEF WithLookup, Same
  <2>4. ASSUME NEW v, c = <<"vlan", v>>
        PROVE  \E g, at : Do(st, c) \in {StateOf(g, at), [dev |-> g, at |-> at, refused |-> TRUE]}
                            /\ Same(g, d) /\ g.port = e.port
    <3>1. CASE DOMAIN e.vlans = {}
      <4>1. Do(st, c) = [dev |-> e, at |-> block, refused |-> TRUE]  BY <1>3, <2>4, <3>1, NoVlans
      <4>2. Do(st, c) \in {StateOf(e, block), [dev |-> e, at |-> block, refused |-> TRUE]}  BY <4>1
      <4> QED  BY <4>2
    <3>2. CASE DOMAIN e.vlans # {}
      <4>1. Do(st, c) = StateOf(WithVlans(e, Created(e.vlans, v)), v)  BY <1>3, <2>4, <3>2, VlanLine
      <4>2. /\ Same(WithVlans(e, Created(e.vlans, v)), d)
            /\ WithVlans(e, Created(e.vlans, v)).port = e.port
        BY DEF WithVlans, Same
      <4> QED  BY <4>1, <4>2
    <3> QED  BY <3>1, <3>2
  <2>5. ASSUME NEW v, c = <<"name", v>>
        PROVE  \E g, at : Do(st, c) \in {StateOf(g, at), [dev |-> g, at |-> at, refused |-> TRUE]}
                            /\ Same(g, d) /\ g.port = e.port
    <3>1. CASE DOMAIN e.vlans = {}
      <4>1. Do(st, c) = [dev |-> e, at |-> block, refused |-> TRUE]  BY <1>3, <2>5, <3>1, NoVlans
      <4>2. Do(st, c) \in {StateOf(e, block), [dev |-> e, at |-> block, refused |-> TRUE]}  BY <4>1
      <4> QED  BY <4>2
    <3>2. CASE DOMAIN e.vlans # {}
      <4>1. Do(st, c) = StateOf(WithVlans(e, Renamed(e.vlans, block, v)), block)
        BY <1>3, <2>5, <3>2, NameLine
      <4>2. /\ Same(WithVlans(e, Renamed(e.vlans, block, v)), d)
            /\ WithVlans(e, Renamed(e.vlans, block, v)).port = e.port
        BY DEF WithVlans, Same
      <4> QED  BY <4>1, <4>2
    <3> QED  BY <3>1, <3>2
  <2>6. ASSUME NEW f, NEW v, c = <<"set", f, v>>
        PROVE  \E g, at : Do(st, c) \in {StateOf(g, at), [dev |-> g, at |-> at, refused |-> TRUE]}
                            /\ Same(g, d)
    <3>1. CASE Refused(e, <<"set", f, v>>)
      <4>1. Do(st, c) = [dev |-> e, at |-> block, refused |-> TRUE]  BY <1>3, <2>6, <3>1, RefusedLine
      <4>2. Do(st, c) \in {StateOf(e, block), [dev |-> e, at |-> block, refused |-> TRUE]}  BY <4>1
      <4> QED  BY <4>2
    <3>2. CASE ~Refused(e, <<"set", f, v>>)
      <4>1. Do(st, c) = StateOf(WithPort(e, f, v), block)  BY <1>3, <2>6, <3>2, SetLine
      <4>2. Same(WithPort(e, f, v), d)  BY DEF WithPort, Same
      <4> QED  BY <4>1, <4>2
    <3> QED  BY <3>1, <3>2
  <2> QED  BY <2>1, <2>2, <2>3, <2>4, <2>5, <2>6 DEF Harmless, Setting
<1> QED  BY <1>1, <1>2, <1>3

\* Whatever part of a batch of such lines is sent, the routes and the processes
\* of the device stay as they were; and so does the port, if no line sets it.
LEMMA BatchKeeps ==
  ASSUME NEW d \in Configurations, NEW lines, Len(lines) \in Nat, NEW k \in 0..Len(lines),
         \A i \in 1..Len(lines) : Harmless(lines[i])
  PROVE  LET e == Sent(d, SubSeq(lines, 1, k))
         IN  /\ e.routes = d.routes /\ e.processes = d.processes
             /\ (\A i \in 1..Len(lines) : ~Setting(lines[i])) => e.port = d.port
<1> DEFINE n == Len(lines)
           f == States(d, lines)
           quiet == \A j \in 1..n : ~Setting(lines[j])
           Good(i) == \E e : Arrived(e, f[i]) /\ Same(e, d) /\ (quiet => e.port = d.port)
           T == {i \in 0..n : ~Good(i)}
<1>1. f[0] = StateOf(d, NoBlock) /\ \A i \in 1..n : f[i] = Do(f[i - 1], lines[i])  BY StatesAre
<1>2. Sent(d, SubSeq(lines, 1, k)) = f[k].dev  BY SentInPart
<1>3. n \in Nat /\ k \in 0..n /\ \A i \in 1..n : Harmless(lines[i])  OBVIOUS
<1> HIDE DEF n, f
<1>4. Good(0)  BY <1>1 DEF Arrived, Same, Configurations
<1>5. T = {}
  <2> SUFFICES ASSUME T # {} PROVE FALSE  OBVIOUS
  <2>1. PICK m \in T : \A y \in T : m <= y
    <3>1. T # {} /\ T \subseteq Nat  BY <1>3
    <3> HIDE DEF T
    <3> QED  BY <3>1, LeastNatural
  <2>2. m \in 0..n /\ ~Good(m)  OBVIOUS
  <2>3. m # 0  BY <1>4, <2>2
  <2>4. m - 1 \in 0..n /\ m \in 1..n /\ ~(m <= m - 1)  BY <1>3, <2>2, <2>3
  <2>5. PICK e : Arrived(e, f[m - 1]) /\ Same(e, d) /\ (quiet => e.port = d.port)
    BY <2>1, <2>4
  <2>6. Harmless(lines[m]) /\ f[m] = Do(f[m - 1], lines[m]) /\ (quiet => ~Setting(lines[m]))
    BY <1>1, <1>3, <2>4
  <2>7. \E g : Arrived(g, f[m]) /\ Same(g, d) /\ (Setting(lines[m]) \/ g.port = e.port)
    BY <2>5, <2>6, LineKeeps
  <2>8. Good(m)  BY <2>5, <2>6, <2>7
  <2> QED  BY <2>2, <2>8
<1>6. PICK e : Arrived(e, f[k]) /\ Same(e, d) /\ (quiet => e.port = d.port)  BY <1>3, <1>5
<1>7. f[k].dev = e  BY <1>6 DEF Arrived, StateOf
<1> QED  BY <1>2, <1>6, <1>7 DEF Same, n

\* What carries traffic goes on to when no route, no statement and no VLAN of a
\* port in use is taken away.
LEMMA CarriesMore ==
  ASSUME NEW d, NEW e, d.routes \subseteq e.routes,
         DOMAIN d.processes \subseteq DOMAIN e.processes,
         \A p \in DOMAIN d.processes : d.processes[p] \subseteq e.processes[p],
         PortIdle(d) \/ e.port = d.port
  PROVE  Carried(d) \subseteq Carried(e)
<1>1. \A x : Carried(x) = CarriedRoutes(x) \cup CarriedStatements(x) \cup CarriedVlans(x)
  BY DEF Carried
<1>2. CarriedRoutes(d) \subseteq CarriedRoutes(e)  BY DEF CarriedRoutes
<1>3. CarriedStatements(d) \subseteq CarriedStatements(e)  BY DEF CarriedStatements
<1>4. CarriedVlans(d) \subseteq CarriedVlans(e)  BY DEF CarriedVlans, PortIdle
<1> QED  BY <1>1, <1>2, <1>3, <1>4

\* The lines of the changes that are about neither routes nor processes
LEMMA LinesAreHarmless ==
  ASSUME NEW s, NEW c, s.type \in OnInterface \cup {"hostname", "domain_lookup", "vlan_name"}
  PROVE  LET lines == Render(s, c).lines
         IN  /\ Len(lines) \in Nat
             /\ \A i \in 1..Len(lines) : Harmless(lines[i])
             /\ s.type \notin OnInterface => \A i \in 1..Len(lines) : ~Setting(lines[i])
<1> DEFINE lines == Render(s, c).lines
           Fine == Len(lines) \in Nat /\ \A i \in 1..Len(lines) : Harmless(lines[i])
           Quiet == \A i \in 1..Len(lines) : ~Setting(lines[i])
<1>0. /\ Harmless(Port)
      /\ \A f, v : Harmless(<<"set", f, v>>)
      /\ \A v : /\ Harmless(<<"hostname", v>>) /\ Harmless(<<"lookup", v>>)
                /\ Harmless(<<"vlan", v>>) /\ Harmless(<<"name", v>>)
  BY DEF Harmless, Setting, Port
<1>p. \A v : /\ ~Setting(<<"hostname", v>>) /\ ~Setting(<<"lookup", v>>)
             /\ ~Setting(<<"vlan", v>>) /\ ~Setting(<<"name", v>>)
  BY DEF Setting
<1>n. "hostname" \notin OnInterface /\ "domain_lookup" \notin OnInterface /\ "vlan_name" \notin OnInterface
  BY DEF OnInterface
<1>1. CASE s.type = "hostname"
  <2> DEFINE a == <<"hostname", s.value>>
  <2>1. lines = <<a>>  BY <1>1 DEF Render, RenderHostname, Rendered
  <2>2. Harmless(a) /\ ~Setting(a)  BY <1>0, <1>p
  <2> HIDE DEF a
  <2> QED  BY <2>1, <2>2
<1>2. CASE s.type = "domain_lookup"
  <2> DEFINE v == s.value = "on"
             a == <<"lookup", v>>
  <2>1. lines = <<a>>  BY <1>2 DEF Render, RenderLookup, Rendered
  <2> HIDE DEF v
  <2>2. Harmless(a) /\ ~Setting(a)  BY <1>0, <1>p
  <2> HIDE DEF a
  <2> QED  BY <2>1, <2>2
<1>3. CASE s.type = "vlan_name"
  <2> DEFINE a == <<"vlan", s.target>>
             b == <<"name", s.value>>
  <2>1. lines = <<a, b>>  BY <1>3 DEF Render, RenderVlanName, Rendered
  <2>2. Harmless(a) /\ ~Setting(a) /\ Harmless(b) /\ ~Setting(b)  BY <1>0, <1>p
  <2> HIDE DEF a, b
  <2> QED  BY <2>1, <2>2
<1>4. CASE s.type = "interface_description"
  <2>1. lines = <<Port, <<"set", "description", s.value>>>>
    BY <1>4 DEF Render, RenderDescription, Rendered
  <2> QED  BY <2>1, <1>0, <1>4 DEF OnInterface
<1>5. CASE s.type = "interface_admin_state"
  <2> DEFINE v == s.value # "up"
  <2>1. lines = <<Port, <<"set", "shut", v>>>>
    BY <1>5 DEF Render, RenderAdminState, Rendered
  <2> HIDE DEF v
  <2> QED  BY <2>1, <1>0, <1>5 DEF OnInterface
<1>6. CASE s.type = "interface_access_vlan"
  <2> DEFINE w == "static access"
  <2>1. lines = <<Port, <<"set", "mode", w>>, <<"set", "access", s.value>>>>
    BY <1>6 DEF Render, RenderAccessVlan, Rendered
  <2> HIDE DEF w
  <2> QED  BY <2>1, <1>0, <1>6 DEF OnInterface
<1>7. CASE s.type = "interface_trunk_vlans"
  <2> DEFINE a == Listed(Ranges(s.value))
  <2>1. \/ lines = <<Port, <<"set", "allowed", a>>>>
        \/ lines = <<Port, <<"set", "mode", "trunk">>, <<"set", "allowed", a>>>>
        \/ lines = <<Port, <<"set", "encapsulation", "dot1q">>, <<"set", "mode", "trunk">>,
                     <<"set", "allowed", a>>>>
    BY <1>7 DEF Render, RenderTrunk, Rendered
  <2> HIDE DEF a
  <2> QED  BY <2>1, <1>0, <1>7 DEF OnInterface
<1> QED  BY <1>1, <1>2, <1>3, <1>4, <1>5, <1>6, <1>7, <1>n DEF OnInterface

\* A change of a port that has a link is high risk, and one that is about the
\* name or a VLAN touches nothing that carries traffic.
LEMMA QuietChanges ==
  ASSUME NEW s, s.type \in OnInterface \cup {"hostname", "domain_lookup", "vlan_name"},
         NEW d \in Configurations, NEW k \in 0..Len(Render(s, Context(s.type, d)).lines)
  PROVE  InterruptsNothing(s, d, d, k)
<1> DEFINE c == Context(s.type, d)
           lines == Render(s, c).lines
           e == Sent(d, SubSeq(lines, 1, k))
<1> SUFFICES ASSUME Risk(s, c) = "low" PROVE Carried(d) \subseteq Carried(e)
  BY DEF InterruptsNothing
<1>1. /\ Len(lines) \in Nat
      /\ \A i \in 1..Len(lines) : Harmless(lines[i])
      /\ s.type \notin OnInterface => \A i \in 1..Len(lines) : ~Setting(lines[i])
  BY LinesAreHarmless
<1>2. s.type \in OnInterface => PortIdle(d)
  <2> SUFFICES ASSUME s.type \in OnInterface PROVE PortIdle(d)  OBVIOUS
  <2>1. c.interface.operUp = (~d.port.shut /\ d.port.plugged)
    BY DEF Context, Needed, Facts, InterfaceFacts
  <2>2. ~c.interface.operUp  BY DEF Risk
  <2> QED  BY <2>1, <2>2 DEF PortIdle
<1>3. k \in 0..Len(lines)  OBVIOUS
<1> HIDE DEF c, lines
<1>4. /\ e.routes = d.routes /\ e.processes = d.processes
      /\ (\A i \in 1..Len(lines) : ~Setting(lines[i])) => e.port = d.port
  BY <1>1, <1>3, BatchKeeps
<1> HIDE DEF e
<1> QED  BY <1>1, <1>2, <1>4, CarriesMore

\* A route is added as low risk only to a prefix that has none.
LEMMA RouteInterruptsNothing ==
  ASSUME NEW s, s.type = "static_route", NEW d, WellFormed(d),
         NEW k \in 0..Len(Render(s, Context(s.type, d)).lines)
  PROVE  InterruptsNothing(s, d, d, k)
<1> DEFINE n == s.target
           c == Context(s.type, d)
           r == [prefix |-> n, hop |-> s.value, options |-> ""]
           rs == d.routes
           lines == Render(s, c).lines
           e == Sent(d, SubSeq(lines, 1, k))
<1> SUFFICES ASSUME Risk(s, c) = "low" PROVE Carried(d) \subseteq Carried(e)
  BY DEF InterruptsNothing
<1>0. d \in Configurations /\ RoutesApart(rs) /\ rs \in SUBSET StaticRoutes  BY DEF WellFormed, Configurations
<1>1. c.routes = rs  BY DEF Context, Needed, Facts, OnInterface, OnProcess
<1>2. FirstRoute(c, n) = FirstRoute(d, n)  BY <1>1 DEF FirstRoute
<1>3. FirstRoute(d, n) = {}  BY <1>2 DEF Risk, Replaces
<1>4. OfPrefix(rs, n) = {}  BY <1>0, <1>3, FirstIsOne
<1>5. lines = Routing(r)
  BY <1>2, <1>3 DEF Render, RenderRoute, Rendered, Routing
<1>6. r.prefix = n  OBVIOUS
<1>7. k \in 0..Len(lines)  OBVIOUS
<1> HIDE DEF c, lines, r, n
<1>8. rs \subseteq Joined(rs, r)  BY <1>4, <1>6 DEF Joined, Others, OfPrefix
<1>9. WithRoutes(d, rs) = d /\ e \in {WithRoutes(d, rs), WithRoutes(d, Joined(rs, r))}
  <2>1. /\ Len(Routing(r)) = 1
        /\ Sent(WithRoutes(d, rs), SubSeq(Routing(r), 1, 0)) = WithRoutes(d, rs)
        /\ Sent(WithRoutes(d, rs), SubSeq(Routing(r), 1, 1)) = WithRoutes(d, Joined(rs, r))
    BY <1>0, RoutingLines
  <2>2. WithRoutes(d, rs) = d  BY <1>0, FieldsAre
  <2>3. k \in {0, 1}  BY <1>5, <1>7, <2>1
  <2> QED  BY <1>5, <2>1, <2>2, <2>3
<1> HIDE DEF e
<1>10. rs \subseteq e.routes /\ e.processes = d.processes /\ e.port = d.port
  BY <1>0, <1>8, <1>9 DEF WithRoutes, Configurations
<1> QED  BY <1>10, CarriesMore

\* A network is announced as low risk only by a process that runs.
LEMMA NetworkInterruptsNothing ==
  ASSUME NEW s, s.type = "router_network", NEW d, WellFormed(d),
         NEW k \in 0..Len(Render(s, Context(s.type, d)).lines)
  PROVE  InterruptsNothing(s, d, d, k)
<1> DEFINE p == s.target
           x == <<"network", s.value>>
           c == Context(s.type, d)
           T == d.processes
           lines == Render(s, c).lines
           e == Sent(d, SubSeq(lines, 1, k))
<1> SUFFICES Carried(d) \subseteq Carried(e)
  BY DEF InterruptsNothing
<1>0. d \in Configurations /\ IsTable(T)  BY DEF WellFormed, Configurations, ProcessTables, IsTable
<1>1. lines = Adding(p, x)  BY DEF Render, RenderNetwork, Rendered, Adding, Block
<1>2. x[1] = "network"  OBVIOUS
<1>3. k \in 0..Len(lines)  OBVIOUS
<1> HIDE DEF c, lines, x, p
<1>4. Fills(d, T, p, Adding(p, x), AddedTo(In(T, p), x))  BY <1>0, BlocksFill
<1>5. In(T, p) \subseteq AddedTo(In(T, p), x)  BY <1>2 DEF AddedTo
<1> DEFINE A == In(T, p)
           B == AddedTo(A, x)
<1>6. WithProcesses(d, T) = d  BY <1>0, FieldsAre
<1>7. e = d \/ e = WithProcesses(d, Put(T, p, A)) \/ e = WithProcesses(d, Put(T, p, B))
  <2>1. k \in {0, 1, 2}  BY <1>1, <1>3, <1>4 DEF Fills
  <2> QED  BY <1>1, <1>4, <1>6, <2>1 DEF Fills
<1> HIDE DEF e
<1>8. ASSUME NEW S, A \subseteq S, e = WithProcesses(d, Put(T, p, S))
      PROVE  Carried(d) \subseteq Carried(e)
  <2> DEFINE U == Put(T, p, S)
  <2>1. U = [q \in DOMAIN T \cup {p} |-> IF q = p THEN S ELSE T[q]]  BY DEF Put, Opened
  <2>2. e.processes = U /\ e.routes = d.routes /\ e.port = d.port
    BY <1>0, <1>8 DEF WithProcesses, Configurations
  <2>3. \A q \in DOMAIN T : q = p => T[q] = A  BY DEF In
  <2> HIDE DEF U, A, T
  <2>4. DOMAIN T \subseteq DOMAIN U /\ \A q \in DOMAIN T : T[q] \subseteq U[q]
    BY <1>8, <2>1, <2>3
  <2> QED  BY <2>2, <2>4, CarriesMore DEF T
<1> QED  BY <1>5, <1>7, <1>8

\* A low-risk change of any type, on any configuration a device can hold.
LEMMA ChangeInterruptsNothing ==
  ASSUME NEW s, s.type \in Types, NEW d, WellFormed(d),
         NEW k \in 0..Len(Render(s, Context(s.type, d)).lines)
  PROVE  InterruptsNothing(s, d, d, k)
<1>0. d \in Configurations  BY DEF WellFormed
<1>1. CASE s.type \in OnInterface \cup {"hostname", "domain_lookup", "vlan_name"}
  BY <1>0, <1>1, QuietChanges
<1>2. CASE s.type = "static_route"  BY <1>2, RouteInterruptsNothing
<1>3. CASE s.type = "router_network"  BY <1>3, NetworkInterruptsNothing
<1>4. CASE s.type \in {"router_network_remove", "router_rip_version", "bgp_neighbor"}
  <2>1. Risk(s, Context(s.type, d)) = "high"  BY <1>4 DEF Risk
  <2> QED  BY <2>1 DEF InterruptsNothing
<1> QED  BY <1>1, <1>2, <1>3, <1>4 DEF Types, OnProcess

\* A change that classify_risk (risk.py) calls low takes no route, no statement
\* of a process and no VLAN of a port in use away from a device that reads as it
\* did at the preview, whatever part of its lines is sent.
THEOREM LowRiskNeverInterrupts == Spec => []LowRiskInterruptsNothing
<1>1. Init => LowRiskInterruptsNothing
  <2> SUFFICES ASSUME Init, scene = "change"
               PROVE  InterruptsNothing(input.step, input.before, input.now, input.sent)
    BY DEF LowRiskInterruptsNothing
  <2> DEFINE s == input.step
             b == input.before
             d == input.now
             k == input.sent
  <2>1. /\ s.type \in Types /\ WellFormed(d)
        /\ k \in 0..Len(Render(s, Context(s.type, b)).lines)
    BY ChangesBegin
  <2> HIDE DEF s, b, d, k
  <2>2. CASE Context(s.type, b) = Context(s.type, d)
    <3>1. InterruptsNothing(s, d, d, k)  BY <2>1, <2>2, ChangeInterruptsNothing
    <3> QED  BY <2>2, <3>1, PreviewReads DEF s, b, d, k
  <2>3. CASE Context(s.type, b) # Context(s.type, d)
    BY <2>3 DEF InterruptsNothing, s, b, d, k
  <2> QED  BY <2>2, <2>3
<1>2. LowRiskInterruptsNothing /\ [Next]_vars => LowRiskInterruptsNothing'
  BY InputIsKept DEF LowRiskInterruptsNothing
<1> QED  BY <1>1, <1>2, PTL DEF Spec
=============================================================================

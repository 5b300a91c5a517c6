--------------------------- MODULE InventoryProofs ---------------------------
(***************************************************************************)
(* What TLAPS proves of Inventory for any number of devices, endpoints,    *)
(* keys, candidates, snapshots, clients and requests.                      *)
(***************************************************************************)
EXTENDS Inventory, TLAPS

-----------------------------------------------------------------------------
(* The inductive invariant.                                                *)

Kinds  == {"create", "update", "repin", "refresh", "capture", "test"}
Stages == {"idle", "pinning", "testing", "storing", "filed", "forgetting"}
Ops == [kind : Kinds \cup {None}, dev : Devices \cup {None}, want : Fields \cup {None}, lab : BOOLEAN,
        cand : Candidates \cup {None}, expects : Keys \cup {None},
        new : Artifacts \cup Found \cup {None}, shown : Keys \cup {None},
        loaded : Statuses \cup {None}]

Shape ==
  /\ presents \in [Endpoints -> Keys]
  /\ device \in [Devices -> Rows \cup {None}]
  /\ candidate \in [Candidates -> Found \cup {None}]
  /\ files \subseteq Artifacts
  /\ snapshot \in [Artifacts -> Devices \cup {None}]
  /\ lock \in [Devices -> Clients \cup {None}]
  /\ at \in [Clients -> Stages]
  /\ op \in [Clients -> Ops]
  /\ raced \subseteq Devices /\ behind \subseteq Clients
  /\ heard \in [Devices -> Statuses \cup {None}]

Logging == {"testing", "storing"}

\* What a request is about, at every stage of it.
Subject(c) ==
  /\ at[c] # "idle" => op[c].dev \in Devices /\ op[c].want \in Fields
  /\ at[c] = "pinning" => op[c].kind = "test"
  /\ at[c] \in Logging => op[c].kind \in Kinds
  /\ at[c] = "filed" => op[c].kind = "capture" /\ op[c].new \in files
  /\ at[c] \in Logging /\ op[c].kind = "capture" => op[c].new \in Artifacts

\* A request that will write a row it has read holds it.
Held(c) ==
  /\ op[c].kind \in {"update", "repin", "refresh", "capture"}
  /\ at[c] \in Logging \cup {"filed"}
  => Registered(op[c].dev) /\ lock[op[c].dev] = c

\* The id of a device that is being registered is nobody else's.
Claimed(c) ==
  op[c].kind = "create" /\ at[c] \in Logging =>
    /\ ~Registered(op[c].dev)
    /\ \A x \in Clients \ {c} : op[x].dev # op[c].dev

\* The login is tried with the key of the candidate, as long as that is there,
\* or with the pin that is to be replaced.
Meant(c) ==
  /\ op[c].kind \in {"create", "update"} /\ at[c] \in Logging =>
       /\ op[c].cand \in Candidates
       /\ candidate[op[c].cand] # None =>
            /\ candidate[op[c].cand].bound = op[c].want
            /\ candidate[op[c].cand].key = op[c].expects
  /\ op[c].kind = "repin" /\ at[c] \in Logging =>
       /\ device[op[c].dev].at = op[c].want
       /\ device[op[c].dev].pin = op[c].expects
       /\ op[c].new \in Found /\ op[c].new.bound = op[c].want
  /\ at[c] = "storing" => op[c].shown = op[c].expects /\ op[c].shown \in Keys

\* A test knows the status of its device unless a login was recorded since.
Current(c) ==
  /\ op[c].kind = "test" /\ at[c] # "idle"
  /\ c \notin behind /\ Registered(op[c].dev)
  => device[op[c].dev].status = op[c].loaded

ClientInv(c) == Subject(c) /\ Held(c) /\ Claimed(c) /\ Meant(c) /\ Current(c)

RowsInv == PinsAreConfirmed /\ RegistrationsAreTested /\ SnapshotsAreWhole /\ StatusFollowsLogins

IInv == Shape /\ (\A c \in Clients : ClientInv(c)) /\ RowsInv

-----------------------------------------------------------------------------
(* Lemmas.                                                                 *)

\* Nothing is no row, no candidate, no device and no client.
LEMMA RowsAreThere ==
  /\ \A r \in Rows : r # None
  /\ \A r \in Found : r # None
  /\ \A d \in Devices : d # None
  /\ \A c \in Clients : c # None
  /\ \A k \in Keys : k # None
BY NothingAssumption

\* A row that is written is a row.
LEMMA RowIsWhole ==
  ASSUME NEW f \in Fields, NEW lab \in BOOLEAN, NEW cand \in Found, NEW shown \in Keys,
         NEW old \in Keys \cup {None}
  PROVE  Row(f, lab, cand, shown, old) \in Rows
BY DEF Row, Rows, Found, Statuses

\* A machine presents a key.
LEMMA MachinesHaveKeys ==
  ASSUME Shape, NEW f \in Fields
  PROVE  presents[f.endpoint] \in Keys
BY DEF Shape, Endpoints

\* What another request does leaves the invariant of a client alone, as long as
\* it takes neither its lock nor its row, and no id it has claimed.
LEMMA OthersKeep ==
  ASSUME Shape, Shape', NEW x \in Clients, ClientInv(x),
         at'[x] = at[x], op'[x] = op[x], files \subseteq files', x \in behind => x \in behind',
         \A d \in Devices : lock[d] = x /\ Registered(d) =>
           /\ lock'[d] = x /\ Registered(d)'
           /\ device'[d].at = device[d].at /\ device'[d].pin = device[d].pin,
         op[x].kind = "create" /\ at[x] \in Logging =>
           /\ Registered(op[x].dev)' => Registered(op[x].dev)
           /\ \A y \in Clients \ {x} : op'[y].dev # op[x].dev,
         \A s \in Candidates : candidate'[s] \in {candidate[s], None} \/ op[x].cand # s,
         op[x].kind = "test" /\ at[x] # "idle" /\ x \notin behind'
           /\ Registered(op[x].dev)' =>
           Registered(op[x].dev) /\ device'[op[x].dev].status = device[op[x].dev].status
  PROVE  ClientInv(x)'
<1>1. Subject(x)'  BY DEF ClientInv, Subject, Logging
<1>2. Held(x)'  BY <1>1 DEF ClientInv, Subject, Held, Logging
<1>3. Claimed(x)'  BY DEF ClientInv, Claimed, Registered, Logging
<1>4. Meant(x)'
  <2>1. CASE op[x].kind \in {"create", "update"} /\ at[x] \in Logging
    BY <2>1 DEF ClientInv, Subject, Meant, Logging
  <2>2. CASE op[x].kind = "repin" /\ at[x] \in Logging
    BY <2>2 DEF ClientInv, Subject, Held, Meant, Logging
  <2> QED  BY <2>1, <2>2 DEF ClientInv, Meant, Logging
<1>5. Current(x)'  BY DEF ClientInv, Current
<1> QED  BY <1>1, <1>2, <1>3, <1>4, <1>5 DEF ClientInv

\* A step that writes no row and no artifact keeps what is said of them.
LEMMA RowsStay ==
  ASSUME RowsInv, UNCHANGED <<device, files, snapshot, raced, heard>>
  PROVE  RowsInv'
BY DEF RowsInv, PinsAreConfirmed, RegistrationsAreTested, SnapshotsAreWhole, StatusFollowsLogins,
       Registered, EndpointTaken

\* A request that only goes on, and writes no row, keeps the invariant if it
\* keeps its own.
LEMMA QuietStep ==
  ASSUME IInv, Shape', NEW c \in Clients, ClientInv(c)',
         UNCHANGED <<device, files, snapshot, raced, heard>>,
         behind' \in {behind, behind \ {c}},
         \A x \in Clients \ {c} : at'[x] = at[x] /\ op'[x] = op[x],
         \A x \in Clients \ {c}, d \in Devices : lock[d] = x => lock'[d] = x,
         \A s \in Candidates : candidate'[s] \in {candidate[s], None},
         \A x \in Clients \ {c} : op[x].kind = "create" /\ at[x] \in Logging =>
           op'[c].dev # op[x].dev
  PROVE  IInv'
<1>1. ASSUME NEW x \in Clients \ {c} PROVE ClientInv(x)'
  <2>1. op[x].kind = "create" /\ at[x] \in Logging =>
          \A y \in Clients \ {x} : op'[y].dev # op[x].dev
    BY DEF IInv, ClientInv, Claimed
  <2> QED  BY <2>1, OthersKeep DEF IInv, Registered
<1>2. RowsInv'  BY RowsStay DEF IInv
<1> QED  BY <1>1, <1>2 DEF IInv

\* An idle request claims nothing.
LEMMA IdleIsFree ==
  ASSUME NEW c \in Clients, at'[c] = "idle"
  PROVE  ClientInv(c)'
BY DEF ClientInv, Subject, Held, Claimed, Meant, Current, Logging

\* The end of a request lets go of its rows, and leaves those of others.
LEMMA EndIsQuiet ==
  ASSUME Shape, NEW c \in Clients, End(c)
  PROVE  /\ at' \in [Clients -> Stages] /\ op' \in [Clients -> Ops]
         /\ lock' \in [Devices -> Clients \cup {None}]
         /\ at'[c] = "idle" /\ op'[c] = Idle
         /\ \A x \in Clients \ {c} : at'[x] = at[x] /\ op'[x] = op[x]
         /\ \A x \in Clients \ {c}, d \in Devices : lock[d] = x => lock'[d] = x
<1>1. Idle \in Ops  BY DEF Idle, Ops, Kinds
<1>2. /\ at' = [at EXCEPT ![c] = "idle"] /\ op' = [op EXCEPT ![c] = Idle]
      /\ lock' = [d \in Devices |-> IF lock[d] = c THEN None ELSE lock[d]]
  BY DEF End
<1>3. at' \in [Clients -> Stages] /\ at'[c] = "idle"  BY <1>2 DEF Shape, Stages
<1>4. op' \in [Clients -> Ops] /\ op'[c] = Idle  BY <1>1, <1>2 DEF Shape
<1>5. lock' \in [Devices -> Clients \cup {None}]  BY <1>2 DEF Shape
<1>6. \A x \in Clients \ {c} : at'[x] = at[x] /\ op'[x] = op[x]  BY <1>2 DEF Shape
<1>7. \A x \in Clients \ {c}, d \in Devices : lock[d] = x => lock'[d] = x  BY <1>2
<1> QED  BY <1>3, <1>4, <1>5, <1>6, <1>7

-----------------------------------------------------------------------------
(* The machines, the candidates and the requests that begin.               *)

\* A new host key touches nothing the program keeps.
LEMMA RegenerateKeeps ==
  ASSUME IInv, NEW e \in Endpoints, NEW k \in Keys, Regenerate(e, k)
  PROVE  IInv'
<1>1. Shape'  BY DEF IInv, Shape, Regenerate
<1>2. ASSUME NEW x \in Clients PROVE ClientInv(x)'
  BY DEF IInv, ClientInv, Subject, Held, Claimed, Meant, Current, Registered, Regenerate
<1>3. RowsInv'  BY RowsStay DEF IInv, Regenerate
<1> QED  BY <1>1, <1>2, <1>3 DEF IInv

\* A candidate is collected under an id that no request uses.
LEMMA CollectKeeps ==
  ASSUME IInv, NEW s \in Candidates, NEW f \in Fields, Collect(s, f)
  PROVE  IInv'
<1>1. [bound |-> f, key |-> presents[f.endpoint]] \in Found
  BY MachinesHaveKeys DEF IInv, Found
<1>2. Shape'  BY <1>1 DEF IInv, Shape, Collect
<1>3. ASSUME NEW x \in Clients PROVE ClientInv(x)'
  <2>1. \A t \in Candidates : candidate'[t] = candidate[t] \/ op[x].cand # t
    BY DEF IInv, Shape, Collect
  <2>2. \A y \in Clients \ {x} : op[x].kind = "create" /\ at[x] \in Logging => op[y].dev # op[x].dev
    BY DEF IInv, ClientInv, Claimed
  <2> QED  BY <1>2, <2>1, <2>2, OthersKeep DEF IInv, Collect, Registered
<1>4. RowsInv'  BY RowsStay DEF IInv, Collect
<1> QED  BY <1>2, <1>3, <1>4 DEF IInv

\* A candidate expires.
LEMMA ExpireKeeps ==
  ASSUME IInv, NEW s \in Candidates, Expire(s)
  PROVE  IInv'
<1>1. Shape'  BY DEF IInv, Shape, Expire
<1>2. ASSUME NEW x \in Clients PROVE ClientInv(x)'
  <2>1. \A t \in Candidates : candidate'[t] \in {candidate[t], None}
    BY DEF IInv, Shape, Expire
  <2>2. \A y \in Clients \ {x} : op[x].kind = "create" /\ at[x] \in Logging => op[y].dev # op[x].dev
    BY DEF IInv, ClientInv, Claimed
  <2> QED  BY <1>1, <2>1, <2>2, OthersKeep DEF IInv, Expire, Registered
<1>3. RowsInv'  BY RowsStay DEF IInv, Expire
<1> QED  BY <1>1, <1>2, <1>3 DEF IInv

\* A request begins about a device that nobody is registering, or about the id
\* of none.
LEMMA BeginKeeps ==
  ASSUME IInv, NEW c \in Clients, NEW to \in {"pinning", "testing"}, NEW record \in Ops,
         Begin(c, to, record), ClientInv(c)',
         lock' \in [Devices -> Clients \cup {None}],
         \A x \in Clients \ {c}, d \in Devices : lock[d] = x => lock'[d] = x,
         Registered(record.dev) \/ Unused(record.dev)
  PROVE  IInv'
<1>1. at' = [at EXCEPT ![c] = to] /\ op' = [op EXCEPT ![c] = record]
      /\ UNCHANGED <<presents, device, candidate, files, snapshot, raced, heard>>
      /\ behind' = behind \ {c}
  BY DEF Begin
<1>2. Shape'  BY <1>1 DEF IInv, Shape, Stages
<1>3. \A x \in Clients \ {c} : at'[x] = at[x] /\ op'[x] = op[x]  BY <1>1 DEF IInv, Shape
<1>4. op'[c] = record  BY <1>1 DEF IInv, Shape
<1>5. \A x \in Clients \ {c} : op[x].kind = "create" /\ at[x] \in Logging => record.dev # op[x].dev
  BY DEF IInv, ClientInv, Claimed, Unused
<1> QED  BY <1>1, <1>2, <1>3, <1>4, <1>5, QuietStep

\* A registration begins with a candidate that was collected for it.
LEMMA StartCreateKeeps ==
  ASSUME IInv, NEW c \in Clients, NEW d \in Devices, NEW f \in Fields, NEW lab \in BOOLEAN,
         NEW s \in Candidates, StartCreate(c, d, f, lab, s)
  PROVE  IInv'
<1> DEFINE record == [Idle EXCEPT !.kind = "create", !.dev = d, !.want = f, !.lab = lab,
                                  !.cand = s, !.expects = candidate[s].key]
<1>1. candidate[s] \in Found /\ candidate[s].bound = f
  BY DEF IInv, Shape, StartCreate, Resolves
<1>2. record \in Ops  BY <1>1 DEF Idle, Ops, Kinds, Found
<1>3. Begin(c, "testing", record) /\ lock' = lock /\ ~Registered(d) /\ Unused(d)
  BY DEF StartCreate
<1>4. at'[c] = "testing" /\ op'[c] = record /\ UNCHANGED <<device, candidate>>
      /\ \A x \in Clients \ {c} : op'[x] = op[x]
  BY <1>3 DEF Begin, IInv, Shape
<1>5. record.kind = "create" /\ record.dev = d /\ record.want = f /\ record.cand = s
      /\ record.expects = candidate[s].key
  BY DEF Idle
<1> HIDE DEF record
<1>6. ClientInv(c)'
  <2>1. Subject(c)'  BY <1>1, <1>3, <1>4, <1>5 DEF Subject, Kinds, Logging
  <2>2. Held(c)'  BY <1>1, <1>3, <1>4, <1>5 DEF Held, Registered, Logging
  <2>3. Claimed(c)'  BY <1>1, <1>3, <1>4, <1>5 DEF Claimed, Registered, Unused, Logging
  <2>4. Meant(c)'  BY <1>1, <1>3, <1>4, <1>5 DEF Meant, Logging
  <2>5. Current(c)'  BY <1>1, <1>3, <1>4, <1>5 DEF Current, Registered
  <2> QED  BY <2>1, <2>2, <2>3, <2>4, <2>5 DEF ClientInv
<1> QED  BY <1>2, <1>3, <1>5, <1>6, BeginKeeps DEF IInv, Shape

\* An update begins with the row locked.
LEMMA StartUpdateKeeps ==
  ASSUME IInv, NEW c \in Clients, NEW d \in Devices, NEW f \in Fields, NEW lab \in BOOLEAN,
         NEW s \in Candidates, StartUpdate(c, d, f, lab, s)
  PROVE  IInv'
<1> DEFINE record == [Idle EXCEPT !.kind = "update", !.dev = d, !.want = f, !.lab = lab,
                                  !.cand = s, !.expects = candidate[s].key]
<1>1. candidate[s] \in Found /\ candidate[s].bound = f
  BY DEF IInv, Shape, StartUpdate, Resolves
<1>2. record \in Ops  BY <1>1 DEF Idle, Ops, Kinds, Found
<1>3. Begin(c, "testing", record) /\ lock' = [lock EXCEPT ![d] = c] /\ Free(d)
  BY DEF StartUpdate
<1>4. at'[c] = "testing" /\ op'[c] = record /\ UNCHANGED <<device, candidate>>
  BY <1>3 DEF Begin, IInv, Shape
<1>5. lock' \in [Devices -> Clients \cup {None}] /\ lock'[d] = c
      /\ \A x \in Clients \ {c}, e \in Devices : lock[e] = x => lock'[e] = x
  BY <1>3, RowsAreThere DEF IInv, Shape, Free
<1>6. record.kind = "update" /\ record.dev = d /\ record.want = f /\ record.cand = s
      /\ record.expects = candidate[s].key
  BY DEF Idle
<1> HIDE DEF record
<1>7. ClientInv(c)'
  <2>1. Subject(c)'  BY <1>1, <1>3, <1>4, <1>5, <1>6 DEF Subject, Kinds, Logging
  <2>2. Held(c)'  BY <1>1, <1>3, <1>4, <1>5, <1>6 DEF Held, Registered, Free, Logging
  <2>3. Claimed(c)'  BY <1>1, <1>3, <1>4, <1>5, <1>6 DEF Claimed, Registered, Unused, Logging
  <2>4. Meant(c)'  BY <1>1, <1>3, <1>4, <1>5, <1>6 DEF Meant, Logging
  <2>5. Current(c)'  BY <1>1, <1>3, <1>4, <1>5, <1>6 DEF Current, Registered
  <2> QED  BY <2>1, <2>2, <2>3, <2>4, <2>5 DEF ClientInv
<1> QED  BY <1>2, <1>3, <1>5, <1>6, <1>7, BeginKeeps DEF Free

\* A re-pin begins with the pinned key, the row locked.
LEMMA StartRepinKeeps ==
  ASSUME IInv, NEW c \in Clients, NEW d \in Devices, NEW s \in Candidates, StartRepin(c, d, s)
  PROVE  IInv'
<1> DEFINE record == [Idle EXCEPT !.kind = "repin", !.dev = d, !.want = device[d].at,
                                  !.cand = s, !.new = candidate[s], !.expects = device[d].pin]
<1>1. candidate[s] \in Found /\ candidate[s].bound = device[d].at
  BY DEF IInv, Shape, StartRepin, Resolves
<1>2. device[d] \in Rows  BY DEF IInv, Shape, StartRepin, Free, Registered
<1>3. record \in Ops  BY <1>1, <1>2 DEF Idle, Ops, Kinds, Rows
<1>4. Begin(c, "testing", record) /\ lock' = [lock EXCEPT ![d] = c] /\ Free(d)
  BY DEF StartRepin
<1>5. at'[c] = "testing" /\ op'[c] = record /\ UNCHANGED <<device, candidate>>
  BY <1>4 DEF Begin, IInv, Shape
<1>6. lock' \in [Devices -> Clients \cup {None}] /\ lock'[d] = c
      /\ \A x \in Clients \ {c}, e \in Devices : lock[e] = x => lock'[e] = x
  BY <1>4, RowsAreThere DEF IInv, Shape, Free
<1>7. device[d].at \in Fields  BY <1>2 DEF Rows
<1>8. record.kind = "repin" /\ record.dev = d /\ record.want = device[d].at
      /\ record.new = candidate[s] /\ record.expects = device[d].pin
  BY DEF Idle
<1> HIDE DEF record
<1>9. ClientInv(c)'
  <2>1. Subject(c)'  BY <1>1, <1>4, <1>5, <1>6, <1>7, <1>8 DEF Subject, Kinds, Logging
  <2>2. Held(c)'  BY <1>1, <1>4, <1>5, <1>6, <1>7, <1>8 DEF Held, Registered, Free, Logging
  <2>3. Claimed(c)'  BY <1>1, <1>4, <1>5, <1>6, <1>7, <1>8 DEF Claimed, Registered, Unused, Logging
  <2>4. Meant(c)'  BY <1>1, <1>4, <1>5, <1>6, <1>7, <1>8 DEF Meant, Logging
  <2>5. Current(c)'  BY <1>1, <1>4, <1>5, <1>6, <1>7, <1>8 DEF Current, Registered
  <2> QED  BY <2>1, <2>2, <2>3, <2>4, <2>5 DEF ClientInv
<1> QED  BY <1>3, <1>4, <1>6, <1>8, <1>9, BeginKeeps DEF Free

\* A refresh or a capture begins with the row locked.
LEMMA StartReadKeeps ==
  ASSUME IInv, NEW c \in Clients, NEW d \in Devices, NEW kind \in {"refresh", "capture"},
         NEW a \in Artifacts \cup {None}, StartRead(c, d, kind, a)
  PROVE  IInv'
<1> DEFINE record == [Idle EXCEPT !.kind = kind, !.dev = d, !.want = device[d].at,
                                  !.new = a, !.expects = device[d].pin]
<1>1. device[d] \in Rows  BY DEF IInv, Shape, StartRead, Free, Registered
<1>2. record \in Ops  BY <1>1 DEF Idle, Ops, Kinds, Rows
<1>3. Begin(c, "testing", record) /\ lock' = [lock EXCEPT ![d] = c] /\ Free(d)
      /\ (kind = "capture" => a \in Artifacts)
  BY DEF StartRead
<1>4. at'[c] = "testing" /\ op'[c] = record /\ UNCHANGED <<device, candidate>>
  BY <1>3 DEF Begin, IInv, Shape
<1>5. lock' \in [Devices -> Clients \cup {None}] /\ lock'[d] = c
      /\ \A x \in Clients \ {c}, e \in Devices : lock[e] = x => lock'[e] = x
  BY <1>3, RowsAreThere DEF IInv, Shape, Free
<1>6. device[d].at \in Fields  BY <1>1 DEF Rows
<1>7. record.kind = kind /\ record.dev = d /\ record.want = device[d].at /\ record.new = a
  BY DEF Idle
<1> HIDE DEF record
<1>8. ClientInv(c)'
  <2>1. Subject(c)'  BY <1>3, <1>4, <1>5, <1>6, <1>7 DEF Subject, Kinds, Logging
  <2>2. Held(c)'  BY <1>3, <1>4, <1>5, <1>6, <1>7 DEF Held, Registered, Free, Logging
  <2>3. Claimed(c)'  BY <1>3, <1>4, <1>5, <1>6, <1>7 DEF Claimed, Registered, Unused, Logging
  <2>4. Meant(c)'  BY <1>3, <1>4, <1>5, <1>6, <1>7 DEF Meant, Logging
  <2>5. Current(c)'  BY <1>3, <1>4, <1>5, <1>6, <1>7 DEF Current, Registered
  <2> QED  BY <2>1, <2>2, <2>3, <2>4, <2>5 DEF ClientInv
<1> QED  BY <1>2, <1>3, <1>5, <1>7, <1>8, BeginKeeps DEF Free

\* A test begins with the status it reads.
LEMMA StartTestKeeps ==
  ASSUME IInv, NEW c \in Clients, NEW d \in Devices, StartTest(c, d)
  PROVE  IInv'
<1> DEFINE record == [Idle EXCEPT !.kind = "test", !.dev = d, !.want = device[d].at,
                                  !.loaded = device[d].status]
<1>1. device[d] \in Rows  BY DEF IInv, Shape, StartTest, Registered
<1>2. record \in Ops  BY <1>1 DEF Idle, Ops, Kinds, Rows
<1>3. Begin(c, "pinning", record) /\ lock' = lock /\ Registered(d)  BY DEF StartTest
<1>4. at'[c] = "pinning" /\ op'[c] = record /\ UNCHANGED <<device, candidate>>
  BY <1>3 DEF Begin, IInv, Shape
<1>5. device[d].at \in Fields  BY <1>1 DEF Rows
<1>6. record.kind = "test" /\ record.dev = d /\ record.want = device[d].at
      /\ record.loaded = device[d].status
  BY DEF Idle
<1> HIDE DEF record
<1>7. ClientInv(c)'
  <2>1. Subject(c)'  BY <1>3, <1>4, <1>5, <1>6 DEF Subject, Kinds, Logging
  <2>2. Held(c)'  BY <1>3, <1>4, <1>5, <1>6 DEF Held, Registered, Logging
  <2>3. Claimed(c)'  BY <1>3, <1>4, <1>5, <1>6 DEF Claimed, Registered, Unused, Logging
  <2>4. Meant(c)'  BY <1>3, <1>4, <1>5, <1>6 DEF Meant, Logging
  <2>5. Current(c)'  BY <1>3, <1>4, <1>5, <1>6 DEF Current, Registered
  <2> QED  BY <2>1, <2>2, <2>3, <2>4, <2>5 DEF ClientInv
<1> QED  BY <1>2, <1>3, <1>6, <1>7, BeginKeeps DEF IInv, Shape

-----------------------------------------------------------------------------
(* The requests that go on.                                                *)

\* A request that is given up writes nothing.
LEMMA AbandonKeeps == ASSUME IInv, NEW c \in Clients, Abandon(c) PROVE IInv'
<1>1. End(c) /\ UNCHANGED <<presents, device, candidate, files, snapshot, raced, behind, heard>>
  BY DEF Abandon
<1>2. Shape'  BY <1>1, EndIsQuiet DEF IInv, Shape
<1>3. None \notin Devices  BY RowsAreThere
<1>4. \A x \in Clients \ {c} : op[x].kind = "create" /\ at[x] \in Logging => None # op[x].dev
  BY <1>3 DEF IInv, ClientInv, Subject, Logging
<1> QED  BY <1>1, <1>2, <1>4, EndIsQuiet, IdleIsFree, QuietStep DEF IInv, Idle

\* A candidate that was stored is forgotten.
LEMMA ForgetKeeps == ASSUME IInv, NEW c \in Clients, Forget(c) PROVE IInv'
<1>1. End(c) /\ UNCHANGED <<presents, device, files, snapshot, raced, behind, heard>>
      /\ candidate' = [candidate EXCEPT ![op[c].cand] = None]
  BY DEF Forget
<1>2. Shape'  BY <1>1, EndIsQuiet DEF IInv, Shape
<1>3. \A x \in Clients \ {c} : op[x].kind = "create" /\ at[x] \in Logging => None # op[x].dev
  BY RowsAreThere DEF IInv, ClientInv, Subject, Logging
<1>4. \A s \in Candidates : candidate'[s] \in {candidate[s], None}
  BY <1>1 DEF IInv, Shape
<1> QED  BY <1>1, <1>2, <1>3, <1>4, EndIsQuiet, IdleIsFree, QuietStep DEF IInv, Idle

\* A test reads the pin it will expect.
LEMMA ReadPinKeeps == ASSUME IInv, NEW c \in Clients, ReadPin(c) PROVE IInv'
<1>1. UNCHANGED <<presents, device, candidate, files, snapshot, raced, behind, heard>> /\ at[c] = "pinning"
      /\ op[c].kind = "test" /\ op[c] \in Ops /\ op[c].dev \in Devices /\ op[c].want \in Fields
  BY DEF ReadPin, IInv, Shape, ClientInv, Subject
<1>2. CASE Registered(op[c].dev)
  <2>1. /\ at' = [at EXCEPT ![c] = "testing"] /\ lock' = lock
        /\ op' = [op EXCEPT ![c].expects = device[op[c].dev].pin]
    BY <1>2 DEF ReadPin
  <2>2. device[op[c].dev].pin \in Keys
    BY <1>1, <1>2 DEF IInv, Shape, Registered, Rows
  <2>3. /\ op'[c] \in Ops /\ op'[c].kind = op[c].kind /\ op'[c].dev = op[c].dev
        /\ op'[c].want = op[c].want /\ op'[c].loaded = op[c].loaded
        /\ op' \in [Clients -> Ops] /\ \A x \in Clients \ {c} : op'[x] = op[x]
    BY <1>1, <2>1, <2>2 DEF IInv, Shape, Ops
  <2>4. Shape'  BY <1>1, <2>1, <2>3 DEF IInv, Shape, Stages
  <2>5. at'[c] = "testing" /\ \A x \in Clients \ {c} : at'[x] = at[x]
    BY <2>1 DEF IInv, Shape
  <2>6. ClientInv(c)'
    <3>1. Current(c)'  BY <1>1, <2>3 DEF IInv, ClientInv, Current, Registered
    <3> QED  BY <1>1, <2>3, <2>5, <3>1 DEF ClientInv, Subject, Held, Claimed, Meant, Kinds, Logging
  <2>7. \A x \in Clients \ {c} : op[x].kind = "create" /\ at[x] \in Logging => op'[c].dev # op[x].dev
    BY <2>3 DEF IInv, ClientInv, Claimed
  <2> QED  BY <1>1, <2>1, <2>3, <2>4, <2>5, <2>6, <2>7, QuietStep
<1>3. CASE ~Registered(op[c].dev)
  <2>1. End(c)  BY <1>3 DEF ReadPin
  <2>2. Shape'  BY <1>1, <2>1, EndIsQuiet DEF IInv, Shape
  <2>3. \A x \in Clients \ {c} : op[x].kind = "create" /\ at[x] \in Logging => None # op[x].dev
    BY RowsAreThere DEF IInv, ClientInv, Subject, Logging
  <2> QED  BY <1>1, <2>1, <2>2, <2>3, EndIsQuiet, IdleIsFree, QuietStep DEF IInv, Idle
<1> QED  BY <1>2, <1>3

\* A login that went through met the key it expected.
LEMMA LoggedInKeeps == ASSUME IInv, NEW c \in Clients, LoggedIn(c) PROVE IInv'
<1>1. UNCHANGED <<presents, device, candidate, files, snapshot, lock, raced, behind, heard>>
      /\ at[c] = "testing" /\ op[c] \in Ops /\ op[c].want \in Fields
  BY DEF LoggedIn, IInv, Shape, ClientInv, Subject
<1>2. /\ at' = [at EXCEPT ![c] = "storing"]
      /\ op' = [op EXCEPT ![c].shown = op[c].expects] /\ op[c].expects \in Keys
  BY <1>1, MachinesHaveKeys DEF LoggedIn, IInv
<1>3. /\ op'[c] \in Ops /\ op'[c].kind = op[c].kind /\ op'[c].dev = op[c].dev
      /\ op'[c].want = op[c].want /\ op'[c].loaded = op[c].loaded
      /\ op'[c].cand = op[c].cand /\ op'[c].new = op[c].new
      /\ op'[c].expects = op[c].expects /\ op'[c].shown = op[c].expects
      /\ op' \in [Clients -> Ops] /\ \A x \in Clients \ {c} : op'[x] = op[x]
  BY <1>1, <1>2 DEF IInv, Shape, Ops
<1>4. Shape'  BY <1>1, <1>2, <1>3 DEF IInv, Shape, Stages
<1>5. at'[c] = "storing" /\ \A x \in Clients \ {c} : at'[x] = at[x]
  BY <1>2 DEF IInv, Shape
<1>6. ClientInv(c)'
  <2>1. Subject(c)'  BY <1>1, <1>3, <1>5 DEF IInv, ClientInv, Subject, Logging
  <2>2. Held(c)'  BY <1>1, <1>3, <1>5 DEF IInv, ClientInv, Held, Registered, Logging
  <2>3. Claimed(c)'
    <3>1. op[c].kind = "create" => /\ ~Registered(op[c].dev)
                                   /\ \A x \in Clients \ {c} : op[x].dev # op[c].dev
      BY <1>1 DEF IInv, ClientInv, Claimed, Logging
    <3> QED  BY <1>1, <1>3, <3>1 DEF Claimed, Registered
  <2>4. Meant(c)'  BY <1>1, <1>2, <1>3, <1>5 DEF IInv, ClientInv, Meant, Logging
  <2>5. Current(c)'  BY <1>1, <1>3, <1>5 DEF IInv, ClientInv, Current, Registered
  <2> QED  BY <2>1, <2>2, <2>3, <2>4, <2>5 DEF ClientInv
<1>7. \A x \in Clients \ {c} : op[x].kind = "create" /\ at[x] \in Logging => op'[c].dev # op[x].dev
  BY <1>3 DEF IInv, ClientInv, Claimed
<1> QED  BY <1>1, <1>3, <1>4, <1>5, <1>6, <1>7, QuietStep

-----------------------------------------------------------------------------
(* Requests that write a status.                                           *)

\* What a login came to is a status of the device, and whoever tested it
\* meanwhile is known to be behind.
LEMMA StatusWritten ==
  ASSUME IInv, NEW c \in Clients, NEW d \in Devices, NEW v \in Statuses, NEW status \in Statuses,
         Registered(d), device' = [device EXCEPT ![d].status = v],
         Heard(c, d, status), End(c), d \notin raced' => v = status,
         UNCHANGED <<presents, candidate, files, snapshot>>
  PROVE  IInv'
<1>1. device[d] \in Rows  BY DEF IInv, Shape, Registered
<1>2. /\ device'[d] = [device[d] EXCEPT !.status = v]
      /\ \A e \in Devices \ {d} : device'[e] = device[e]
  BY DEF IInv, Shape
<1>3. device'[d] \in Rows  BY <1>1, <1>2 DEF Rows
<1>4. /\ device'[d].at = device[d].at /\ device'[d].pin = device[d].pin
      /\ device'[d].confirmed = device[d].confirmed /\ device'[d].shown = device[d].shown
      /\ device'[d].replaced = device[d].replaced /\ device'[d].status = v
  BY <1>1, <1>2 DEF Rows
<1>5. heard' = [heard EXCEPT ![d] = status] /\ behind' = behind \cup OtherTests(c, d)
      /\ raced' \in {raced \cup {d}, raced \ {d}}
  BY DEF Heard
<1>6. Shape'
  <2>1. device' \in [Devices -> Rows \cup {None}]  BY <1>3 DEF IInv, Shape
  <2>2. heard' \in [Devices -> Statuses \cup {None}] /\ raced' \subseteq Devices
    /\ behind' \subseteq Clients
    BY <1>5 DEF IInv, Shape, OtherTests
  <2> QED  BY <2>1, <2>2, EndIsQuiet DEF IInv, Shape
<1>7. \A e \in Devices : Registered(e)' <=> Registered(e)
  BY <1>2, <1>3, RowsAreThere DEF Registered
<1>8. ASSUME NEW x \in Clients \ {c} PROVE ClientInv(x)'
  <2>1. at'[x] = at[x] /\ op'[x] = op[x]  BY EndIsQuiet DEF IInv
  <2>2. ASSUME op[x].kind = "test", at[x] # "idle", x \notin behind', Registered(op[x].dev)'
        PROVE  Registered(op[x].dev) /\ device'[op[x].dev].status = device[op[x].dev].status
    <3>1. op[x].dev \in Devices  BY <2>2 DEF IInv, ClientInv, Subject
    <3>2. op[x].dev # d  BY <1>5, <2>2 DEF OtherTests
    <3> QED  BY <2>1, <1>2, <1>7, <2>2, <3>1, <3>2
  <2>3. op[x].kind = "create" /\ at[x] \in Logging =>
          /\ Registered(op[x].dev)' => Registered(op[x].dev)
          /\ \A y \in Clients \ {x} : op'[y].dev # op[x].dev
    BY <1>7, EndIsQuiet, RowsAreThere DEF IInv, ClientInv, Subject, Claimed, Logging, Idle
  <2>4. \A e \in Devices : lock[e] = x => lock'[e] = x  BY EndIsQuiet DEF IInv
  <2>5. \A e \in Devices : Registered(e) =>
          Registered(e)' /\ device'[e].at = device[e].at /\ device'[e].pin = device[e].pin
    BY <1>2, <1>4, <1>7
  <2> QED  BY <1>5, <1>6, <2>1, <2>2, <2>3, <2>4, <2>5, OthersKeep DEF IInv
<1>9. ClientInv(c)'  BY EndIsQuiet, IdleIsFree DEF IInv
<1>10. RowsInv'
  <2>1. PinsAreConfirmed'
    BY <1>2, <1>4, <1>7 DEF IInv, RowsInv, PinsAreConfirmed, EndpointTaken
  <2>2. RegistrationsAreTested'  BY <1>2, <1>4, <1>7 DEF IInv, RowsInv, RegistrationsAreTested
  <2>3. SnapshotsAreWhole'
    BY <1>7 DEF IInv, Shape, RowsInv, SnapshotsAreWhole, Registered
  <2>4. StatusFollowsLogins'
    BY <1>2, <1>4, <1>5, <1>7 DEF IInv, Shape, RowsInv, StatusFollowsLogins
  <2> QED  BY <2>1, <2>2, <2>3, <2>4 DEF RowsInv
<1> QED  BY <1>6, <1>8, <1>9, <1>10 DEF IInv

\* A request that ends without a word on any row
LEMMA EndKeeps ==
  ASSUME IInv, NEW c \in Clients, End(c),
         UNCHANGED <<presents, device, candidate, files, snapshot, raced, behind, heard>>
  PROVE  IInv'
<1>1. Shape'  BY EndIsQuiet DEF IInv, Shape
<1>2. \A x \in Clients \ {c} : op[x].kind = "create" /\ at[x] \in Logging => None # op[x].dev
  BY RowsAreThere DEF IInv, ClientInv, Subject, Logging
<1> QED  BY <1>1, <1>2, EndIsQuiet, IdleIsFree, QuietStep DEF IInv, Idle

\* A test notes what it came to.
LEMMA NotedKeeps ==
  ASSUME IInv, NEW c \in Clients, NEW status \in Statuses, at[c] \in Logging,
         op[c].kind = "test", Noted(c, status), UNCHANGED <<presents, candidate, files, snapshot>>
  PROVE  IInv'
<1> DEFINE d == op[c].dev
           v == IF op[c].loaded = status THEN device[d].status ELSE status
<1>1. d \in Devices  BY DEF IInv, ClientInv, Subject, Logging
<1>2. CASE Registered(d)
  <2>1. device' = [device EXCEPT ![d].status = v] /\ Heard(c, d, status) /\ End(c)
    BY <1>2 DEF Noted
  <2>2. device[d].status \in Statuses  BY <1>1, <1>2 DEF IInv, Shape, Registered, Rows
  <2>3. d \notin raced' => v = status
    <3>1. d \notin raced' /\ op[c].loaded = status => c \notin behind  BY <2>1 DEF Heard
    <3> QED  BY <1>2, <3>1 DEF IInv, ClientInv, Current, Logging
  <2>4. v \in Statuses  BY <2>2
  <2> HIDE DEF d, v
  <2> QED  BY <1>1, <1>2, <2>1, <2>3, <2>4, StatusWritten
<1>3. CASE ~Registered(d)
  BY <1>3, EndKeeps DEF Noted
<1> QED  BY <1>2, <1>3

\* A login fails: a test and a refresh say so, any other request rolls back.
LEMMA LoginFailedKeeps == ASSUME IInv, NEW c \in Clients, LoginFailed(c) PROVE IInv'
<1>1. at[c] = "testing" /\ UNCHANGED <<presents, candidate, files, snapshot>>
      /\ op[c].dev \in Devices
  BY DEF LoginFailed, IInv, ClientInv, Subject
<1>2. CASE op[c].kind = "refresh"
  <2>1. /\ device' = [device EXCEPT ![op[c].dev].status = "unreachable"]
        /\ Heard(c, op[c].dev, "unreachable") /\ End(c)
    BY <1>2 DEF LoginFailed
  <2>2. Registered(op[c].dev)  BY <1>1, <1>2 DEF IInv, ClientInv, Held, Logging
  <2> QED  BY <1>1, <2>1, <2>2, StatusWritten DEF Statuses
<1>3. CASE op[c].kind = "test"
  <2>1. Noted(c, "unreachable")  BY <1>3 DEF LoginFailed
  <2> QED  BY <1>1, <1>3, <2>1, NotedKeeps DEF Statuses, Logging
<1>4. CASE op[c].kind \notin {"refresh", "test"}
  BY <1>1, <1>4, EndKeeps DEF LoginFailed
<1> QED  BY <1>2, <1>3, <1>4

\* A test or a refresh that went through says so.
LEMMA StoreStatusKeeps == ASSUME IInv, NEW c \in Clients, StoreStatus(c) PROVE IInv'
<1>1. at[c] = "storing" /\ UNCHANGED <<presents, candidate, files, snapshot>>
      /\ op[c].dev \in Devices /\ op[c].kind \in {"test", "refresh"}
  BY DEF StoreStatus, IInv, ClientInv, Subject
<1>2. CASE op[c].kind = "refresh"
  <2>1. /\ device' = [device EXCEPT ![op[c].dev].status = "reachable"]
        /\ Heard(c, op[c].dev, "reachable") /\ End(c)
    BY <1>2 DEF StoreStatus
  <2>2. Registered(op[c].dev)  BY <1>1, <1>2 DEF IInv, ClientInv, Held, Logging
  <2> QED  BY <1>1, <2>1, <2>2, StatusWritten DEF Statuses
<1>3. CASE op[c].kind = "test"
  <2>1. Noted(c, "reachable")  BY <1>3 DEF StoreStatus
  <2> QED  BY <1>1, <1>3, <2>1, NotedKeeps DEF Statuses, Logging
<1> QED  BY <1>1, <1>2, <1>3

-----------------------------------------------------------------------------
(* Requests that write a row.                                              *)

\* A row is written by the only request that may, and keeps what is said of
\* rows: its pin was confirmed for what it connects to, at an endpoint of its
\* own, and met by a login unless it replaced another.
LEMMA RowWritten ==
  ASSUME IInv, NEW c \in Clients, NEW d \in Devices, NEW row \in Rows,
         at[c] = "storing", op[c].dev = d, op[c].kind \in {"create", "update", "repin"},
         device' = [device EXCEPT ![d] = row], Heard(c, d, "reachable"),
         at' = [at EXCEPT ![c] = "forgetting"], lock' = [lock EXCEPT ![d] = None],
         row.status = "reachable", row.confirmed = row.at, ~EndpointTaken(row.at, d),
         row.replaced = None => row.shown = row.pin,
         UNCHANGED <<presents, candidate, files, snapshot, op>>
  PROVE  IInv'
<1>1. device'[d] = row /\ \A e \in Devices \ {d} : device'[e] = device[e]
  BY DEF IInv, Shape
<1>2. Registered(d)' /\ \A e \in Devices \ {d} : Registered(e)' <=> Registered(e)
  BY <1>1, RowsAreThere DEF Registered
<1>3. heard' = [heard EXCEPT ![d] = "reachable"] /\ behind' = behind \cup OtherTests(c, d)
      /\ raced' \in {raced \cup {d}, raced \ {d}}
  BY DEF Heard
<1>4. Shape'  BY <1>3 DEF IInv, Shape, Stages, Statuses, OtherTests
<1>5. ASSUME NEW x \in Clients \ {c}
      PROVE  (Registered(d) => lock[d] # x) /\ (op[x].kind = "create" /\ at[x] \in Logging => op[x].dev # d)
  <2>1. CASE op[c].kind = "create"
    <3>1. ~Registered(d) /\ op[x].dev # d  BY <2>1 DEF IInv, ClientInv, Claimed, Logging
    <3> QED  BY <3>1
  <2>2. CASE op[c].kind \in {"update", "repin"}
    <3>1. Registered(d) /\ lock[d] = c  BY <2>2 DEF IInv, ClientInv, Held, Logging
    <3> QED  BY <3>1 DEF IInv, ClientInv, Claimed
  <2> QED  BY <2>1, <2>2
<1>6. ASSUME NEW x \in Clients \ {c} PROVE ClientInv(x)'
  <2>1. at'[x] = at[x] /\ op'[x] = op[x]  BY DEF IInv, Shape
  <2>2. ASSUME op[x].kind = "test", at[x] # "idle", x \notin behind', Registered(op[x].dev)'
        PROVE  Registered(op[x].dev) /\ device'[op[x].dev].status = device[op[x].dev].status
    <3>1. op[x].dev \in Devices  BY <2>2 DEF IInv, ClientInv, Subject
    <3>2. op[x].dev # d  BY <1>3, <2>2 DEF OtherTests
    <3> QED  BY <1>1, <1>2, <2>1, <2>2, <3>1, <3>2
  <2>3. op[x].kind = "create" /\ at[x] \in Logging =>
          /\ Registered(op[x].dev)' => Registered(op[x].dev)
          /\ \A y \in Clients \ {x} : op'[y].dev # op[x].dev
    <3>1. op[x].kind = "create" /\ at[x] \in Logging => op[x].dev \in Devices \ {d}
      BY <1>5 DEF IInv, ClientInv, Subject, Logging
    <3> QED  BY <1>2, <2>1, <3>1 DEF IInv, ClientInv, Claimed
  <2>4. \A e \in Devices : lock[e] = x /\ Registered(e) =>
          /\ lock'[e] = x /\ Registered(e)'
          /\ device'[e].at = device[e].at /\ device'[e].pin = device[e].pin
    BY <1>1, <1>2, <1>5 DEF IInv, Shape
  <2> QED  BY <1>3, <1>4, <2>1, <2>2, <2>3, <2>4, OthersKeep DEF IInv
<1>7. ClientInv(c)'
  <2>1. at'[c] = "forgetting" /\ op'[c] = op[c]  BY DEF IInv, Shape
  <2> QED  BY <2>1 DEF IInv, ClientInv, Subject, Held, Claimed, Meant, Current, Logging
<1>8. RowsInv'
  <2>1. PinsAreConfirmed'
    <3>1. ASSUME NEW e \in Devices \ {d}, Registered(e)
          PROVE  device[e].confirmed = device[e].at /\ device[e].at.endpoint # row.at.endpoint
                 /\ ~EndpointTaken(device[e].at, e)
      BY <3>1 DEF IInv, RowsInv, PinsAreConfirmed, EndpointTaken
    <3> QED  BY <1>1, <1>2, <3>1 DEF PinsAreConfirmed, EndpointTaken
  <2>2. RegistrationsAreTested'  BY <1>1, <1>2 DEF IInv, RowsInv, RegistrationsAreTested
  <2>3. SnapshotsAreWhole'  BY <1>2 DEF IInv, RowsInv, SnapshotsAreWhole, Registered
  <2>4. StatusFollowsLogins'
    BY <1>1, <1>2, <1>3 DEF IInv, Shape, RowsInv, StatusFollowsLogins
  <2> QED  BY <2>1, <2>2, <2>3, <2>4 DEF RowsInv
<1> QED  BY <1>4, <1>6, <1>7, <1>8 DEF IInv

\* A registration or an update is stored if its candidate is still there.
LEMMA StoreDeviceKeeps == ASSUME IInv, NEW c \in Clients, StoreDevice(c) PROVE IInv'
<1> DEFINE d == op[c].dev
           found == candidate[op[c].cand]
           row == Row(op[c].want, op[c].lab, found, op[c].shown, None)
<1>1. at[c] = "storing" /\ op[c].kind \in {"create", "update"} /\ op[c] \in Ops
      /\ d \in Devices /\ op[c].want \in Fields
      /\ UNCHANGED <<presents, candidate, files, snapshot>>
  BY DEF StoreDevice, IInv, Shape, ClientInv, Subject
<1>2. CASE Resolves(op[c].cand, op[c].want) /\ ~EndpointTaken(op[c].want, d)
  <2>1. device' = [device EXCEPT ![d] = row] /\ Heard(c, d, "reachable")
        /\ at' = [at EXCEPT ![c] = "forgetting"] /\ lock' = [lock EXCEPT ![d] = None] /\ op' = op
    BY <1>2 DEF StoreDevice, Pinned
  <2>2. /\ found \in Found /\ found.bound = op[c].want /\ found.key = op[c].shown
        /\ op[c].shown \in Keys
    BY <1>1, <1>2 DEF IInv, Shape, ClientInv, Meant, Resolves, Logging
  <2>3. op[c].lab \in BOOLEAN  BY <1>1 DEF Ops
  <2>4. row \in Rows  BY <1>1, <2>2, <2>3, RowIsWhole
  <2>5. row.status = "reachable" /\ row.confirmed = row.at /\ row.at = op[c].want
        /\ row.shown = row.pin /\ row.replaced = None
    BY <2>2 DEF Row
  <2> HIDE DEF d, row
  <2>6. d = op[c].dev  BY DEF d
  <2> QED  BY <1>1, <1>2, <2>1, <2>4, <2>5, <2>6, RowWritten
<1>3. CASE ~(Resolves(op[c].cand, op[c].want) /\ ~EndpointTaken(op[c].want, d))
  BY <1>1, <1>3, EndKeeps DEF StoreDevice
<1> QED  BY <1>2, <1>3

\* A re-pin stores the candidate's key in place of the one the login met.
LEMMA StoreRepinKeeps == ASSUME IInv, NEW c \in Clients, StoreRepin(c) PROVE IInv'
<1> DEFINE d == op[c].dev
           row == Row(op[c].want, device[d].lab, op[c].new, op[c].shown, device[d].pin)
<1>1. at[c] = "storing" /\ op[c].kind = "repin"
      /\ d \in Devices /\ op[c].want \in Fields
      /\ UNCHANGED <<presents, candidate, files, snapshot, op>>
      /\ device' = [device EXCEPT ![d] = row] /\ Heard(c, d, "reachable")
      /\ at' = [at EXCEPT ![c] = "forgetting"] /\ lock' = [lock EXCEPT ![d] = None]
  BY DEF StoreRepin, IInv, ClientInv, Subject
<1>2. Registered(d)  BY <1>1 DEF IInv, ClientInv, Held, Logging
<1>3. device[d] \in Rows  BY <1>1, <1>2 DEF IInv, Shape, Registered
<1>4. /\ device[d].at = op[c].want /\ device[d].pin = op[c].shown
      /\ op[c].new \in Found /\ op[c].new.bound = op[c].want /\ op[c].shown \in Keys
  BY <1>1 DEF IInv, ClientInv, Meant, Logging
<1>5. device[d].lab \in BOOLEAN  BY <1>3 DEF Rows
<1>6. row \in Rows  BY <1>1, <1>4, <1>5, RowIsWhole
<1>7. row.status = "reachable" /\ row.confirmed = row.at /\ row.at = op[c].want
      /\ row.replaced # None
  BY <1>4, RowsAreThere DEF Row
<1>8. ~EndpointTaken(row.at, d)
  BY <1>1, <1>2, <1>4, <1>7 DEF IInv, RowsInv, PinsAreConfirmed
<1> HIDE DEF d, row
<1>9. d = op[c].dev  BY DEF d
<1> QED  BY <1>1, <1>6, <1>7, <1>8, <1>9, RowWritten

\* An artifact is put on disk; nothing refers to it yet.
LEMMA PutArtifactKeeps == ASSUME IInv, NEW c \in Clients, PutArtifact(c) PROVE IInv'
<1>1. at[c] = "storing" /\ op[c].kind = "capture" /\ op[c].new \in Artifacts
      /\ files' = files \cup {op[c].new} /\ at' = [at EXCEPT ![c] = "filed"]
      /\ UNCHANGED <<presents, device, candidate, snapshot, lock, op, raced, behind, heard>>
  BY DEF PutArtifact, IInv, ClientInv, Subject, Logging
<1>2. Shape'  BY <1>1 DEF IInv, Shape, Stages
<1>3. at'[c] = "filed" /\ \A x \in Clients \ {c} : at'[x] = at[x]  BY <1>1 DEF IInv, Shape
<1>4. ASSUME NEW x \in Clients \ {c} PROVE ClientInv(x)'
  <2>1. \A y \in Clients \ {x} : op[x].kind = "create" /\ at[x] \in Logging => op[y].dev # op[x].dev
    BY DEF IInv, ClientInv, Claimed
  <2> QED  BY <1>1, <1>2, <1>3, <2>1, OthersKeep DEF IInv, Registered
<1>5. ClientInv(c)'
  BY <1>1, <1>3 DEF IInv, ClientInv, Subject, Held, Claimed, Meant, Current, Registered, Logging
<1>6. RowsInv'
  BY <1>1 DEF IInv, RowsInv, PinsAreConfirmed, RegistrationsAreTested, SnapshotsAreWhole,
              StatusFollowsLogins, Registered, EndpointTaken
<1> QED  BY <1>2, <1>4, <1>5, <1>6 DEF IInv

\* The row of a snapshot follows its artifact, its device still locked.
LEMMA StoreSnapshotKeeps == ASSUME IInv, NEW c \in Clients, StoreSnapshot(c) PROVE IInv'
<1>1. at[c] = "filed" /\ op[c].kind = "capture" /\ op[c].new \in files /\ op[c].dev \in Devices
      /\ snapshot' = [snapshot EXCEPT ![op[c].new] = op[c].dev] /\ End(c)
      /\ UNCHANGED <<presents, device, candidate, files, raced, behind, heard>>
  BY DEF StoreSnapshot, IInv, ClientInv, Subject
<1>2. Registered(op[c].dev)  BY <1>1 DEF IInv, ClientInv, Held
<1>3. Shape'  BY <1>1, EndIsQuiet DEF IInv, Shape
<1>4. ASSUME NEW x \in Clients \ {c} PROVE ClientInv(x)'
  <2>1. at'[x] = at[x] /\ op'[x] = op[x]  BY <1>1, EndIsQuiet DEF IInv
  <2>2. \A y \in Clients \ {x} : op[x].kind = "create" /\ at[x] \in Logging => op'[y].dev # op[x].dev
    BY <1>1, EndIsQuiet, RowsAreThere DEF IInv, ClientInv, Subject, Claimed, Logging, Idle
  <2>3. \A d \in Devices : lock[d] = x => lock'[d] = x  BY <1>1, EndIsQuiet DEF IInv
  <2> QED  BY <1>1, <1>3, <2>1, <2>2, <2>3, OthersKeep DEF IInv, Registered
<1>5. ClientInv(c)'  BY <1>1, EndIsQuiet, IdleIsFree DEF IInv
<1>6. RowsInv'
  <2>1. SnapshotsAreWhole'
    BY <1>1, <1>2 DEF IInv, Shape, RowsInv, SnapshotsAreWhole, Registered
  <2> QED
    BY <1>1, <2>1 DEF IInv, RowsInv, PinsAreConfirmed, RegistrationsAreTested, StatusFollowsLogins,
                      Registered, EndpointTaken
<1> QED  BY <1>3, <1>4, <1>5, <1>6 DEF IInv

-----------------------------------------------------------------------------
(* Requests without a login.                                               *)

\* A change of what is no part of the connection
LEMMA SetLabKeeps ==
  ASSUME IInv, NEW d \in Devices, NEW lab \in BOOLEAN, SetLab(d, lab)
  PROVE  IInv'
<1>1. Registered(d) /\ device[d] \in Rows /\ device' = [device EXCEPT ![d].lab = lab]
      /\ UNCHANGED <<presents, candidate, files, snapshot, lock, at, op, raced, behind, heard>>
  BY DEF SetLab, Free, Registered, IInv, Shape
<1>2. /\ device'[d] = [device[d] EXCEPT !.lab = lab]
      /\ \A e \in Devices \ {d} : device'[e] = device[e]
  BY <1>1 DEF IInv, Shape
<1>3. device'[d] \in Rows  BY <1>1, <1>2 DEF Rows
<1>4. \A e \in Devices : Registered(e) =>
        /\ device'[e].at = device[e].at /\ device'[e].pin = device[e].pin
        /\ device'[e].confirmed = device[e].confirmed /\ device'[e].shown = device[e].shown
        /\ device'[e].replaced = device[e].replaced /\ device'[e].status = device[e].status
  BY <1>1, <1>2 DEF Rows
<1>5. \A e \in Devices : Registered(e)' <=> Registered(e)
  BY <1>1, <1>2, <1>3, RowsAreThere DEF Registered
<1>6. Shape'  BY <1>1, <1>3 DEF IInv, Shape
<1>7. ASSUME NEW x \in Clients PROVE ClientInv(x)'
  <2>1. \A y \in Clients \ {x} : op[x].kind = "create" /\ at[x] \in Logging => op[y].dev # op[x].dev
    BY DEF IInv, ClientInv, Claimed
  <2>2. at[x] # "idle" => op[x].dev \in Devices  BY DEF IInv, ClientInv, Subject
  <2>3. op[x].kind = "create" /\ at[x] \in Logging => (Registered(op[x].dev)' => Registered(op[x].dev))
    BY <1>1, <1>5, <2>2 DEF Logging
  <2>4. op[x].kind = "test" /\ at[x] # "idle" /\ Registered(op[x].dev)' =>
          Registered(op[x].dev) /\ device'[op[x].dev].status = device[op[x].dev].status
    BY <1>1, <1>4, <1>5, <2>2
  <2> QED  BY <1>1, <1>4, <1>5, <1>6, <2>1, <2>3, <2>4, OthersKeep DEF IInv
<1>8. RowsInv'
  <2>1. PinsAreConfirmed'  BY <1>4, <1>5 DEF IInv, RowsInv, PinsAreConfirmed, EndpointTaken
  <2>2. RegistrationsAreTested'  BY <1>4, <1>5 DEF IInv, RowsInv, RegistrationsAreTested
  <2>3. SnapshotsAreWhole'  BY <1>1, <1>5 DEF IInv, Shape, RowsInv, SnapshotsAreWhole, Registered
  <2>4. StatusFollowsLogins'  BY <1>1, <1>4, <1>5 DEF IInv, RowsInv, StatusFollowsLogins
  <2> QED  BY <2>1, <2>2, <2>3, <2>4 DEF RowsInv
<1> QED  BY <1>6, <1>7, <1>8 DEF IInv

\* A device is deleted that nobody has locked and no snapshot refers to.
LEMMA DeleteKeeps == ASSUME IInv, NEW d \in Devices, Delete(d) PROVE IInv'
<1>1. /\ lock[d] = None /\ device' = [device EXCEPT ![d] = None]
      /\ \A a \in Artifacts : snapshot[a] # d
      /\ UNCHANGED <<presents, candidate, files, snapshot, lock, at, op, raced, behind, heard>>
  BY DEF Delete, Free
<1>2. ~Registered(d)' /\ \A e \in Devices \ {d} : device'[e] = device[e]
  BY <1>1 DEF IInv, Shape, Registered
<1>3. \A e \in Devices : Registered(e)' <=> Registered(e) /\ e # d  BY <1>2 DEF Registered
<1>4. Shape'
  <2>1. device' \in [Devices -> Rows \cup {None}]  BY <1>1 DEF IInv, Shape
  <2> QED  BY <1>1, <2>1 DEF IInv, Shape
<1>5. ASSUME NEW x \in Clients PROVE ClientInv(x)'
  <2>1. \A y \in Clients \ {x} : op[x].kind = "create" /\ at[x] \in Logging => op[y].dev # op[x].dev
    BY DEF IInv, ClientInv, Claimed
  <2>2. at[x] # "idle" => op[x].dev \in Devices  BY DEF IInv, ClientInv, Subject
  <2>3. op[x].kind = "create" /\ at[x] \in Logging => (Registered(op[x].dev)' => Registered(op[x].dev))
    BY <1>1, <1>2, <1>3, <2>2 DEF Logging
  <2>4. op[x].kind = "test" /\ at[x] # "idle" /\ Registered(op[x].dev)' =>
          Registered(op[x].dev) /\ device'[op[x].dev].status = device[op[x].dev].status
    BY <1>1, <1>2, <1>3, <2>2
  <2>5. \A e \in Devices : lock[e] = x /\ Registered(e) => e # d  BY <1>1, RowsAreThere
  <2> QED  BY <1>1, <1>2, <1>3, <1>4, <2>1, <2>3, <2>4, <2>5, OthersKeep DEF IInv
<1>6. RowsInv'
  <2>1. PinsAreConfirmed'
    BY <1>2, <1>3 DEF IInv, RowsInv, PinsAreConfirmed, EndpointTaken
  <2>2. RegistrationsAreTested'  BY <1>2, <1>3 DEF IInv, RowsInv, RegistrationsAreTested
  <2>3. SnapshotsAreWhole'
    BY <1>1, <1>3 DEF IInv, Shape, RowsInv, SnapshotsAreWhole, Registered
  <2>4. StatusFollowsLogins'  BY <1>1, <1>2, <1>3 DEF IInv, Shape, RowsInv, StatusFollowsLogins
  <2> QED  BY <2>1, <2>2, <2>3, <2>4 DEF RowsInv
<1> QED  BY <1>4, <1>5, <1>6 DEF IInv

-----------------------------------------------------------------------------
(* The specification keeps the invariant.                                  *)

\* The database is empty, or has one device that was registered before.
LEMMA InitHolds == ASSUME InventoryInit PROVE IInv
<1>1. \A c \in Clients : at[c] = "idle" /\ op[c] = Idle  BY DEF InventoryInit
<1>2. Idle \in Ops  BY DEF Idle, Ops
<1>3. ASSUME NEW c \in Clients PROVE ClientInv(c)
  BY <1>1 DEF ClientInv, Subject, Held, Claimed, Meant, Current, Logging
<1>4. /\ presents \in [Endpoints -> Keys] /\ candidate \in [Candidates -> Found \cup {None}]
      /\ files \subseteq Artifacts /\ snapshot \in [Artifacts -> Devices \cup {None}]
      /\ lock \in [Devices -> Clients \cup {None}] /\ at \in [Clients -> Stages]
      /\ op \in [Clients -> Ops] /\ raced \subseteq Devices /\ behind \subseteq Clients
      /\ \A a \in Artifacts : snapshot[a] = None
  BY <1>2 DEF InventoryInit, Stages
<1>5. CASE device = [d \in Devices |-> None] /\ heard = [d \in Devices |-> None]
  <2>1. Shape  BY <1>4, <1>5 DEF Shape
  <2>2. \A d \in Devices : ~Registered(d)  BY <1>5 DEF Registered
  <2>3. RowsInv
    BY <1>4, <2>2 DEF RowsInv, PinsAreConfirmed, RegistrationsAreTested, SnapshotsAreWhole,
                      StatusFollowsLogins
  <2> QED  BY <1>3, <2>1, <2>3 DEF IInv
<1>6. ASSUME NEW d \in Devices, NEW f \in Fields,
             LET key == presents[f.endpoint]
                 row == Row(f, TRUE, [key |-> key, bound |-> f], key, None)
             IN  /\ device = [x \in Devices |-> IF x = d THEN row ELSE None]
                 /\ heard = [x \in Devices |-> IF x = d THEN row.status ELSE None]
      PROVE  IInv
  <2> DEFINE key == presents[f.endpoint]
             row == Row(f, TRUE, [key |-> key, bound |-> f], key, None)
  <2>1. key \in Keys  BY <1>4 DEF Endpoints
  <2>2. [key |-> key, bound |-> f] \in Found  BY <2>1 DEF Found
  <2>3. row \in Rows  BY <2>1, <2>2, RowIsWhole
  <2>4. row.at = f /\ row.confirmed = f /\ row.pin = key /\ row.shown = key
        /\ row.replaced = None /\ row.status \in Statuses
    BY DEF Row, Statuses
  <2>5. /\ device = [x \in Devices |-> IF x = d THEN row ELSE None]
        /\ heard = [x \in Devices |-> IF x = d THEN row.status ELSE None]
    BY <1>6
  <2> HIDE DEF row, key
  <2>6. Shape  BY <1>4, <2>3, <2>4, <2>5 DEF Shape
  <2>7. \A e \in Devices : Registered(e) => e = d /\ device[e] = row /\ heard[e] = row.status
    BY <2>5 DEF Registered
  <2>8. PinsAreConfirmed  BY <2>4, <2>7 DEF PinsAreConfirmed, EndpointTaken
  <2>9. RegistrationsAreTested  BY <2>4, <2>7 DEF RegistrationsAreTested
  <2>10. SnapshotsAreWhole  BY <1>4 DEF SnapshotsAreWhole
  <2>11. StatusFollowsLogins  BY <2>7 DEF StatusFollowsLogins
  <2> QED  BY <1>3, <2>6, <2>8, <2>9, <2>10, <2>11 DEF IInv, RowsInv
<1> QED  BY <1>5, <1>6 DEF InventoryInit

\* Every step keeps it.
LEMMA StepHolds == ASSUME IInv, [InventoryNext]_inventoryVars PROVE IInv'
<1>1. CASE UNCHANGED inventoryVars
  <2>1. Shape'  BY <1>1 DEF IInv, Shape, inventoryVars
  <2>2. ASSUME NEW x \in Clients PROVE ClientInv(x)'
    BY <1>1 DEF IInv, ClientInv, Subject, Held, Claimed, Meant, Current, Registered, inventoryVars
  <2>3. RowsInv'  BY <1>1, RowsStay DEF IInv, inventoryVars
  <2> QED  BY <2>1, <2>2, <2>3 DEF IInv
<1>2. ASSUME NEW c \in Clients, Start(c) PROVE IInv'
  <2>1. ASSUME NEW d \in Devices, NEW f \in Fields, NEW lab \in BOOLEAN, NEW s \in Candidates,
               StartCreate(c, d, f, lab, s) \/ StartUpdate(c, d, f, lab, s)
        PROVE  IInv'
    BY <2>1, StartCreateKeeps, StartUpdateKeeps
  <2>2. ASSUME NEW d \in Devices, NEW s \in Candidates, StartRepin(c, d, s) PROVE IInv'
    BY <2>2, StartRepinKeeps
  <2>3. ASSUME NEW d \in Devices, NEW a \in Artifacts \cup {None},
               StartRead(c, d, "refresh", a) \/ StartRead(c, d, "capture", a)
        PROVE  IInv'
    BY <2>3, StartReadKeeps
  <2>4. ASSUME NEW d \in Devices, StartTest(c, d) PROVE IInv'  BY <2>4, StartTestKeeps
  <2> QED  BY <1>2, <2>1, <2>2, <2>3, <2>4 DEF Start
<1>3. ASSUME NEW c \in Clients, Work(c) PROVE IInv'
  BY <1>3, ReadPinKeeps, LoggedInKeeps, LoginFailedKeeps, StoreDeviceKeeps, StoreRepinKeeps,
     StoreStatusKeeps, PutArtifactKeeps, StoreSnapshotKeeps, ForgetKeeps DEF Work
<1>4. ASSUME NEW c \in Clients, Abandon(c) PROVE IInv'  BY <1>4, AbandonKeeps
<1>5. ASSUME NEW d \in Devices, Delete(d) \/ \E lab \in BOOLEAN : SetLab(d, lab) PROVE IInv'
  BY <1>5, DeleteKeeps, SetLabKeeps
<1>6. ASSUME NEW s \in Candidates, Expire(s) \/ \E f \in Fields : Collect(s, f) PROVE IInv'
  BY <1>6, ExpireKeeps, CollectKeeps
<1>7. ASSUME NEW e \in Endpoints, NEW k \in Keys, Regenerate(e, k) PROVE IInv'
  BY <1>7, RegenerateKeeps
<1> QED  BY <1>1, <1>2, <1>3, <1>4, <1>5, <1>6, <1>7 DEF InventoryNext

\* It holds of every reachable state.
THEOREM InvariantHolds == InventorySpec => []IInv
<1> QED  BY InitHolds, StepHolds, PTL DEF InventorySpec

-----------------------------------------------------------------------------
(* What follows from it.                                                   *)

\* The pin of a device was confirmed for what the device connects to now, and
\* no two devices share an endpoint.
THEOREM PinsConfirmed == InventorySpec => []PinsAreConfirmed
<1>1. IInv => PinsAreConfirmed  BY DEF IInv, RowsInv
<1> QED  BY <1>1, InvariantHolds, PTL

\* A device that was registered or updated is trusted by a key its login met.
THEOREM RegistrationsTested == InventorySpec => []RegistrationsAreTested
<1>1. IInv => RegistrationsAreTested  BY DEF IInv, RowsInv
<1> QED  BY <1>1, InvariantHolds, PTL

\* The row of a snapshot has its artifact and its device.
THEOREM SnapshotsWhole == InventorySpec => []SnapshotsAreWhole
<1>1. IInv => SnapshotsAreWhole  BY DEF IInv, RowsInv
<1> QED  BY <1>1, InvariantHolds, PTL

\* The status of a device is what its last recorded login came to, unless that
\* was a test's that was behind and found what it had read.
THEOREM StatusFollowed == InventorySpec => []StatusFollowsLogins
<1>1. IInv => StatusFollowsLogins  BY DEF IInv, RowsInv
<1> QED  BY <1>1, InvariantHolds, PTL
=============================================================================

------------------------------ MODULE Inventory ------------------------------
(***************************************************************************)
(* The devices and the SSH host keys they are trusted by: what registers,  *)
(* changes, tests, reads and deletes a device, and the host key candidates *)
(* an operator confirms for it.  Every request is a transaction with a     *)
(* login in its middle: it reads, connects to the device for seconds, and  *)
(* writes what it then believes.                                           *)
(***************************************************************************)
EXTENDS Naturals, FiniteSets

CONSTANTS
  Devices,      \* ids of devices
  Fields,       \* what a device connects to: a management address with its port,
                \* and a setup: vendor, credential profile, compatibility mode
  Keys,         \* host keys
  Candidates,   \* ids of host key candidates
  Artifacts,    \* ids of snapshots
  Clients,      \* requests and jobs that run at the same time
  None,         \* nothing
  MaxRequests   \* requests altogether (bound of the model)

ASSUME InventoryAssumption == MaxRequests \in Nat

VARIABLES
  presents,   \* the host key the machine at an endpoint has
  device,     \* the rows of devices and their pins
  candidate,  \* the candidates that can be resolved
  files,      \* the artifacts on disk
  snapshot,   \* the device a snapshot's row refers to
  lock,       \* which client has a device's row locked
  at,         \* where a client's request stands
  op,         \* what it keeps in its local variables
  behind,     \* tests that read a device's row before a login of it was recorded
  raced,      \* devices whose last recorded login was such a test's, which found
              \* what it had read, and so left the row as it was
  heard,      \* what the last login that was recorded for a device came to
  requests    \* requests made so far

inventoryVars == <<presents, device, candidate, files, snapshot, lock, at, op, raced,
                   behind, heard, requests>>

Endpoints == {f.endpoint : f \in Fields}

\* A row: what it connects to, whether it is a lab device, the pinned key, the
\* candidate it came from, the key that was met by the login before it was
\* pinned, the pin it replaced if it was re-pinned, and the status.
Row(f, lab, cand, shown, old) ==
  [at |-> f, lab |-> lab, pin |-> cand.key, confirmed |-> cand.bound, shown |-> shown,
   replaced |-> old, status |-> "reachable"]

\* The rows and the candidates there may be
Statuses == {"reachable", "unreachable"}
Rows == [at : Fields, lab : BOOLEAN, pin : Keys, confirmed : Fields, shown : Keys,
         replaced : Keys \cup {None}, status : Statuses]
Found == [bound : Fields, key : Keys]

\* None of what the program keeps is nothing.
ASSUME NothingAssumption ==
  /\ None \notin Devices \cup Clients \cup Keys
  /\ None \notin Rows /\ None \notin Found

Idle == [kind |-> None, dev |-> None, want |-> None, lab |-> FALSE, cand |-> None,
         expects |-> None, new |-> None, shown |-> None, loaded |-> None]

\* The database is empty, or a device has been registered before.
InventoryInit ==
  /\ presents \in [Endpoints -> Keys]
  /\ \/ device = [d \in Devices |-> None] /\ heard = [d \in Devices |-> None]
     \/ \E d \in Devices, f \in Fields :
          LET key == presents[f.endpoint]
              row == Row(f, TRUE, [key |-> key, bound |-> f], key, None)
          IN  /\ device = [x \in Devices |-> IF x = d THEN row ELSE None]
              /\ heard = [x \in Devices |-> IF x = d THEN row.status ELSE None]
  /\ candidate = [s \in Candidates |-> None]
  /\ files = {} /\ snapshot = [a \in Artifacts |-> None]
  /\ lock = [d \in Devices |-> None]
  /\ at = [c \in Clients |-> "idle"] /\ op = [c \in Clients |-> Idle]
  /\ behind = {} /\ raced = {} /\ requests = 0

-----------------------------------------------------------------------------
(* The machines and the candidates                                         *)

\* A lab node starts again with another host key.
Regenerate(e, k) ==
  /\ presents[e] # k /\ presents' = [presents EXCEPT ![e] = k]
  /\ UNCHANGED <<device, candidate, files, snapshot, lock, at, op, raced, behind, heard, requests>>

\* The key a machine presents is collected for an operator to confirm, under a
\* new id.
Collect(s, f) ==
  /\ candidate[s] = None /\ \A c \in Clients : op[c].cand # s
  /\ candidate' = [candidate EXCEPT ![s] = [bound |-> f, key |-> presents[f.endpoint]]]
  /\ UNCHANGED <<presents, device, files, snapshot, lock, at, op, raced, behind, heard, requests>>

\* After fifteen minutes
Expire(s) ==
  /\ candidate[s] # None /\ candidate' = [candidate EXCEPT ![s] = None]
  /\ UNCHANGED <<presents, device, files, snapshot, lock, at, op, raced, behind, heard, requests>>

\* Mutated form: a candidate is bound to the endpoint only.
Resolves_Endpoint(s, f) ==
  candidate[s] # None /\ candidate[s].bound.endpoint = f.endpoint

\* A candidate resolves while it has not expired, for what it was collected for.
Resolves(s, f) == candidate[s] # None /\ candidate[s].bound = f

Registered(d) == device[d] # None
EndpointTaken(f, by) ==
  \E x \in Devices \ {by} : Registered(x) /\ device[x].at.endpoint = f.endpoint

-----------------------------------------------------------------------------
(* Requests                                                                *)

Unused(id) == \A c \in Clients : op[c].dev # id /\ op[c].new # id
Free(d) == Registered(d) /\ lock[d] = None

Begin(c, to, record) ==
  /\ at[c] = "idle" /\ requests < MaxRequests
  /\ requests' = requests + 1
  /\ at' = [at EXCEPT ![c] = to] /\ op' = [op EXCEPT ![c] = record]
  /\ behind' = behind \ {c}
  /\ UNCHANGED <<presents, device, candidate, files, snapshot, raced, heard>>

\* Mutated form: a request that ends lets its row go only if it wrote it.
End_Written(c) ==
  /\ at' = [at EXCEPT ![c] = "idle"] /\ op' = [op EXCEPT ![c] = Idle]
  /\ lock' = IF at[c] = "testing" THEN lock
             ELSE [d \in Devices |-> IF lock[d] = c THEN None ELSE lock[d]]

\* The request is over: its transaction commits or rolls back.
End(c) ==
  /\ at' = [at EXCEPT ![c] = "idle"] /\ op' = [op EXCEPT ![c] = Idle]
  /\ lock' = [d \in Devices |-> IF lock[d] = c THEN None ELSE lock[d]]

\* Registering a device, by hand or from what a discovery found
StartCreate(c, d, f, lab, s) ==
  /\ ~Registered(d) /\ Unused(d) /\ ~EndpointTaken(f, d) /\ Resolves(s, f)
  /\ Begin(c, "testing", [Idle EXCEPT !.kind = "create", !.dev = d, !.want = f, !.lab = lab,
                                      !.cand = s, !.expects = candidate[s].key])
  /\ UNCHANGED lock

\* Changing what a device connects to
StartUpdate(c, d, f, lab, s) ==
  /\ Free(d) /\ ~EndpointTaken(f, d) /\ Resolves(s, f)
  /\ Begin(c, "testing", [Idle EXCEPT !.kind = "update", !.dev = d, !.want = f, !.lab = lab,
                                      !.cand = s, !.expects = candidate[s].key])
  /\ lock' = [lock EXCEPT ![d] = c]

\* Replacing the pin of a lab device: the login is tried with the pinned key.
StartRepin(c, d, s) ==
  /\ Free(d) /\ device[d].lab /\ Resolves(s, device[d].at)
  /\ Begin(c, "testing", [Idle EXCEPT !.kind = "repin", !.dev = d, !.want = device[d].at,
                                      !.cand = s, !.new = candidate[s],
                                      !.expects = device[d].pin])
  /\ lock' = [lock EXCEPT ![d] = c]

\* A refresh or a diagnostic, or a capture for a new snapshot: the row is locked.
StartRead(c, d, kind, a) ==
  /\ Free(d)
  /\ IF kind = "capture" THEN a \in Artifacts \ files /\ Unused(a) ELSE a = None
  /\ Begin(c, "testing", [Idle EXCEPT !.kind = kind, !.dev = d, !.want = device[d].at,
                                      !.new = a, !.expects = device[d].pin])
  /\ lock' = [lock EXCEPT ![d] = c]

\* Testing a registered device: the row is read and not locked, the pin after it.
StartTest(c, d) ==
  /\ Registered(d)
  /\ Begin(c, "pinning", [Idle EXCEPT !.kind = "test", !.dev = d, !.want = device[d].at,
                                      !.loaded = device[d].status])
  /\ UNCHANGED lock
ReadPin(c) ==
  /\ at[c] = "pinning"
  /\ IF Registered(op[c].dev)
     THEN /\ at' = [at EXCEPT ![c] = "testing"]
          /\ op' = [op EXCEPT ![c].expects = device[op[c].dev].pin]
          /\ UNCHANGED lock
     ELSE End(c)
  /\ UNCHANGED <<presents, device, candidate, files, snapshot, raced, behind, heard, requests>>

\* Mutated form: any key will do.
LoggedIn_AnyKey(c) ==
  /\ at[c] = "testing"
  /\ at' = [at EXCEPT ![c] = "storing"]
  /\ op' = [op EXCEPT ![c].shown = presents[op[c].want.endpoint]]
  /\ UNCHANGED <<presents, device, candidate, files, snapshot, lock, raced, behind, heard, requests>>

\* The machine presented the key that was expected, and the login went through.
LoggedIn(c) ==
  /\ at[c] = "testing" /\ presents[op[c].want.endpoint] = op[c].expects
  /\ at' = [at EXCEPT ![c] = "storing"]
  /\ op' = [op EXCEPT ![c].shown = presents[op[c].want.endpoint]]
  /\ UNCHANGED <<presents, device, candidate, files, snapshot, lock, raced, behind, heard, requests>>

\* Tests that have read the row of a device and have not written it yet
OtherTests(c, d) == {x \in Clients \ {c} : op[x].kind = "test" /\ op[x].dev = d}

\* What a login came to is committed; a test writes nothing if it found what it
\* had read.
Heard(c, d, status) ==
  /\ heard' = [heard EXCEPT ![d] = status]
  /\ behind' = behind \cup OtherTests(c, d)
  /\ raced' = IF c \in behind /\ op[c].loaded = status THEN raced \cup {d} ELSE raced \ {d}

\* A test writes a status only where it differs from the one it had read.
Noted(c, status) ==
  LET d == op[c].dev
  IN  /\ lock[d] = None
      /\ IF Registered(d)
         THEN /\ device' = [device EXCEPT ![d].status =
                              IF op[c].loaded = status THEN @ ELSE status]
              /\ Heard(c, d, status)
         ELSE UNCHANGED <<device, heard, behind, raced>>
      /\ End(c)

\* Mutated form: a refresh that fails says nothing on the row.
LoginFailed_Silent(c) ==
  /\ at[c] = "testing"
  /\ IF op[c].kind = "test" THEN Noted(c, "unreachable")
     ELSE End(c) /\ heard' = [heard EXCEPT ![op[c].dev] =
                                IF op[c].kind = "refresh" THEN "unreachable" ELSE @]
                /\ UNCHANGED <<device, behind, raced>>
  /\ UNCHANGED <<presents, candidate, files, snapshot, requests>>

\* The login failed.  A test and a refresh say so on the row; the others roll
\* back, a re-pin with the failure its own test had noted.
LoginFailed(c) ==
  /\ at[c] = "testing"
  /\ CASE op[c].kind = "refresh" ->
            /\ device' = [device EXCEPT ![op[c].dev].status = "unreachable"]
            /\ Heard(c, op[c].dev, "unreachable") /\ End(c)
       [] op[c].kind = "test" -> Noted(c, "unreachable")
       [] OTHER -> End(c) /\ UNCHANGED <<device, heard, behind, raced>>
  /\ UNCHANGED <<presents, candidate, files, snapshot, requests>>

\* Mutated form: the pin stays if the device stays at its endpoint.
Pinned_SameEndpoint(c, d) ==
  LET row == Row(op[c].want, op[c].lab, candidate[op[c].cand], op[c].shown, None)
  IN  [device EXCEPT ![d] =
         IF Registered(d) /\ device[d].at.endpoint = op[c].want.endpoint
         THEN [row EXCEPT !.pin = device[d].pin, !.confirmed = device[d].confirmed]
         ELSE row]

\* The row as it is registered or updated
Pinned(c, d) ==
  [device EXCEPT ![d] = Row(op[c].want, op[c].lab, candidate[op[c].cand], op[c].shown, None)]

\* The candidate is resolved again, the row written and committed: by then the
\* candidate may have expired, and another device may be at the endpoint.
StoreDevice(c) ==
  LET d == op[c].dev
  IN  /\ at[c] = "storing" /\ op[c].kind \in {"create", "update"}
      /\ IF Resolves(op[c].cand, op[c].want) /\ ~EndpointTaken(op[c].want, d)
         THEN /\ device' = Pinned(c, d) /\ Heard(c, d, "reachable")
              /\ at' = [at EXCEPT ![c] = "forgetting"]
              /\ lock' = [lock EXCEPT ![d] = None] /\ UNCHANGED op
         ELSE End(c) /\ UNCHANGED <<device, heard, behind, raced>>
      /\ UNCHANGED <<presents, candidate, files, snapshot, requests>>

\* A re-pin stores the key of the candidate it had resolved before the login.
StoreRepin(c) ==
  LET d == op[c].dev
  IN  /\ at[c] = "storing" /\ op[c].kind = "repin"
      /\ device' = [device EXCEPT ![d] =
           Row(op[c].want, device[d].lab, op[c].new, op[c].shown, device[d].pin)]
      /\ Heard(c, d, "reachable")
      /\ at' = [at EXCEPT ![c] = "forgetting"]
      /\ lock' = [lock EXCEPT ![d] = None]
      /\ UNCHANGED <<presents, candidate, files, snapshot, op, requests>>

\* A test, a refresh or a diagnostic that went through
StoreStatus(c) ==
  /\ at[c] = "storing" /\ op[c].kind \in {"test", "refresh"}
  /\ IF op[c].kind = "test" THEN Noted(c, "reachable")
     ELSE /\ device' = [device EXCEPT ![op[c].dev].status = "reachable"]
          /\ Heard(c, op[c].dev, "reachable") /\ End(c)
  /\ UNCHANGED <<presents, candidate, files, snapshot, requests>>

\* The configuration is on disk before its row is.
PutArtifact(c) ==
  /\ at[c] = "storing" /\ op[c].kind = "capture"
  /\ files' = files \cup {op[c].new}
  /\ at' = [at EXCEPT ![c] = "filed"]
  /\ UNCHANGED <<presents, device, candidate, snapshot, lock, op, raced, behind, heard, requests>>
StoreSnapshot(c) ==
  /\ at[c] = "filed"
  /\ snapshot' = [snapshot EXCEPT ![op[c].new] = op[c].dev]
  /\ End(c)
  /\ UNCHANGED <<presents, device, candidate, files, raced, behind, heard, requests>>

\* The candidate is used up once its key is stored.
Forget(c) ==
  /\ at[c] = "forgetting"
  /\ candidate' = [candidate EXCEPT ![op[c].cand] = None]
  /\ End(c)
  /\ UNCHANGED <<presents, device, files, snapshot, raced, behind, heard, requests>>

\* The policy, the gate or the credentials refuse; or the process dies.
Abandon(c) ==
  /\ at[c] # "idle" /\ End(c)
  /\ UNCHANGED <<presents, device, candidate, files, snapshot, raced, behind, heard, requests>>

-----------------------------------------------------------------------------
(* Requests without a login                                                *)

\* Changing what is no part of the connection
SetLab(d, lab) ==
  /\ Free(d) /\ device' = [device EXCEPT ![d].lab = lab]
  /\ UNCHANGED <<presents, candidate, files, snapshot, lock, at, op, raced, behind, heard, requests>>

\* Mutated form: a device goes with the snapshots of it left behind.
Delete_Anyway(d) ==
  /\ Free(d) /\ device' = [device EXCEPT ![d] = None]
  /\ UNCHANGED <<presents, candidate, files, snapshot, lock, at, op, raced, behind, heard, requests>>

\* A device no snapshot refers to is deleted with its pin.
Delete(d) ==
  /\ Free(d) /\ \A a \in Artifacts : snapshot[a] # d
  /\ device' = [device EXCEPT ![d] = None]
  /\ UNCHANGED <<presents, candidate, files, snapshot, lock, at, op, raced, behind, heard, requests>>

-----------------------------------------------------------------------------
Work(c) ==
  \/ ReadPin(c) \/ LoggedIn(c) \/ LoginFailed(c) \/ StoreDevice(c) \/ StoreRepin(c)
  \/ StoreStatus(c) \/ PutArtifact(c) \/ StoreSnapshot(c) \/ Forget(c)

Start(c) ==
  \/ \E d \in Devices, f \in Fields, lab \in BOOLEAN, s \in Candidates :
       StartCreate(c, d, f, lab, s) \/ StartUpdate(c, d, f, lab, s)
  \/ \E d \in Devices, s \in Candidates : StartRepin(c, d, s)
  \/ \E d \in Devices, a \in Artifacts \cup {None} :
       StartRead(c, d, "refresh", a) \/ StartRead(c, d, "capture", a)
  \/ \E d \in Devices : StartTest(c, d)

InventoryNext ==
  \/ \E c \in Clients : Start(c) \/ Work(c) \/ Abandon(c)
  \/ \E d \in Devices : Delete(d) \/ \E lab \in BOOLEAN : SetLab(d, lab)
  \/ \E s \in Candidates : Expire(s) \/ \E f \in Fields : Collect(s, f)
  \/ \E e \in Endpoints, k \in Keys : Regenerate(e, k)

\* A login ends within the timeouts of its driver, and what comes after it does
\* not wait, but a test for its row.
InventoryFairness == \A c \in Clients : WF_inventoryVars(Work(c))

InventorySpec == InventoryInit /\ [][InventoryNext]_inventoryVars /\ InventoryFairness

-----------------------------------------------------------------------------
(* Properties                                                              *)

\* Whatever is changed and re-pinned, and however it interleaves, the pin of a
\* device was confirmed for what the device connects to now, and no two
\* devices share an endpoint.
PinsAreConfirmed ==
  \A d \in Devices : Registered(d) =>
    /\ device[d].confirmed = device[d].at
    /\ ~EndpointTaken(device[d].at, d)

\* A device that is registered or updated is trusted by the key that its login
\* met, though the candidate is resolved again after the login and may have
\* expired or been collected anew by then.
RegistrationsAreTested ==
  \A d \in Devices : Registered(d) /\ device[d].replaced = None =>
    device[d].shown = device[d].pin

\* Every pin was met by the login before it was stored.  The docstring of
\* repin_host_key says so of a re-pin: "the connection is tested with the new
\* key before it is stored".
TrustIsTested == \A d \in Devices : Registered(d) => device[d].shown = device[d].pin

\* The row of a snapshot has its artifact and its device, whatever was deleted
\* and wherever a capture was cut off.
SnapshotsAreWhole ==
  \A a \in Artifacts : snapshot[a] # None => a \in files /\ Registered(snapshot[a])

\* A device has the status its last recorded login came to, but for one case: that
\* login was a test's that had read the row before another login was recorded,
\* and came to the very status it had read.  The next recorded login mends it.
StatusFollowsLogins ==
  \A d \in Devices \ raced : Registered(d) => device[d].status = heard[d]

\* No request waits forever, not for a row another one has locked either.
RequestsEnd == \A c \in Clients : at[c] # "idle" ~> at[c] = "idle"
=============================================================================

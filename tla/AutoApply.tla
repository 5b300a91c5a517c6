------------------------------ MODULE AutoApply ------------------------------
(***************************************************************************)
(* The allowance of automatic applies of an assistant session: how the     *)
(* apply endpoint counts them while several requests run in threads of     *)
(* their own, each with a database session that does not read an object    *)
(* again after a commit.                                                   *)
(***************************************************************************)
EXTENDS Naturals

CONSTANTS
  Requesters,     \* requests that may run at the same time
  Allowance,      \* MAX_AUTO_APPLIES_PER_SESSION
  MaxRequests     \* requests altogether (bound of the model)

ASSUME AllowanceAssumption == Allowance \in Nat \ {0} /\ MaxRequests \in Nat

VARIABLES
  mode,       \* the session's mode
  count,      \* its auto_apply_count
  lock,       \* who has its row locked
  at,         \* where a request stands
  seen,       \* the count a request read
  applies,    \* automatic applies that were queued since Auto was acknowledged
  alone,      \* a request was let in while no other had yet to count
  escaped,    \* those of applies that the count may have missed: let in while
              \* another had yet to count, or queued and then never counted
  requests    \* requests made so far

autoVars == <<mode, count, lock, at, seen, applies, alone, escaped, requests>>
Nobody == "nobody"
ASSUME NobodyAsks == Nobody \notin Requesters

AutoInit ==
  /\ mode = "confirm" /\ count = 0 /\ lock = Nobody
  /\ at = [r \in Requesters |-> "idle"] /\ seen = [r \in Requesters |-> 0]
  /\ applies = 0 /\ alone = [r \in Requesters |-> FALSE] /\ escaped = 0 /\ requests = 0

\* Requests that passed the check and have not counted yet
Pending == {r \in Requesters : at[r] \in {"pushing", "counting"}}

\* A request locks the session's row.  Only Auto mode counts.
Ask(r) ==
  /\ at[r] = "idle" /\ lock = Nobody /\ requests < MaxRequests
  /\ requests' = requests + 1
  /\ lock' = r
  /\ at' = [at EXCEPT ![r] = IF mode = "auto" THEN "checking" ELSE "plain"]
  /\ seen' = [seen EXCEPT ![r] = count]
  /\ alone' = [alone EXCEPT ![r] = Pending = {}]
  /\ UNCHANGED <<mode, count, applies, escaped>>

\* The allowance is spent, the plan is not a draft, its device is busy, or the
\* queue cannot be reached: nothing is queued.
Refuse(r) ==
  /\ at[r] \in {"checking", "plain", "pushing"}
  /\ at' = [at EXCEPT ![r] = "idle"]
  /\ lock' = IF lock = r THEN Nobody ELSE lock
  /\ UNCHANGED <<mode, count, seen, applies, alone, escaped, requests>>

\* Mutated form: one more than the allowance is let through.
Enqueue_OneMore(r) ==
  /\ at[r] = "checking" /\ seen[r] <= Allowance
  /\ at' = [at EXCEPT ![r] = "pushing"] /\ lock' = Nobody
  /\ UNCHANGED <<mode, count, seen, applies, alone, escaped, requests>>

\* The job is committed before it is pushed, which lets the row go.
Enqueue(r) ==
  /\ \/ at[r] = "checking" /\ seen[r] < Allowance /\ at' = [at EXCEPT ![r] = "pushing"]
     \/ at[r] = "plain" /\ at' = [at EXCEPT ![r] = "idle"]
  /\ lock' = Nobody
  /\ UNCHANGED <<mode, count, seen, applies, alone, escaped, requests>>

\* The queue takes the entry.  If its reply is lost, the request fails without
\* counting the apply, which a worker may run all the same.
Push(r, replied) ==
  /\ at[r] = "pushing"
  /\ at' = [at EXCEPT ![r] = IF replied THEN "counting" ELSE "idle"]
  /\ applies' = applies + 1
  /\ escaped' = IF replied /\ alone[r] THEN escaped ELSE escaped + 1
  /\ UNCHANGED <<mode, count, lock, seen, alone, requests>>

\* record_auto_apply adds one to the count that was read.
Count(r) ==
  /\ at[r] = "counting" /\ lock = Nobody
  /\ count' = seen[r] + 1
  /\ at' = [at EXCEPT ![r] = "idle"]
  /\ UNCHANGED <<mode, lock, seen, applies, alone, escaped, requests>>

\* The process dies, or the database fails, before it has counted.
Die(r) ==
  /\ at[r] = "counting"
  /\ at' = [at EXCEPT ![r] = "idle"]
  /\ escaped' = IF alone[r] THEN escaped + 1 ELSE escaped
  /\ UNCHANGED <<mode, count, lock, seen, applies, alone, requests>>

\* The websocket sets the mode; Auto only with the risk acknowledged, which
\* gives a new allowance.
SetMode(to) ==
  /\ lock = Nobody
  /\ mode' = to
  /\ IF to = "auto" THEN count' = 0 /\ applies' = 0 /\ escaped' = 0
     ELSE UNCHANGED <<count, applies, escaped>>
  /\ UNCHANGED <<lock, at, seen, alone, requests>>

AutoNext ==
  \/ \E r \in Requesters :
       \/ Ask(r) \/ Refuse(r) \/ Enqueue(r) \/ Count(r) \/ Die(r)
       \/ \E replied \in BOOLEAN : Push(r, replied)
  \/ \E to \in {"auto", "confirm"} : SetMode(to)

AutoSpec == AutoInit /\ [][AutoNext]_autoVars

-----------------------------------------------------------------------------
\* However requests overlap, die and lose replies: beyond what one
\* acknowledgement allows, no automatic applies are queued but those that
\* escaped the count, one each; and once nobody has yet to count, the count is
\* behind by no more than those.
AllowanceIsKept ==
  /\ applies <= Allowance + escaped
  /\ Pending = {} => applies <= count + escaped
=============================================================================

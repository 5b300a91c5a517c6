------------------------ MODULE ChangePlanLifecycle -------------------------
(***************************************************************************)
(* What the change pipeline promises of every plan, without requests,      *)
(* jobs, workers or crashes: a plan is drafted, confirmed, sent to its     *)
(* device at most once, undone at most once, and settled for good.         *)
(***************************************************************************)
EXTENDS Naturals

CONSTANT Plans

VARIABLES
  status,   \* the stored status of each plan, "none" before it is stored
  pushed,   \* how often its rendered commands have reached a device
  undone    \* how often its inverse commands have

lifecycleVars == <<status, pushed, undone>>

Settled == {"applied", "rolled_back", "rollback_failed"}

Init ==
  /\ status = [p \in Plans |-> "none"]
  /\ pushed = [p \in Plans |-> 0]
  /\ undone = [p \in Plans |-> 0]

Move(p, from, to) ==
  /\ status[p] = from
  /\ status' = [status EXCEPT ![p] = to]
  /\ UNCHANGED <<pushed, undone>>

Store(p)   == Move(p, "none", "draft")
Confirm(p) == Move(p, "draft", "applying")

Push(p) ==
  /\ status[p] = "applying"
  /\ pushed[p] = 0 /\ undone[p] = 0
  /\ pushed' = [pushed EXCEPT ![p] = 1]
  /\ UNCHANGED <<status, undone>>

Undo(p) ==
  /\ status[p] = "applying"
  /\ undone[p] = 0
  /\ undone' = [undone EXCEPT ![p] = 1]
  /\ UNCHANGED <<status, pushed>>

\* "applied" claims the commands are on the device, "rolled_back" that the
\* inverse followed them; "rollback_failed" claims nothing.
Settle(p) ==
  \/ pushed[p] = 1 /\ undone[p] = 0 /\ Move(p, "applying", "applied")
  \/ undone[p] = 1 /\ Move(p, "applying", "rolled_back")
  \/ Move(p, "applying", "rollback_failed")

Next == \E p \in Plans : Store(p) \/ Confirm(p) \/ Push(p) \/ Undo(p) \/ Settle(p)

Spec == Init /\ [][Next]_lifecycleVars
=============================================================================

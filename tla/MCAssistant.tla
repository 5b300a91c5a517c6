----------------------------- MODULE MCAssistant -----------------------------
(* Instances of AssistantChat and AutoApply for TLC: one client and a longer *)
(* conversation, two clients and a short one, or the allowance.              *)
EXTENDS AssistantChat, AutoApply

CONSTANTS First,   \* the only client of the longer conversation
          Short    \* no turn begins beyond so many messages with two clients

VARIABLE scene

Init == /\ ChatInit /\ AutoInit
        /\ scene \in {"one client", "two clients", "allowance"}

Next ==
  /\ UNCHANGED scene
  /\ \/ /\ scene = "one client" /\ ChatNext
        /\ \A s \in Sockets \ {First} : pc'[s] = "closed"
        /\ UNCHANGED autoVars
     \/ /\ scene = "two clients" /\ ChatNext
        /\ \A s \in Sockets : pc[s] = "idle" /\ pc'[s] \in InTurn => Len(stored) < Short
        /\ \A s \in Sockets : turn'[s].calls <= 1
        /\ UNCHANGED autoVars
     \/ scene = "allowance" /\ AutoNext /\ UNCHANGED chatVars

Spec == Init /\ [][Next]_<<chatVars, autoVars, scene>> /\ ChatFairness
=============================================================================

-------------------------- MODULE MCConnectionGate --------------------------
(* Instances of ConnectionGate for TLC. *)
EXTENDS ConnectionGate, TLC

CONSTANTS c1, c2, c3, t1, d1

Call(op, d) == [op |-> op, target |-> t1, device |-> d]

\* The operations with a rate on one endpoint: a terminal, which every kind of
\* limit counts, and the test before the endpoint is a device.
RatedOperations == {Call("terminal", d1), Call("test", NoDevice)}

\* One operation without a rate and one with.
TwoOperations == {Call("structured", d1), Call("test", NoDevice)}

Symmetry == Permutations(Clients)
=============================================================================

-------------------------- MODULE MCChangePipeline --------------------------
(* Instances of ChangePipeline for TLC. *)
EXTENDS ChangePipeline, TLC

\* Sound for the safety runs only: no liveness property is checked with it.
Symmetry == Permutations(Calls) \cup Permutations(Workers) \cup Permutations(Plans)
=============================================================================

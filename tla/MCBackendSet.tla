---------------------------- MODULE MCBackendSet ----------------------------
(* Instances of BackendSet for TLC. *)
EXTENDS BackendSet, TLC

(* Three backends; the second has no weight given, so it counts as 1. *)
Weights == [b \in {0, 1, 2} |-> <<2, 0, 1>>[b + 1]]

Symmetric == Permutations(Callers)
=============================================================================

------------------------------ MODULE MCRouter ------------------------------
(* Instances of Router for TLC. *)
EXTENDS Router, TLC

Symmetric == Permutations(Conns) \cup Permutations(Workers)
=============================================================================
